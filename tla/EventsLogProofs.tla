--------------------------- MODULE EventsLogProofs ---------------------------
(***************************************************************************)
(* The safety properties of EventsLog, for every number of readers,        *)
(* transactions and entries.  The inductive invariant says of every cursor *)
(* there is (the stored one, those of a reader, the one a reset has read)  *)
(* that what a running transaction may still publish is ahead of it, and   *)
(* of the holder of the lease that its cursors go on from the stored one   *)
(* and are past nothing that is not handled.  First come facts about the   *)
(* cursors: what a cursor is past, what it can know of transactions that   *)
(* are still running, and what one read makes of it.                       *)
(***************************************************************************)
EXTENDS EventsLog, FiniteSetTheorems, SequenceTheorems, WellFoundedInduction, TLAPS

Past(c, e) == ~Ahead(c, e)

\* b is past everything that a is past.
NoFurther(a, b) == \A f \in Entry : Past(a, f) => Past(b, f)

\* A cursor that a read of this log may have led to: whatever a transaction that
\* has not ended may still publish is ahead of it.
Sound(c) ==
    /\ c \in Cursor
    /\ c.xid <= Xmax
    /\ c.id # 0 => c.xid \in Xids
    /\ \A x \in Xids : c.pending[x] # NotPending => x < c.xid
    /\ \A x \in Xids \ Ended :
          /\ c.pending[x] \in {NotPending, 0}
          /\ c.pending[x] = NotPending => x > c.xid \/ (x = c.xid /\ c.id = 0)

States == {"new", "running", "committed", "aborted"}

\* The transactions start in the order of their ids; the rows of the log.
Table ==
    /\ tx \in [Xids -> States]
    /\ \A x, y \in Xids : x < y /\ tx[x] = "new" => tx[y] = "new"
    /\ entries \subseteq Entry /\ IsFiniteSet(entries)
    /\ \A e \in entries : tx[e.xid] # "new" /\ e.id <= Cardinality(entries)
    /\ \A e, f \in entries : e.id = f.id => e = f

-----------------------------------------------------------------------------
(* Numbers.                                                                *)

LEMMA LeastNat ==
    ASSUME NEW T, T \subseteq Nat, T # {}
    PROVE  \E x \in T : \A y \in T : x <= y
<1>1. IsWellFoundedOn(OpToRel(<, Nat), Nat)
  BY NatLessThanWellFounded
<1>2. PICK x \in T : \A y \in T : ~(<<y, x>> \in OpToRel(<, Nat))
  BY <1>1, WFMin
<1>3. ASSUME NEW y \in T PROVE ~(y < x)
  <2>1. <<y, x>> \in Nat \X Nat /\ <<y, x>> \notin OpToRel(<, Nat)
    BY <1>2
  <2> QED  BY <2>1 DEF OpToRel
<1>4. ASSUME NEW y \in T PROVE x <= y
  <2>1. x \in Nat /\ y \in Nat
    OBVIOUS
  <2> QED  BY <1>3, <2>1
<1> QED  BY <1>2, <1>4

LEMMA GreatestNat ==
    ASSUME NEW T, NEW b \in Nat, T \subseteq 0..b, T # {}
    PROVE  \E x \in T : \A y \in T : x >= y
<1>1. PICK t \in {b - x : x \in T} : \A u \in {b - x : x \in T} : t <= u
  <2>1. \A x \in T : x \in Nat /\ b - x \in Nat
    OBVIOUS
  <2>2. {b - x : x \in T} \subseteq Nat
    BY <2>1
  <2>3. {b - x : x \in T} # {}
    OBVIOUS
  <2> QED  BY <2>2, <2>3, LeastNat
<1>2. PICK x \in T : t = b - x
  BY <1>1
<1>3. \A y \in T : b - x <= b - y
  BY <1>1, <1>2
<1> QED  BY <1>3

-----------------------------------------------------------------------------
(* Transactions.                                                           *)

LEMMA AfterAll ==
    ASSUME NEW S, S \subseteq Xids
    PROVE  /\ Max(S \cup {0}) \in 0..MaxXid
           /\ \A x \in S : x < 1 + Max(S \cup {0})
           /\ 1 + Max(S \cup {0}) = 1 \/ Max(S \cup {0}) \in S
<1> DEFINE T == S \cup {0}
<1>1. T \subseteq 0..MaxXid /\ T # {} /\ MaxXid \in Nat
  BY EventsAssumption DEF Xids
<1> HIDE DEF T
<1>2. \E x \in T : \A y \in T : x >= y
  BY <1>1, GreatestNat
<1>3. Max(T) \in T /\ \A y \in T : Max(T) >= y
  BY <1>2 DEF Max
<1> QED  BY <1>1, <1>3 DEF T

LEMMA XmaxFacts ==
    /\ Xmax \in 1..MaxXid + 1
    /\ \A x \in Ended : x < Xmax
    /\ Xmax = 1 \/ Xmax - 1 \in Ended
<1>1. Ended \subseteq Xids
  BY DEF Ended
<1>2. Max(Ended \cup {0}) \in 0..MaxXid
  BY <1>1, AfterAll, EventsAssumption
<1> QED  BY <1>1, <1>2, AfterAll, EventsAssumption DEF Xmax

LEMMA XmaxGrows ==
    ASSUME Ended \subseteq Ended' PROVE Xmax <= Xmax'
<1>1. Ended' \subseteq Xids
  BY DEF Ended
<1>2. Xmax' = 1 + Max(Ended' \cup {0})
  BY DEF Xmax
<1>3. Xmax' \in 1..MaxXid + 1 /\ \A x \in Ended' : x < Xmax'
  BY <1>1, <1>2, AfterAll, EventsAssumption
<1> QED  BY <1>3, XmaxFacts, EventsAssumption

\* Where a transaction stands, seen from a read.
LEMMA Transactions ==
    ASSUME Table, NEW x \in Xids
    PROVE  /\ x \in Ended => x \notin Running /\ x < Xmax
           /\ x \notin Ended /\ x < Xmax => x \in Running
           /\ x \in Running => x \notin Ended
<1>1. x \in Nat /\ tx[x] \in States
  BY EventsAssumption DEF Table, Xids
<1>2. tx[x] = "new" => ~(x < Xmax)
  <2> SUFFICES ASSUME tx[x] = "new", x < Xmax PROVE FALSE
    OBVIOUS
  <2>1. Xmax - 1 \in Ended /\ Xmax - 1 \in Xids /\ x <= Xmax - 1
    BY <1>1, XmaxFacts, EventsAssumption DEF Xids, Ended
  <2>2. tx[Xmax - 1] = "new"
    BY <1>1, <2>1 DEF Table, Xids
  <2> QED  BY <2>1, <2>2 DEF Ended
<1> QED  BY <1>1, <1>2, XmaxFacts DEF Running, Ended, States

-----------------------------------------------------------------------------
(* What a cursor is past.                                                  *)

LEMMA NoFurtherSame == \A c : NoFurther(c, c)
  BY DEF NoFurther

LEMMA NoFurtherTwice ==
    ASSUME NEW a, NEW b, NEW c, NoFurther(a, b), NoFurther(b, c) PROVE NoFurther(a, c)
  BY DEF NoFurther

\* Within a transaction a cursor is past what comes before what it is past.
LEMMA PastInOrder ==
    ASSUME NEW c \in Cursor, NEW e \in Entry, NEW f \in Entry,
           f.xid = e.xid, f.id < e.id, Past(c, e)
    PROVE  Past(c, f)
<1>1. /\ c.xid \in Int /\ c.id \in Int /\ c.pending[e.xid] \in Int
      /\ e.xid \in Int /\ e.id \in Int /\ f.id \in Int
  BY EventsAssumption DEF Cursor, Entry, Ids, Xids, NotPending
<1> QED  BY <1>1 DEF Past, Ahead, Before

\* What is still to be published is ahead.
LEMMA OpenIsAhead ==
    ASSUME NEW c, Sound(c), NEW e \in Entry, e.xid \notin Ended
    PROVE  Ahead(c, e)
<1>1. /\ c.xid \in Int /\ c.id \in Int /\ c.pending[e.xid] \in Int
      /\ e.xid \in Xids /\ e.xid \in Int /\ e.id \in Int /\ e.id > 0
  BY EventsAssumption DEF Sound, Cursor, Entry, Ids, Xids, NotPending
<1> QED  BY <1>1 DEF Sound, Ahead, Before, NotPending

\* Time makes no cursor unsound.
LEMMA SoundStays ==
    ASSUME NEW c, Sound(c), Ended \subseteq Ended' PROVE Sound(c)'
<1>1. c.xid \in Int /\ Xmax \in Int /\ Xmax' \in Int
  <2>1. Ended' \subseteq Xids
    BY DEF Ended
  <2>2. Xmax' = 1 + Max(Ended' \cup {0})
    BY DEF Xmax
  <2> QED  BY <2>1, <2>2, AfterAll, XmaxFacts, EventsAssumption DEF Sound, Cursor
<1>2. c.xid <= Xmax'
  BY <1>1, XmaxGrows DEF Sound
<1> QED  BY <1>2 DEF Sound

LEMMA BeginningIsSound ==
    Sound(BEGINNING) /\ \A e \in Entry : Ahead(BEGINNING, e)
<1>1. BEGINNING \in Cursor
  BY EventsAssumption DEF BEGINNING, Cursor, NoneSince, Zero, NotPending
<1>2. /\ BEGINNING.xid = 0 /\ BEGINNING.id = 0
      /\ \A x \in Xids : BEGINNING.pending[x] = NotPending
  BY DEF BEGINNING, NoneSince, Zero
<1>3. Sound(BEGINNING)
  BY <1>1, <1>2, XmaxFacts, EventsAssumption DEF Sound, Xids
<1>4. \A e \in Entry : Ahead(BEGINNING, e)
  BY <1>2, EventsAssumption DEF Entry, Xids, Ahead, Before
<1> QED  BY <1>3, <1>4

\* reset('now'): only what has ended is behind the cursor.
LEMMA SeedIsSound ==
    ASSUME Table
    PROVE  Sound(seed)
<1>1. seed \in Cursor
  BY XmaxFacts, EventsAssumption DEF seed, Cursor, Zero, NotPending
<1>2. /\ seed.xid = Xmax /\ seed.id = 0
      /\ \A x \in Xids : seed.pending[x] = IF x \in Running THEN 0 ELSE NotPending
  BY DEF seed, Zero
<1>3. \A x \in Xids : x \in Int /\ (x \in Running => x < Xmax)
  BY DEF Xids, Running
<1>4. \A x \in Xids \ Ended : x \notin Running => x >= Xmax
  BY <1>3, Transactions, XmaxFacts, EventsAssumption
<1>5. \A x \in Xids : seed.pending[x] # NotPending => x < seed.xid
  BY <1>2, <1>3
<1>6. \A x \in Xids \ Ended : /\ seed.pending[x] \in {NotPending, 0}
                              /\ seed.pending[x] = NotPending => x > seed.xid \/ (x = seed.xid /\ seed.id = 0)
  BY <1>2, <1>3, <1>4, XmaxFacts, EventsAssumption DEF NotPending
<1> QED  BY <1>1, <1>2, <1>5, <1>6, XmaxFacts, EventsAssumption DEF Sound
-----------------------------------------------------------------------------
(* One entry acknowledged.                                                 *)

LEMMA AdvanceLate ==
    ASSUME NEW c \in Cursor, NEW e \in Entry, NEW view, c.pending[e.xid] # NotPending
    PROVE  LET a == advance(c, view, e)
           IN  /\ a \in Cursor /\ a.xid = c.xid /\ a.id = c.id /\ a.pending[e.xid] = e.id
               /\ \A x \in Xids \ {e.xid} : a.pending[x] = c.pending[x]
<1>1. /\ c = [xid |-> c.xid, id |-> c.id, pending |-> c.pending]
      /\ c.pending \in [Xids -> {NotPending} \cup 0..MaxEntries]
      /\ c.xid \in 0..MaxXid + 1 /\ c.id \in 0..MaxEntries
      /\ e.xid \in Xids /\ e.id \in 0..MaxEntries
  BY EventsAssumption DEF Cursor, Entry, Xids, Ids
<1>2. PICK p : p = [c.pending EXCEPT ![e.xid] = e.id]
  OBVIOUS
<1>3. advance(c, view, e) = [xid |-> c.xid, id |-> c.id, pending |-> p]
  <2>1. advance(c, view, e) = [c EXCEPT !.pending[e.xid] = e.id]
    BY DEF advance
  <2>2. advance(c, view, e) = [c EXCEPT !.pending = p]
    BY <1>2, <2>1, Zenon
  <2> QED  BY <1>1, <2>2
<1>4. p \in [Xids -> {NotPending} \cup 0..MaxEntries]
  BY <1>1, <1>2
<1> QED  BY <1>1, <1>2, <1>3, <1>4 DEF Cursor

LEMMA AdvanceNext ==
    ASSUME NEW c \in Cursor, NEW e \in Entry, NEW view, c.pending[e.xid] = NotPending
    PROVE  LET a == advance(c, view, e)
           IN  /\ a \in Cursor /\ a.xid = e.xid /\ a.id = e.id
               /\ \A x \in Xids : a.pending[x] =
                     IF x \in view.running /\ x < e.xid /\ c.pending[x] = NotPending
                     THEN 0 ELSE c.pending[x]
<1>1. /\ c.pending \in [Xids -> {NotPending} \cup 0..MaxEntries]
      /\ e.xid \in 0..MaxXid + 1 /\ e.id \in 0..MaxEntries
  BY EventsAssumption DEF Cursor, Entry, Xids, Ids
<1>2. PICK p : p = addRunning(c.pending, view.running, e.xid)
  OBVIOUS
<1>3. advance(c, view, e) = [xid |-> e.xid, id |-> e.id, pending |-> p]
  BY <1>2 DEF advance
<1>4. p \in [Xids -> {NotPending} \cup 0..MaxEntries]
  BY <1>1, <1>2, EventsAssumption DEF addRunning, Zero
<1>5. \A x \in Xids : p[x] = IF x \in view.running /\ x < e.xid /\ c.pending[x] = NotPending
                             THEN 0 ELSE c.pending[x]
  BY <1>2 DEF addRunning, Zero
<1> QED  BY <1>1, <1>3, <1>4, <1>5 DEF Cursor

LEMMA Advanced ==
    ASSUME Table, NEW c, Sound(c), NEW view, view.running = Running,
           NEW e \in Entry, e.xid \in Ended, Ahead(c, e), NEW a, a = advance(c, view, e)
    PROVE  Sound(a) /\ NoFurther(c, a) /\ Past(a, e)
<1>1. c \in Cursor
  BY DEF Sound
<1>2. /\ c.xid \in Int /\ c.id \in Int /\ c.xid <= Xmax /\ Xmax \in Int
      /\ \A x \in Xids : c.pending[x] \in Int
      /\ e.xid \in Xids /\ \A x \in Xids : x \in Int /\ x > 0
      /\ e.id \in Int /\ e.id > 0 /\ \A f \in Entry : f.xid \in Xids /\ f.id \in Int /\ f.id > 0
  BY <1>1, XmaxFacts, EventsAssumption DEF Cursor, Entry, Xids, Ids, NotPending, Sound
<1>3. /\ e.xid \notin Running /\ e.xid < Xmax
      /\ \A x \in Xids \ Ended : x < Xmax => x \in Running
      /\ \A x \in Running : x \in Xids \ Ended
  BY <1>2, Transactions DEF Running
<1>4. CASE c.pending[e.xid] # NotPending
  <2>1. /\ a \in Cursor /\ a.xid = c.xid /\ a.id = c.id /\ a.pending[e.xid] = e.id
        /\ \A x \in Xids \ {e.xid} : a.pending[x] = c.pending[x]
    BY <1>1, <1>4, AdvanceLate
  <2>2. e.xid < c.xid /\ e.id > c.pending[e.xid]
    BY <1>2, <1>4 DEF Sound, Ahead, Before
  <2>3. Sound(a)
    BY <2>1, <2>2 DEF Sound
  <2>4. NoFurther(c, a)
    BY <1>2, <2>1, <2>2 DEF NoFurther, Past, Ahead, Before
  <2>5. Past(a, e)
    BY <1>2, <2>1, <2>2 DEF Past, Ahead, Before
  <2> QED  BY <2>3, <2>4, <2>5
<1>5. CASE c.pending[e.xid] = NotPending
  <2>1. /\ a \in Cursor /\ a.xid = e.xid /\ a.id = e.id
        /\ \A x \in Xids : a.pending[x] =
              IF x \in Running /\ x < e.xid /\ c.pending[x] = NotPending THEN 0 ELSE c.pending[x]
    BY <1>1, <1>5, AdvanceNext
  <2>2. Before(c, e)
    BY <1>5 DEF Ahead
  <2>3. c.xid <= e.xid
    BY <1>2, <2>2 DEF Before
  <2>4. Sound(a)
    <3>1. \A x \in Xids : a.pending[x] # NotPending => x < a.xid
      BY <1>2, <2>1, <2>3 DEF Sound
    <3>2. ASSUME NEW x \in Xids \ Ended
          PROVE  /\ a.pending[x] \in {NotPending, 0}
                 /\ a.pending[x] = NotPending => x > a.xid \/ (x = a.xid /\ a.id = 0)
      BY <1>2, <1>3, <2>1, <2>3, <3>2 DEF Sound, NotPending
    <3> QED  BY <1>2, <1>3, <2>1, <3>1, <3>2 DEF Sound
  <2>5. NoFurther(c, a)
    <3> SUFFICES ASSUME NEW f \in Entry, Past(c, f) PROVE Past(a, f)
      BY DEF NoFurther
    <3>1. ~Before(a, f)
      BY <1>2, <2>1, <2>2 DEF Past, Ahead, Before
    <3>2. ~(a.pending[f.xid] # NotPending /\ f.id > a.pending[f.xid])
      <4>1. CASE a.pending[f.xid] = c.pending[f.xid]
        BY <1>2, <4>1 DEF Past, Ahead
      <4>2. CASE a.pending[f.xid] # c.pending[f.xid]
        <5>1. f.xid \notin Ended
          BY <1>2, <1>3, <2>1, <4>2
        <5> QED  BY <5>1, OpenIsAhead DEF Past
      <4> QED  BY <4>1, <4>2
    <3> QED  BY <3>1, <3>2 DEF Past, Ahead
  <2>6. Past(a, e)
    BY <1>2, <1>5, <2>1 DEF Past, Ahead, Before
  <2> QED  BY <2>4, <2>5, <2>6
<1> QED  BY <1>4, <1>5

\* What one acknowledged entry takes the cursor past: nothing after the entry.
LEMMA AdvancedOver ==
    ASSUME Table, NEW c, Sound(c), NEW view, view.running = Running,
           NEW e \in Entry, e.xid \in Ended, Ahead(c, e),
           NEW f \in Entry, f.xid \in Ended, Ahead(c, f), Past(advance(c, view, e), f)
    PROVE  /\ ~Before(e, f)
           /\ \/ c.pending[e.xid] # NotPending /\ f.xid = e.xid /\ f.id > c.pending[f.xid]
              \/ c.pending[e.xid] = NotPending /\ Before(c, f)
<1>1. c \in Cursor
  BY DEF Sound
<1>2. /\ c.xid \in Int /\ c.id \in Int
      /\ \A x \in Xids : c.pending[x] \in Int
      /\ e.xid \in Xids /\ \A x \in Xids : x \in Int /\ x > 0
      /\ e.id \in Int /\ f.id \in Int /\ f.xid \in Xids
  BY <1>1, EventsAssumption DEF Cursor, Entry, Xids, Ids, NotPending
<1>3. e.xid \notin Running /\ f.xid \notin Running
  BY <1>2, Transactions
<1>4. PICK a : a = advance(c, view, e)
  OBVIOUS
<1>5. CASE c.pending[e.xid] # NotPending
  <2>1. /\ a.xid = c.xid /\ a.id = c.id /\ a.pending[e.xid] = e.id
        /\ \A x \in Xids \ {e.xid} : a.pending[x] = c.pending[x]
    BY <1>1, <1>4, <1>5, AdvanceLate
  <2>2. e.xid < c.xid /\ e.id > c.pending[e.xid]
    BY <1>2, <1>5 DEF Sound, Ahead, Before
  <2>3. ~Before(a, f) /\ ~(a.pending[f.xid] # NotPending /\ f.id > a.pending[f.xid])
    BY <1>4 DEF Past, Ahead
  <2>4. ~Before(c, f)
    BY <2>1, <2>3 DEF Before
  <2>5. c.pending[f.xid] # NotPending /\ f.id > c.pending[f.xid]
    BY <2>4 DEF Ahead
  <2>6. f.xid = e.xid
    BY <1>2, <2>1, <2>3, <2>5
  <2>7. f.id <= e.id
    BY <1>2, <1>5, <2>1, <2>3, <2>6, EventsAssumption DEF NotPending, Entry, Ids
  <2> QED  BY <1>2, <1>5, <2>5, <2>6, <2>7 DEF Before
<1>6. CASE c.pending[e.xid] = NotPending
  <2>1. /\ a.xid = e.xid /\ a.id = e.id
        /\ \A x \in Xids : a.pending[x] =
              IF x \in Running /\ x < e.xid /\ c.pending[x] = NotPending THEN 0 ELSE c.pending[x]
    BY <1>1, <1>4, <1>6, AdvanceNext
  <2>2. ~Before(a, f) /\ ~(a.pending[f.xid] # NotPending /\ f.id > a.pending[f.xid])
    BY <1>4 DEF Past, Ahead
  <2>3. a.pending[f.xid] = c.pending[f.xid]
    BY <1>2, <1>3, <2>1
  <2>4. Before(c, f)
    BY <2>2, <2>3 DEF Ahead
  <2> QED  BY <1>6, <2>1, <2>2, <2>4 DEF Before
<1> QED  BY <1>5, <1>6

-----------------------------------------------------------------------------
(* A whole read acknowledged.                                              *)

Joined(c, view, x) ==
    IF view.pos # {} /\ x \in view.running /\ x < The(view.pos).xid /\ c.pending[x] = NotPending
    THEN 0 ELSE c.pending[x]

LEMMA AdvanceToFields ==
    ASSUME NEW c \in Cursor, NEW view, view.pos # {} => The(view.pos) \in Entry,
           view.late # {} => The(view.late) \in Entry
    PROVE  LET a == advanceTo(c, view)
               l == The(view.late)
           IN  /\ a \in Cursor
               /\ a.xid = IF view.pos = {} THEN c.xid ELSE The(view.pos).xid
               /\ a.id = IF view.pos = {} THEN c.id ELSE The(view.pos).id
               /\ \A x \in Xids : a.pending[x] =
                     IF Joined(c, view, x) = NotPending THEN NotPending
                     ELSE IF x \in view.running \/ (view.late # {} /\ x > l.xid)
                          THEN Joined(c, view, x)
                     ELSE IF view.late # {} /\ x = l.xid THEN l.id ELSE NotPending
<1>1. /\ c.pending \in [Xids -> {NotPending} \cup 0..MaxEntries]
      /\ c.xid \in 0..MaxXid + 1 /\ c.id \in 0..MaxEntries
      /\ \A e \in Entry : e.xid \in 0..MaxXid + 1 /\ e.id \in 0..MaxEntries
      /\ 0 \in 0..MaxEntries
  BY EventsAssumption DEF Cursor, Entry, Xids, Ids
<1>2. PICK pos : pos = The(view.pos)
  OBVIOUS
<1>3. PICK late : late = The(view.late)
  OBVIOUS
<1>4. PICK joined : joined = IF view.pos = {} THEN c.pending
                             ELSE addRunning(c.pending, view.running, pos.xid)
  OBVIOUS
<1>5. \A x \in Xids : joined[x] = Joined(c, view, x)
  BY <1>1, <1>2, <1>4 DEF addRunning, Joined, Zero
<1>6. PICK pending : pending =
        [x \in Xids |->
            IF joined[x] = NotPending THEN NotPending
            ELSE IF x \in view.running \/ (view.late # {} /\ x > late.xid) THEN joined[x]
            ELSE IF view.late # {} /\ x = late.xid THEN late.id ELSE NotPending]
  OBVIOUS
<1>7. advanceTo(c, view) = IF view.pos = {} THEN [xid |-> c.xid, id |-> c.id, pending |-> pending]
                           ELSE [xid |-> pos.xid, id |-> pos.id, pending |-> pending]
  BY <1>2, <1>3, <1>4, <1>6, Zenon DEF advanceTo
<1>8. \A x \in Xids : Joined(c, view, x) \in {NotPending} \cup 0..MaxEntries
  BY <1>1 DEF Joined
<1>9. pending \in [Xids -> {NotPending} \cup 0..MaxEntries]
  BY <1>1, <1>3, <1>5, <1>6, <1>8
<1>10. \A x \in Xids : pending[x] =
                     IF Joined(c, view, x) = NotPending THEN NotPending
                     ELSE IF x \in view.running \/ (view.late # {} /\ x > late.xid)
                          THEN Joined(c, view, x)
                     ELSE IF view.late # {} /\ x = late.xid THEN late.id ELSE NotPending
  BY <1>5, <1>6
<1>11. CASE view.pos = {}
  BY <1>1, <1>3, <1>7, <1>9, <1>10, <1>11 DEF Cursor
<1>12. CASE view.pos # {}
  BY <1>1, <1>2, <1>3, <1>7, <1>9, <1>10, <1>12 DEF Cursor
<1> QED  BY <1>11, <1>12

\* The last entries of a read are not before the cursor.
Reaches(c, view) ==
    /\ view.running = Running
    /\ view.pos # {} => /\ The(view.pos) \in Entry /\ The(view.pos).xid \in Ended
                        /\ \/ c.xid < The(view.pos).xid
                           \/ c.xid = The(view.pos).xid /\ c.id <= The(view.pos).id
    /\ view.late # {} => /\ The(view.late) \in Entry /\ The(view.late).xid \in Ended
                         /\ c.pending[The(view.late).xid] <= The(view.late).id

LEMMA AdvancedTo ==
    ASSUME Table, NEW c, Sound(c), NEW view, Reaches(c, view), NEW a, a = advanceTo(c, view)
    PROVE  Sound(a) /\ NoFurther(c, a)
<1>1. c \in Cursor
  BY DEF Sound
<1>2. /\ c.xid \in Int /\ c.id \in Int /\ c.xid <= Xmax /\ Xmax \in Int
      /\ \A x \in Xids : c.pending[x] \in Int
      /\ \A x \in Xids : x \in Int /\ x > 0
      /\ \A f \in Entry : f.xid \in Xids /\ f.id \in Int /\ f.id > 0
  BY <1>1, XmaxFacts, EventsAssumption DEF Cursor, Entry, Xids, Ids, NotPending, Sound
<1>3. /\ \A x \in Xids \ Ended : x < Xmax => x \in Running
      /\ \A x \in Ended : x \in Xids /\ x < Xmax /\ x \notin Running
      /\ \A x \in Running : x \in Xids /\ x \notin Ended
  BY Transactions DEF Running, Ended
<1>4. PICK p : p = The(view.pos)
  OBVIOUS
<1>5. PICK l : l = The(view.late)
  OBVIOUS
<1>6. /\ view.running = Running
      /\ view.pos # {} => /\ p \in Entry /\ p.xid \in Ended /\ p.id \in Int /\ p.xid \in Int /\ p.id > 0
                          /\ c.xid < p.xid \/ (c.xid = p.xid /\ c.id <= p.id)
      /\ view.late # {} => /\ l \in Entry /\ l.xid \in Ended /\ l.xid \in Int /\ l.id \in Int /\ l.id > 0
                           /\ c.pending[l.xid] <= l.id
  BY <1>2, <1>4, <1>5 DEF Reaches
<1>7. /\ a \in Cursor
      /\ a.xid = IF view.pos = {} THEN c.xid ELSE p.xid
      /\ a.id = IF view.pos = {} THEN c.id ELSE p.id
      /\ \A x \in Xids : a.pending[x] =
            IF Joined(c, view, x) = NotPending THEN NotPending
            ELSE IF x \in Running \/ (view.late # {} /\ x > l.xid) THEN Joined(c, view, x)
            ELSE IF view.late # {} /\ x = l.xid THEN l.id ELSE NotPending
  BY <1>1, <1>4, <1>5, <1>6, AdvanceToFields
<1>8. \A x \in Xids : Joined(c, view, x) =
          IF view.pos # {} /\ x \in Running /\ x < p.xid /\ c.pending[x] = NotPending
          THEN 0 ELSE c.pending[x]
  BY <1>4, <1>6 DEF Joined
<1>9. a.xid \in Int /\ a.id \in Int /\ \A x \in Xids : a.pending[x] \in Int
  BY <1>7, EventsAssumption DEF Cursor, NotPending
<1>10. c.xid <= a.xid /\ a.xid <= Xmax
  BY <1>2, <1>3, <1>6, <1>7
<1>11. Sound(a)
  <2>1. a.id # 0 => a.xid \in Xids
    BY <1>3, <1>6, <1>7 DEF Sound
  <2>2. ASSUME NEW x \in Xids, a.pending[x] # NotPending PROVE x < a.xid
    <3>1. CASE c.pending[x] # NotPending
      BY <1>2, <1>9, <1>10, <3>1 DEF Sound
    <3>2. CASE c.pending[x] = NotPending
      BY <1>7, <1>8, <2>2, <3>2
    <3> QED  BY <3>1, <3>2
  <2>3. ASSUME NEW x \in Xids \ Ended
        PROVE  /\ a.pending[x] \in {NotPending, 0}
               /\ a.pending[x] = NotPending => x > a.xid \/ (x = a.xid /\ a.id = 0)
    <3>1. c.pending[x] \in {NotPending, 0}
          /\ (c.pending[x] = NotPending => x > c.xid \/ (x = c.xid /\ c.id = 0))
      BY <2>3 DEF Sound
    <3>2. CASE x \in Running
      <4>1. a.pending[x] = Joined(c, view, x)
        BY <1>7, <3>2
      <4>2. CASE view.pos = {}
        BY <1>7, <1>8, <3>1, <4>1, <4>2
      <4>3. CASE view.pos # {}
        <5>1. x # p.xid /\ a.xid = p.xid /\ p.xid \in Int /\ x \in Int
          BY <1>2, <1>6, <1>7, <2>3, <4>3
        <5> QED  BY <1>8, <3>1, <3>2, <4>1, <4>3, <5>1 DEF NotPending
      <4> QED  BY <4>2, <4>3
    <3>3. CASE x \notin Running
      <4>1. x >= Xmax /\ x \in Int
        BY <1>2, <1>3, <2>3, <3>3
      <4>2. c.pending[x] = NotPending
        BY <1>2, <4>1 DEF Sound
      <4>3. a.pending[x] = NotPending
        BY <1>7, <1>8, <3>3, <4>2
      <4>4. CASE view.pos = {}
        BY <1>7, <3>1, <4>2, <4>3, <4>4
      <4>5. CASE view.pos # {}
        BY <1>2, <1>3, <1>6, <1>7, <4>1, <4>3, <4>5
      <4> QED  BY <4>3, <4>4, <4>5
    <3> QED  BY <3>2, <3>3
  <2> QED  BY <1>7, <1>10, <2>1, <2>2, <2>3 DEF Sound
<1>12. NoFurther(c, a)
  <2> SUFFICES ASSUME NEW f \in Entry, Past(c, f) PROVE Past(a, f)
    BY DEF NoFurther
  <2>1. f.xid \in Ended
    BY OpenIsAhead DEF Past
  <2>2. f.xid \notin Running /\ f.xid \in Xids /\ f.xid \in Int /\ f.id \in Int
    BY <1>2, <1>3, <2>1
  <2>3. ~Before(c, f) /\ (c.pending[f.xid] # NotPending => f.id <= c.pending[f.xid])
    BY <1>2, <2>2 DEF Past, Ahead
  <2>4. ~Before(a, f)
    BY <1>2, <1>6, <1>7, <2>2, <2>3 DEF Before
  <2>5. Joined(c, view, f.xid) = c.pending[f.xid]
    BY <1>8, <2>2
  <2>6. a.pending[f.xid] # NotPending => f.id <= a.pending[f.xid]
    BY <1>2, <1>6, <1>7, <2>2, <2>3, <2>5
  <2> QED  BY <1>9, <2>2, <2>4, <2>6 DEF Past, Ahead
<1> QED  BY <1>11, <1>12

\* What a read acknowledged as a whole takes the cursor past.
LEMMA AdvancedToOver ==
    ASSUME Table, NEW c, Sound(c), NEW view, Reaches(c, view),
           NEW f \in Entry, f.xid \in Ended, Ahead(c, f), Past(advanceTo(c, view), f)
    PROVE  \/ Before(c, f) /\ view.pos # {} /\ ~Before(The(view.pos), f)
           \/ /\ c.pending[f.xid] # NotPending /\ f.id > c.pending[f.xid]
              /\ view.late # {} => ~Before(The(view.late), f)
<1>1. c \in Cursor
  BY DEF Sound
<1>2. /\ c.xid \in Int /\ c.id \in Int /\ \A x \in Xids : c.pending[x] \in Int
      /\ f.xid \in Xids /\ f.xid \in Int /\ f.id \in Int
      /\ \A e \in Entry : e.xid \in Int /\ e.id \in Int
  BY <1>1, EventsAssumption DEF Cursor, Entry, Xids, Ids, NotPending
<1>3. f.xid \notin Running
  BY <1>2, Transactions
<1>4. PICK a : a = advanceTo(c, view)
  OBVIOUS
<1>5. PICK p : p = The(view.pos)
  OBVIOUS
<1>6. PICK l : l = The(view.late)
  OBVIOUS
<1>7. view.pos # {} => p \in Entry
  BY <1>5 DEF Reaches
<1>8. view.late # {} => l \in Entry /\ l.xid \in Int /\ l.id \in Int
  BY <1>2, <1>6 DEF Reaches
<1>9. /\ a.xid = IF view.pos = {} THEN c.xid ELSE p.xid
      /\ a.id = IF view.pos = {} THEN c.id ELSE p.id
      /\ a.pending[f.xid] =
            IF Joined(c, view, f.xid) = NotPending THEN NotPending
            ELSE IF f.xid \in view.running \/ (view.late # {} /\ f.xid > l.xid)
                 THEN Joined(c, view, f.xid)
            ELSE IF view.late # {} /\ f.xid = l.xid THEN l.id ELSE NotPending
  BY <1>1, <1>2, <1>4, <1>5, <1>6, <1>7, <1>8, AdvanceToFields
<1>10. f.xid \notin view.running /\ Joined(c, view, f.xid) = c.pending[f.xid]
  BY <1>3 DEF Joined, Reaches
<1>11. ~Before(a, f) /\ ~(a.pending[f.xid] # NotPending /\ f.id > a.pending[f.xid])
  BY <1>4 DEF Past, Ahead
<1>12. CASE Before(c, f)
  BY <1>5, <1>9, <1>11, <1>12 DEF Before
<1>13. CASE ~Before(c, f)
  <2>1. c.pending[f.xid] # NotPending /\ f.id > c.pending[f.xid]
    BY <1>13 DEF Ahead
  <2>2. view.late # {} => f.xid < l.xid \/ (f.xid = l.xid /\ f.id <= l.id)
    <3> SUFFICES ASSUME view.late # {} PROVE f.xid < l.xid \/ (f.xid = l.xid /\ f.id <= l.id)
      OBVIOUS
    <3>1. ~(f.xid > l.xid)
      BY <1>9, <1>10, <1>11, <2>1
    <3>2. CASE f.xid = l.xid
      <4>1. a.pending[f.xid] = l.id
        BY <1>2, <1>8, <1>9, <1>10, <2>1, <3>2
      <4>2. l.id # NotPending
        BY <1>8, EventsAssumption DEF Entry, Ids, NotPending
      <4> QED  BY <1>2, <1>8, <1>11, <3>2, <4>1, <4>2
    <3> QED  BY <1>2, <1>8, <3>1, <3>2
  <2>3. view.late # {} => ~Before(l, f)
    BY <1>2, <1>8, <2>2 DEF Before
  <2> QED  BY <1>6, <2>1, <2>3
<1> QED  BY <1>12, <1>13

-----------------------------------------------------------------------------
(* The order of the entries, and the first and the last ones of a set.     *)

LEMMA BeforeOrder ==
    ASSUME NEW e \in Entry, NEW f \in Entry, NEW g \in Entry
    PROVE  /\ ~Before(e, e)
           /\ Before(e, f) /\ Before(f, g) => Before(e, g)
           /\ Before(e, f) => ~Before(f, e)
           /\ ~Before(e, f) /\ Before(e, g) => Before(f, g)
           /\ ~Before(e, f) /\ ~Before(f, e) => e.xid = f.xid /\ e.id = f.id
<1>1. /\ e.xid \in Int /\ f.xid \in Int /\ g.xid \in Int
      /\ e.id \in Int /\ f.id \in Int /\ g.id \in Int
  BY EventsAssumption DEF Entry, Xids, Ids
<1> QED  BY <1>1 DEF Before

LEMMA LastExists ==
    ASSUME NEW S, S \subseteq Entry, S # {}
    PROVE  \E e \in S : \A f \in S : ~Before(e, f)
<1>1. /\ MaxXid \in Nat /\ MaxEntries \in Nat
      /\ \A e \in S : e.xid \in 0..MaxXid /\ e.id \in 0..MaxEntries
  BY EventsAssumption DEF Entry, Xids, Ids
<1>2. PICK x \in {e.xid : e \in S} : \A y \in {e.xid : e \in S} : x >= y
  <2>1. {e.xid : e \in S} \subseteq 0..MaxXid /\ {e.xid : e \in S} # {}
    BY <1>1
  <2> QED  BY <1>1, <2>1, GreatestNat
<1> DEFINE T == {e \in S : e.xid = x}
<1>3. PICK i \in {e.id : e \in T} : \A j \in {e.id : e \in T} : i >= j
  <2>1. {e.id : e \in T} \subseteq 0..MaxEntries /\ {e.id : e \in T} # {}
    BY <1>1, <1>2
  <2> QED  BY <1>1, <2>1, GreatestNat
<1>4. PICK e \in S : e.xid = x /\ e.id = i
  BY <1>3
<1>5. ASSUME NEW f \in S PROVE ~Before(e, f)
  <2>1. f.xid <= e.xid
    BY <1>1, <1>2, <1>4
  <2>2. f.xid = e.xid => f.id <= e.id
    BY <1>1, <1>3, <1>4
  <2> QED  BY <1>1, <2>1, <2>2 DEF Before
<1> QED  BY <1>5

LEMMA FirstExists ==
    ASSUME NEW S, S \subseteq Entry, S # {}
    PROVE  \E e \in S : \A f \in S : ~Before(f, e)
<1>1. /\ MaxXid \in Nat /\ MaxEntries \in Nat
      /\ \A e \in S : e.xid \in Nat /\ e.id \in Nat
  BY EventsAssumption DEF Entry, Xids, Ids
<1>2. PICK x \in {e.xid : e \in S} : \A y \in {e.xid : e \in S} : x <= y
  <2>1. {e.xid : e \in S} \subseteq Nat /\ {e.xid : e \in S} # {}
    BY <1>1
  <2> QED  BY <2>1, LeastNat
<1> DEFINE T == {e \in S : e.xid = x}
<1>3. PICK i \in {e.id : e \in T} : \A j \in {e.id : e \in T} : i <= j
  <2>1. {e.id : e \in T} \subseteq Nat /\ {e.id : e \in T} # {}
    BY <1>1, <1>2
  <2> QED  BY <2>1, LeastNat
<1>4. PICK e \in S : e.xid = x /\ e.id = i
  BY <1>3
<1>5. ASSUME NEW f \in S PROVE ~Before(f, e)
  <2>1. e.xid <= f.xid
    BY <1>1, <1>2, <1>4
  <2>2. f.xid = e.xid => e.id <= f.id
    BY <1>1, <1>3, <1>4
  <2> QED  BY <1>1, <2>1, <2>2 DEF Before
<1> QED  BY <1>5


\* Entries are told apart by their ids.
Distinct(S) == /\ S \subseteq Entry /\ IsFiniteSet(S)
               /\ \A e, f \in S : e.id = f.id => e = f

LEMMA FirstOfClosed ==
    ASSUME NEW S, Distinct(S), NEW n \in Nat, NEW e \in FirstOf(S, n), NEW f \in S, Before(f, e)
    PROVE  f \in FirstOf(S, n)
<1> DEFINE A == {g \in S : Before(g, f)}
           B == {g \in S : Before(g, e)}
<1>1. A \subseteq B
  <2>1. e \in S
    BY DEF FirstOf
  <2> QED  BY <2>1, BeforeOrder DEF Distinct
<1>2. IsFiniteSet(A) /\ IsFiniteSet(B)
  BY FS_Subset DEF Distinct
<1>3. Cardinality(A) <= Cardinality(B) /\ Cardinality(A) \in Nat /\ Cardinality(B) \in Nat
  BY <1>1, <1>2, FS_Subset, FS_CardinalityType
<1>4. Cardinality(B) < n
  BY DEF FirstOf
<1> HIDE DEF B
<1>5. Cardinality(A) < n
  BY <1>3, <1>4
<1> QED  BY <1>5 DEF FirstOf

\* A set that has less than n first entries has no others.
LEMMA FirstOfAll ==
    ASSUME NEW S, Distinct(S), NEW n \in Nat, Cardinality(FirstOf(S, n)) < n
    PROVE  FirstOf(S, n) = S
<1> DEFINE F == FirstOf(S, n)
<1>1. F \subseteq S /\ IsFiniteSet(F)
  BY FS_Subset DEF FirstOf, Distinct
<1>2. SUFFICES ASSUME S \ F # {} PROVE FALSE
  BY <1>1
<1>3. PICK m \in S \ F : \A f \in S \ F : ~Before(f, m)
  BY <1>2, FirstExists DEF Distinct
<1> DEFINE B == {g \in S : Before(g, m)}
<1>4. B \subseteq F
  BY <1>3
<1>5. Cardinality(B) <= Cardinality(F) /\ Cardinality(B) \in Nat /\ Cardinality(F) \in Nat
  <2>1. IsFiniteSet(B)
    BY <1>1, <1>4, FS_Subset
  <2> QED  BY <1>1, <1>4, <2>1, FS_Subset, FS_CardinalityType
<1> HIDE DEF F
<1>6. Cardinality(B) < n
  BY <1>5 DEF F
<1>7. m \in F
  BY <1>3, <1>6 DEF F, FirstOf
<1> QED  BY <1>3, <1>7

LEMMA FirstOfBound ==
    ASSUME NEW S, Distinct(S), NEW n \in Nat
    PROVE  Cardinality(FirstOf(S, n)) \in 0..n
<1> DEFINE F == FirstOf(S, n)
<1>1. F \subseteq S /\ IsFiniteSet(F) /\ F \subseteq Entry
  BY FS_Subset DEF FirstOf, Distinct
<1>2. CASE F = {}
  BY <1>2, FS_EmptySet
<1>3. CASE F # {}
  <2>1. PICK m \in F : \A f \in F : ~Before(m, f)
    BY <1>1, <1>3, LastExists
  <2> DEFINE B == {g \in S : Before(g, m)}
  <2>2. F \ {m} \subseteq B
    BY <1>1, <2>1, BeforeOrder DEF Distinct
  <2>3. IsFiniteSet(B)
    BY FS_Subset DEF Distinct
  <2>4. Cardinality(B) < n
    BY DEF FirstOf
  <2> HIDE DEF F, B
  <2>5. Cardinality(F \ {m}) <= Cardinality(B) /\ Cardinality(B) \in Nat
    BY <2>2, <2>3, FS_Subset, FS_CardinalityType
  <2>6. Cardinality(F \ {m}) = Cardinality(F) - 1 /\ Cardinality(F) \in Nat
    BY <1>1, <2>1, FS_RemoveElement, FS_CardinalityType
  <2>7. Cardinality(F) \in 0..n
    BY <2>4, <2>5, <2>6
  <2> QED  BY <2>7 DEF F
<1> QED  BY <1>2, <1>3

LEMMA LastOfIsLast ==
    ASSUME NEW S, S \subseteq Entry
    PROVE  /\ LastOf(S) = {} => S = {}
           /\ LastOf(S) # {} => The(LastOf(S)) \in S /\ \A f \in S : ~Before(The(LastOf(S)), f)
<1>1. LastOf(S) = {} => S = {}
  BY LastExists DEF LastOf
<1>2. LastOf(S) # {} => The(LastOf(S)) \in LastOf(S)
  BY DEF The
<1> QED  BY <1>1, <1>2 DEF LastOf

-----------------------------------------------------------------------------
(* One read: late entries L and next entries X, of which rows are wanted.  *)

LateFor(c) == {e \in Visible : c.pending[e.xid] # NotPending /\ e.id > c.pending[e.xid]}
NextFor(c) == {e \in Visible : Before(c, e)}

ReadView(c, L, X, view) ==
    /\ L \subseteq LateFor(c) /\ X \subseteq NextFor(c)
    /\ \A e \in L, f \in LateFor(c) : Before(f, e) => f \in L
    /\ \A e \in X, f \in NextFor(c) : Before(f, e) => f \in X
    /\ view.running = Running
    /\ view.pos = {} => X = {}
    /\ view.pos # {} => The(view.pos) \in X /\ \A f \in X : ~Before(The(view.pos), f)
    /\ view.late = {} => L = LateFor(c)
    /\ view.late # {} => The(view.late) \in L /\ \A f \in L : ~Before(The(view.late), f)

RowsOf(T, rows) ==
    /\ rows \in Seq(T) /\ \A k \in 1..Len(rows) : rows[k].wanted
    /\ \A e \in T : e.wanted => \E k \in 1..Len(rows) : rows[k] = e
    /\ \A i, j \in 1..Len(rows) : i < j => Before(rows[i], rows[j])

LEMMA VisibleDistinct == Table => Distinct(Visible)
  BY FS_Subset DEF Table, Visible, Distinct

LEMMA ReadGivesView ==
    ASSUME Table, NEW c, NEW n \in Nat \ {0}
    PROVE  LET L == Late(c, n)
           IN  ReadView(c, L, NextOnes(c, n - Cardinality(L)), ReadOf(c, n).view)
<1> DEFINE L == Late(c, n)
           m == n - Cardinality(L)
           X == NextOnes(c, m)
           view == ReadOf(c, n).view
<1>1. Distinct(LateFor(c)) /\ Distinct(NextFor(c))
  BY VisibleDistinct, FS_Subset DEF Distinct, LateFor, NextFor
<1>2. L = FirstOf(LateFor(c), n) /\ X = FirstOf(NextFor(c), m)
  BY DEF Late, NextOnes, LateFor, NextFor
<1>3. L \subseteq LateFor(c) /\ X \subseteq NextFor(c)
  BY <1>2 DEF FirstOf
<1>4. Cardinality(L) \in 0..n /\ m \in Nat
  BY <1>1, <1>2, FirstOfBound
<1>5. /\ view.running = Running /\ view.pos = LastOf(X)
      /\ view.late = IF Cardinality(L) = n THEN LastOf(L) ELSE {}
  BY DEF ReadOf
<1> HIDE DEF L, X, m, view
<1>6. \A e \in L, f \in LateFor(c) : Before(f, e) => f \in L
  BY <1>1, <1>2, FirstOfClosed
<1>7. \A e \in X, f \in NextFor(c) : Before(f, e) => f \in X
  BY <1>1, <1>2, <1>4, FirstOfClosed
<1>8. L \subseteq Entry /\ X \subseteq Entry
  BY <1>1, <1>3 DEF Distinct
<1>9. /\ view.pos = {} => X = {}
      /\ view.pos # {} => The(view.pos) \in X /\ \A f \in X : ~Before(The(view.pos), f)
  BY <1>5, <1>8, LastOfIsLast
<1>10. view.late # {} => The(view.late) \in L /\ \A f \in L : ~Before(The(view.late), f)
  BY <1>5, <1>8, LastOfIsLast
<1>11. view.late = {} => L = LateFor(c)
  <2> SUFFICES ASSUME view.late = {} PROVE L = LateFor(c)
    OBVIOUS
  <2>1. CASE Cardinality(L) = n
    <3>1. L = {}
      BY <1>5, <1>8, <2>1, LastOfIsLast
    <3> QED  BY <2>1, <3>1, FS_EmptySet
  <2>2. CASE Cardinality(L) # n
    BY <1>1, <1>2, <1>4, <2>2, FirstOfAll
  <2> QED  BY <2>1, <2>2
<1>12. ReadView(c, L, X, view)
  BY <1>3, <1>5, <1>6, <1>7, <1>9, <1>10, <1>11 DEF ReadView
<1> QED  BY <1>12 DEF L, X, m, view

LEMMA RowsInOrder ==
    ASSUME NEW T, IsFiniteSet(T), NEW rows \in InXidOrder({e \in T : e.wanted})
    PROVE  RowsOf(T, rows)
<1> DEFINE S == {e \in T : e.wanted}
           n == Cardinality(S)
<1>1. /\ rows \in [1..n -> S]
      /\ \A e \in S : \E i \in DOMAIN rows : rows[i] = e
      /\ \A i, j \in DOMAIN rows : i < j => Before(rows[i], rows[j])
  BY DEF InXidOrder
<1>2. n \in Nat
  BY FS_Subset, FS_CardinalityType
<1> HIDE DEF n
<1>3. rows \in Seq(S) /\ rows \in Seq(T)
  <2>1. rows \in Seq(S)
    BY <1>1, <1>2, SeqDef
  <2> QED  BY <2>1, SeqMonotonic
<1>4. DOMAIN rows = 1..Len(rows) /\ rows \in [1..Len(rows) -> S]
  BY <1>3, LenProperties
<1> QED  BY <1>1, <1>3, <1>4 DEF RowsOf

LEMMA NoRows ==
    ASSUME NEW T, {e \in T : e.wanted} = {}
    PROVE  RowsOf(T, <<>>)
<1>1. <<>> \in Seq(T) /\ Len(<<>>) = 0
  BY EmptySeq
<1> QED  BY <1>1 DEF RowsOf

-----------------------------------------------------------------------------
(* The rows acknowledged one after the other.                              *)

\* The entry need not be handled.
Excused(f) == ~f.wanted \/ f.id \in deleted \/ tx[f.xid] = "aborted"

\* b is the cursor after i of the rows, read from the cursor c.
Served(c, rows, i, b) ==
    /\ Sound(b) /\ NoFurther(c, b)
    /\ \A k \in 1..Len(rows) : k <= i <=> Past(b, rows[k])
    /\ \A f \in entries : Past(b, f) => Past(c, f) \/ Excused(f) \/ \E k \in 1..i : f = rows[k]

\* Where its position and what is pending come from.
Traced(c, L, X, rows, i, b) ==
    /\ \/ b.xid = c.xid /\ b.id = c.id
       \/ \E k \in 1..i : rows[k] \in X /\ b.xid = rows[k].xid /\ b.id = rows[k].id
    /\ \A x \in Xids \ Running : c.pending[x] = NotPending => b.pending[x] = NotPending
    /\ \A x \in Xids \ Running : c.pending[x] # NotPending =>
          /\ b.pending[x] # NotPending
          /\ \/ b.pending[x] = c.pending[x]
             \/ \E k \in 1..i : rows[k] \in L /\ rows[k].xid = x /\ b.pending[x] = rows[k].id

\* What a read from the cursor c found.
Found(c, L, X, view, rows) ==
    Table /\ Sound(c) /\ ReadView(c, L, X, view) /\ RowsOf(L \cup X, rows)

LEMMA FoundFacts ==
    ASSUME NEW c, NEW L, NEW X, NEW view, NEW rows, Found(c, L, X, view, rows)
    PROVE  /\ c.xid \in Int /\ c.id \in Int /\ \A x \in Xids : c.pending[x] \in Int
           /\ Len(rows) \in Nat
           /\ \A f \in L \cup X : f \in Visible /\ f \in Entry /\ f.xid \in Ended
           /\ \A f \in L : c.pending[f.xid] # NotPending /\ f.id > c.pending[f.xid]
           /\ \A f \in X : Before(c, f) /\ c.pending[f.xid] = NotPending
           /\ \A k \in 1..Len(rows) : rows[k] \in L \cup X
           /\ \A f \in Visible : f \in entries /\ f \in Entry /\ f.xid \in Ended
                                 /\ f.xid \in Xids /\ f.xid \in Int /\ f.id \in Int
                                 /\ f.xid \notin Running
<1>1. /\ c.xid \in Int /\ c.id \in Int /\ \A x \in Xids : c.pending[x] \in Int
  BY EventsAssumption DEF Found, Sound, Cursor, NotPending
<1>2. Len(rows) \in Nat /\ \A k \in 1..Len(rows) : rows[k] \in L \cup X
  BY LenProperties, ElementOfSeq DEF Found, RowsOf
<1>3. \A f \in Visible : f \in entries /\ f \in Entry /\ f.xid \in Ended /\ f.xid \in Xids
                         /\ f.xid \in Int /\ f.id \in Int /\ f.xid \notin Running
  BY Transactions, EventsAssumption DEF Found, Table, Visible, Entry, Ended, Xids, Ids
<1>4. L \subseteq LateFor(c) /\ X \subseteq NextFor(c)
  BY DEF Found, ReadView
<1>5. \A f \in L : f \in Visible /\ c.pending[f.xid] # NotPending /\ f.id > c.pending[f.xid]
  BY <1>4 DEF LateFor
<1>6. \A f \in X : f \in Visible /\ Before(c, f)
  BY <1>4 DEF NextFor
<1>7. \A f \in X : c.pending[f.xid] = NotPending
  BY <1>1, <1>3, <1>6 DEF Found, Sound, Before
<1> QED  BY <1>1, <1>2, <1>3, <1>5, <1>6, <1>7

LEMMA ServedFirst ==
    ASSUME NEW c, NEW L, NEW X, NEW view, NEW rows, Found(c, L, X, view, rows)
    PROVE  Served(c, rows, 0, c) /\ Traced(c, L, X, rows, 0, c)
<1>1. ASSUME NEW k \in 1..Len(rows) PROVE Ahead(c, rows[k])
  BY <1>1, FoundFacts DEF Ahead
<1>2. \A k \in 1..Len(rows) : k <= 0 <=> Past(c, rows[k])
  BY <1>1, FoundFacts DEF Past
<1>3. Served(c, rows, 0, c)
  BY <1>2, NoFurtherSame DEF Served, Found
<1>4. Traced(c, L, X, rows, 0, c)
  BY DEF Traced
<1> QED  BY <1>3, <1>4

LEMMA ServedNext ==
    ASSUME NEW c, NEW L, NEW X, NEW view, NEW rows, Found(c, L, X, view, rows),
           NEW i \in 0..Len(rows) - 1, NEW b, Served(c, rows, i, b), Traced(c, L, X, rows, i, b),
           NEW a, a = advance(b, view, rows[i + 1])
    PROVE  /\ Served(c, rows, i + 1, a) /\ Traced(c, L, X, rows, i + 1, a)
           /\ NoFurther(b, a)
<1>1. PICK e : e = rows[i + 1]
  OBVIOUS
<1>2. Len(rows) \in Nat /\ i \in Nat /\ i + 1 \in 1..Len(rows) /\ ~(i + 1 <= i)
  BY FoundFacts
<1>3. e \in L \cup X /\ e \in Visible /\ e \in Entry /\ e.xid \in Ended /\ e.xid \in Xids
      /\ e.xid \notin Running
  BY <1>1, <1>2, FoundFacts
<1>4. Sound(b) /\ b \in Cursor /\ Ahead(b, e) /\ view.running = Running /\ Table
  BY <1>1, <1>2 DEF Served, Past, Found, ReadView, Sound
<1>5. a = advance(b, view, e)
  BY <1>1
<1>6. Sound(a) /\ NoFurther(b, a) /\ Past(a, e)
  BY <1>3, <1>4, <1>5, Advanced
<1>7. /\ \A x \in Xids : b.pending[x] \in Int /\ c.pending[x] \in Int
      /\ b.xid \in Int /\ b.id \in Int /\ c.xid \in Int /\ c.id \in Int
  BY <1>4, FoundFacts, EventsAssumption DEF Cursor, NotPending
<1>8. b.pending[e.xid] = NotPending => e \in X /\ c.pending[e.xid] = NotPending
  BY <1>3, FoundFacts DEF Traced
<1>9. b.pending[e.xid] # NotPending => e \in L /\ c.pending[e.xid] # NotPending
  BY <1>3, FoundFacts DEF Traced
<1>10. Traced(c, L, X, rows, i + 1, a)
  <2>1. CASE b.pending[e.xid] # NotPending
    <3>1. /\ a.xid = b.xid /\ a.id = b.id /\ a.pending[e.xid] = e.id
          /\ \A x \in Xids \ {e.xid} : a.pending[x] = b.pending[x]
      BY <1>3, <1>4, <1>5, <2>1, AdvanceLate
    <3>2. e.id # NotPending
      BY <1>3, EventsAssumption DEF Entry, Ids, NotPending
    <3>3. \/ a.xid = c.xid /\ a.id = c.id
          \/ \E k \in 1..i + 1 : rows[k] \in X /\ a.xid = rows[k].xid /\ a.id = rows[k].id
      BY <1>2, <3>1 DEF Traced
    <3>4. \A x \in Xids \ Running : c.pending[x] = NotPending => a.pending[x] = NotPending
      BY <1>9, <2>1, <3>1 DEF Traced
    <3>5. ASSUME NEW x \in Xids \ Running, c.pending[x] # NotPending
          PROVE  /\ a.pending[x] # NotPending
                 /\ \/ a.pending[x] = c.pending[x]
                    \/ \E k \in 1..i + 1 : rows[k] \in L /\ rows[k].xid = x /\ a.pending[x] = rows[k].id
      <4>1. CASE x = e.xid
        BY <1>1, <1>2, <1>9, <2>1, <3>1, <3>2, <4>1
      <4>2. CASE x # e.xid
        <5>1. a.pending[x] = b.pending[x]
          BY <3>1, <4>2
        <5>2. 1..i \subseteq 1..i + 1
          BY <1>2
        <5> QED  BY <3>5, <5>1, <5>2 DEF Traced
      <4> QED  BY <4>1, <4>2
    <3> QED  BY <3>3, <3>4, <3>5 DEF Traced
  <2>2. CASE b.pending[e.xid] = NotPending
    <3>1. /\ a.xid = e.xid /\ a.id = e.id
          /\ \A x \in Xids : a.pending[x] =
                IF x \in Running /\ x < e.xid /\ b.pending[x] = NotPending THEN 0 ELSE b.pending[x]
      BY <1>3, <1>4, <1>5, <2>2, AdvanceNext
    <3>2. \A x \in Xids \ Running : a.pending[x] = b.pending[x]
      BY <3>1
    <3>3. \E k \in 1..i + 1 : rows[k] \in X /\ a.xid = rows[k].xid /\ a.id = rows[k].id
      BY <1>1, <1>2, <1>8, <2>2, <3>1
    <3>4. 1..i \subseteq 1..i + 1
      BY <1>2
    <3>5. \A x \in Xids \ Running : c.pending[x] = NotPending => a.pending[x] = NotPending
      BY <3>2 DEF Traced
    <3>6. ASSUME NEW x \in Xids \ Running, c.pending[x] # NotPending
          PROVE  /\ a.pending[x] # NotPending
                 /\ \/ a.pending[x] = c.pending[x]
                    \/ \E k \in 1..i + 1 : rows[k] \in L /\ rows[k].xid = x /\ a.pending[x] = rows[k].id
      BY <3>2, <3>4, <3>6 DEF Traced
    <3> QED  BY <3>3, <3>5, <3>6 DEF Traced
  <2> QED  BY <2>1, <2>2
<1>11. ASSUME NEW k \in 1..Len(rows) PROVE k <= i + 1 <=> Past(a, rows[k])
  <2>1. rows[k] \in Entry /\ rows[k].xid \in Ended
    BY <1>11, FoundFacts
  <2>2. CASE k <= i
    <3>1. Past(b, rows[k])
      BY <2>2 DEF Served
    <3> QED  BY <1>2, <1>6, <2>1, <2>2, <3>1 DEF NoFurther
  <2>3. CASE k = i + 1
    BY <1>1, <1>2, <1>6, <2>3
  <2>4. CASE k > i + 1
    <3>1. Before(e, rows[k])
      BY <1>1, <1>2, <2>4 DEF Found, RowsOf
    <3>2. Ahead(b, rows[k])
      BY <1>2, <2>4 DEF Served, Past
    <3>3. Ahead(a, rows[k])
      BY <1>3, <1>4, <1>5, <2>1, <3>1, <3>2, AdvancedOver DEF Past
    <3> QED  BY <1>2, <2>4, <3>3 DEF Past
  <2> QED  BY <1>2, <2>2, <2>3, <2>4
<1>12. ASSUME NEW f \in entries, Past(a, f), ~Past(c, f), ~Excused(f)
       PROVE  \E k \in 1..i + 1 : f = rows[k]
  <2>1. CASE Past(b, f)
    <3>1. PICK k \in 1..i : f = rows[k]
      BY <1>12, <2>1 DEF Served
    <3> QED  BY <1>2, <3>1
  <2>2. CASE Ahead(b, f)
    <3>1. f \in Entry
      BY DEF Found, Table
    <3>2. f.xid \in Ended
      BY <1>6, <1>12, <3>1, OpenIsAhead DEF Past
    <3>3. f \in Visible /\ f.wanted
      BY <1>12, <3>2 DEF Excused, Visible, Ended
    <3>4. /\ ~Before(e, f)
          /\ \/ b.pending[e.xid] # NotPending /\ f.xid = e.xid /\ f.id > b.pending[f.xid]
             \/ b.pending[e.xid] = NotPending /\ Before(b, f)
      BY <1>3, <1>4, <1>5, <1>12, <2>2, <3>1, <3>2, AdvancedOver
    <3>5. f = e \/ Before(f, e)
      <4>1. ~Before(f, e) => f.id = e.id
        BY <1>3, <3>1, <3>4, BeforeOrder
      <4> QED  BY <1>3, <4>1, FoundFacts DEF Found, Table
    <3>6. f \in L \cup X
      <4>1. CASE b.pending[e.xid] # NotPending
        <5>1. e \in L /\ c.pending[f.xid] # NotPending /\ f.xid = e.xid
          BY <1>9, <3>4, <4>1
        <5>2. f.xid < c.xid
          BY <1>3, <5>1 DEF Found, Sound
        <5>6. f.xid \in Xids /\ f.xid \in Int /\ f.id \in Int
          BY <3>3, FoundFacts
        <5>7. ~Before(c, f)
          BY <1>7, <5>2, <5>6 DEF Before
        <5>3. f.id > c.pending[f.xid]
          <6>1. Ahead(c, f)
            BY <1>12 DEF Past
          <6> QED  BY <5>7, <6>1 DEF Ahead
        <5>4. f \in LateFor(c)
          BY <3>3, <5>1, <5>3 DEF LateFor
        <5> QED  BY <3>5, <5>1, <5>4 DEF Found, ReadView
      <4>2. CASE b.pending[e.xid] = NotPending
        <5>1. e \in X /\ Before(b, f)
          BY <1>8, <3>4, <4>2
        <5>2. Before(c, f)
          <6>1. CASE b.xid = c.xid /\ b.id = c.id
            BY <5>1, <6>1 DEF Before
          <6>2. CASE ~(b.xid = c.xid /\ b.id = c.id)
            <7>1. PICK k \in 1..i : rows[k] \in X /\ b.xid = rows[k].xid /\ b.id = rows[k].id
              BY <6>2 DEF Traced
            <7>2. Before(c, rows[k])
              BY <7>1, FoundFacts
            <7>3. Before(c, b)
              BY <7>1, <7>2 DEF Before
            <7>4. f.xid \in Int /\ f.id \in Int
              BY <3>3, FoundFacts
            <7> QED  BY <1>7, <5>1, <7>3, <7>4 DEF Before
          <6> QED  BY <6>1, <6>2
        <5>3. f \in NextFor(c)
          BY <3>3, <5>2 DEF NextFor
        <5> QED  BY <3>5, <5>1, <5>3 DEF Found, ReadView
      <4> QED  BY <4>1, <4>2
    <3>7. PICK k \in 1..Len(rows) : rows[k] = f
      BY <3>3, <3>6 DEF Found, RowsOf
    <3>8. ~(k > i + 1)
      BY <1>1, <1>2, <3>4, <3>7 DEF Found, RowsOf
    <3> QED  BY <1>2, <3>7, <3>8
  <2> QED  BY <2>1, <2>2 DEF Past
<1>13. Served(c, rows, i + 1, a)
  <2>1. NoFurther(c, a)
    BY <1>6, NoFurtherTwice DEF Served
  <2> QED  BY <1>6, <1>11, <1>12, <2>1 DEF Served
<1> QED  BY <1>6, <1>10, <1>13

\* The last cursor of a read, from the cursor b after all its rows.
LEMMA ServedAll ==
    ASSUME NEW c, NEW L, NEW X, NEW view, NEW rows, Found(c, L, X, view, rows),
           NEW b, Served(c, rows, Len(rows), b), Traced(c, L, X, rows, Len(rows), b),
           NEW a, a = advanceTo(b, view)
    PROVE  Served(c, rows, Len(rows), a) /\ NoFurther(b, a)
<1>1. PICK p : p = The(view.pos)
  OBVIOUS
<1>2. PICK l : l = The(view.late)
  OBVIOUS
<1>3. /\ view.running = Running
      /\ view.pos = {} => X = {}
      /\ view.pos # {} => p \in X /\ \A f \in X : ~Before(p, f)
      /\ view.late = {} => L = LateFor(c)
      /\ view.late # {} => l \in L /\ \A f \in L : ~Before(l, f)
  BY <1>1, <1>2 DEF Found, ReadView
<1>4. Sound(b) /\ b \in Cursor /\ Table
  BY DEF Served, Sound, Found
<1>5. /\ \A x \in Xids : b.pending[x] \in Int /\ c.pending[x] \in Int
      /\ b.xid \in Int /\ b.id \in Int /\ c.xid \in Int /\ c.id \in Int
  BY <1>4, FoundFacts, EventsAssumption DEF Cursor, NotPending
<1>6. ASSUME view.pos # {}
      PROVE  /\ p \in Entry /\ p.xid \in Ended
             /\ b.xid < p.xid \/ (b.xid = p.xid /\ b.id <= p.id)
  <2>1. p \in X /\ p \in Entry /\ p.xid \in Ended /\ p.xid \in Int /\ p.id \in Int /\ Before(c, p)
    BY <1>3, <1>6, FoundFacts
  <2>2. CASE b.xid = c.xid /\ b.id = c.id
    BY <1>5, <2>1, <2>2 DEF Before
  <2>3. CASE ~(b.xid = c.xid /\ b.id = c.id)
    <3>1. PICK k \in 1..Len(rows) : rows[k] \in X /\ b.xid = rows[k].xid /\ b.id = rows[k].id
      BY <2>3 DEF Traced
    <3>2. ~Before(p, rows[k])
      BY <1>3, <1>6, <3>1
    <3> QED  BY <1>5, <2>1, <3>1, <3>2 DEF Before
  <2> QED  BY <2>1, <2>2, <2>3
<1>7. ASSUME view.late # {}
      PROVE  l \in Entry /\ l.xid \in Ended /\ b.pending[l.xid] <= l.id
  <2>1. /\ l \in L /\ l \in Entry /\ l.xid \in Ended /\ l.xid \in Xids \ Running /\ l.id \in Int
        /\ c.pending[l.xid] # NotPending /\ l.id > c.pending[l.xid]
    BY <1>3, <1>7, FoundFacts
  <2>2. CASE b.pending[l.xid] = c.pending[l.xid]
    BY <1>5, <2>1, <2>2
  <2>3. CASE b.pending[l.xid] # c.pending[l.xid]
    <3>1. PICK k \in 1..Len(rows) :
              rows[k] \in L /\ rows[k].xid = l.xid /\ b.pending[l.xid] = rows[k].id
      BY <2>1, <2>3 DEF Traced
    <3>2. ~Before(l, rows[k]) /\ rows[k].id \in Int
      BY <1>3, <1>7, <3>1, FoundFacts
    <3> QED  BY <2>1, <3>1, <3>2 DEF Before
  <2> QED  BY <2>1, <2>2, <2>3
<1>8. Reaches(b, view)
  BY <1>1, <1>2, <1>3, <1>6, <1>7 DEF Reaches
<1>9. Sound(a) /\ NoFurther(b, a)
  BY <1>4, <1>8, AdvancedTo
<1>10. NoFurther(c, a)
  BY <1>9, NoFurtherTwice DEF Served
<1>11. Len(rows) \in Nat /\ \A k \in 1..Len(rows) : rows[k] \in Entry
  BY FoundFacts
<1>12. \A k \in 1..Len(rows) : Past(b, rows[k]) /\ Past(a, rows[k])
  BY <1>9, <1>11 DEF Served, NoFurther
<1>13. ASSUME NEW f \in entries, Past(a, f), ~Past(b, f), ~Excused(f) PROVE FALSE
  <2>1. f \in Entry
    BY DEF Found, Table
  <2>2. f.xid \in Ended
    BY <1>9, <1>13, <2>1, OpenIsAhead DEF Past
  <2>3. f \in Visible /\ f.wanted
    BY <1>13, <2>2 DEF Excused, Visible, Ended
  <2>4. f.xid \in Xids \ Running /\ f.xid \in Int /\ f.id \in Int
    BY <2>3, FoundFacts
  <2>5. Ahead(b, f) /\ Ahead(c, f)
    BY <1>13, <2>1 DEF Past, Served, NoFurther
  <2>6. \/ Before(b, f) /\ view.pos # {} /\ ~Before(p, f)
        \/ /\ b.pending[f.xid] # NotPending /\ f.id > b.pending[f.xid]
           /\ view.late # {} => ~Before(l, f)
    BY <1>1, <1>2, <1>4, <1>8, <1>13, <2>1, <2>2, <2>5, AdvancedToOver
  <2>7. f \in L \cup X
    <3>1. CASE Before(b, f) /\ view.pos # {} /\ ~Before(p, f)
      <4>1. p \in X /\ p \in Entry /\ p \in entries
        BY <1>3, <3>1, FoundFacts
      <4>2. Before(c, f)
        <5>1. CASE b.xid = c.xid /\ b.id = c.id
          BY <3>1, <5>1 DEF Before
        <5>2. CASE ~(b.xid = c.xid /\ b.id = c.id)
          <6>1. PICK k \in 1..Len(rows) : rows[k] \in X /\ b.xid = rows[k].xid /\ b.id = rows[k].id
            BY <5>2 DEF Traced
          <6>2. Before(c, b)
            BY <6>1, FoundFacts DEF Before
          <6> QED  BY <1>5, <2>4, <3>1, <6>2 DEF Before
        <5> QED  BY <5>1, <5>2
      <4>3. f \in NextFor(c)
        BY <2>3, <4>2 DEF NextFor
      <4>4. f = p \/ Before(f, p)
        <5>1. ~Before(f, p) => f.id = p.id
          BY <2>1, <3>1, <4>1, BeforeOrder
        <5> QED  BY <4>1, <5>1 DEF Found, Table
      <4> QED  BY <4>1, <4>3, <4>4 DEF Found, ReadView
    <3>2. CASE /\ b.pending[f.xid] # NotPending /\ f.id > b.pending[f.xid]
               /\ view.late # {} => ~Before(l, f)
      <4>1. c.pending[f.xid] # NotPending
        BY <2>4, <3>2 DEF Traced
      <4>2. f.xid < c.xid
        BY <2>4, <4>1 DEF Found, Sound
      <4>3. ~Before(c, f)
        BY <1>5, <2>4, <4>2 DEF Before
      <4>4. f \in LateFor(c)
        BY <2>3, <2>5, <4>3 DEF LateFor, Ahead
      <4>5. CASE view.late = {}
        BY <1>3, <4>4, <4>5
      <4>6. CASE view.late # {}
        <5>1. l \in L /\ l \in Entry /\ l \in entries
          BY <1>3, <4>6, FoundFacts
        <5>2. f = l \/ Before(f, l)
          <6>1. ~Before(f, l) => f.id = l.id
            BY <2>1, <3>2, <4>6, <5>1, BeforeOrder
          <6> QED  BY <5>1, <6>1 DEF Found, Table
        <5> QED  BY <4>4, <5>1, <5>2 DEF Found, ReadView
      <4> QED  BY <4>5, <4>6
    <3> QED  BY <2>6, <3>1, <3>2
  <2>8. PICK k \in 1..Len(rows) : rows[k] = f
    BY <2>3, <2>7 DEF Found, RowsOf
  <2> QED  BY <1>12, <1>13, <2>8
<1>14. Served(c, rows, Len(rows), a)
  <2>1. \A k \in 1..Len(rows) : k <= Len(rows) <=> Past(a, rows[k])
    BY <1>11, <1>12
  <2>2. \A f \in entries : Past(a, f) =>
            Past(c, f) \/ Excused(f) \/ \E k \in 1..Len(rows) : f = rows[k]
    BY <1>13 DEF Served
  <2> QED  BY <1>9, <1>10, <2>1, <2>2 DEF Served
<1> QED  BY <1>9, <1>14

-----------------------------------------------------------------------------
(* The cursors of a read.                                                  *)

\* The recursion of CursorsOf, up to n.
AfterRows(c, view, rows, n, g) ==
    g = [i \in 0..n |-> IF i = 0 THEN c ELSE advance(g[i - 1], view, rows[i])]

LEMMA AfterRowsExist ==
    ASSUME NEW c, NEW view, NEW rows, NEW n \in Nat
    PROVE  \E g : AfterRows(c, view, rows, n, g)
<1> DEFINE T == {m \in Nat : ~\E g : AfterRows(c, view, rows, m, g)}
<1>1. SUFFICES ASSUME T # {} PROVE FALSE
  OBVIOUS
<1>2. PICK m \in T : \A k \in T : m <= k
  BY <1>1, LeastNat
<1>3. CASE m = 0
  <2>1. PICK g : g = [i \in 0..0 |-> c]
    OBVIOUS
  <2>2. g = [i \in 0..0 |-> IF i = 0 THEN c ELSE advance(g[i - 1], view, rows[i])]
    BY <2>1
  <2> QED  BY <1>2, <1>3, <2>2 DEF AfterRows
<1>4. CASE m # 0
  <2>1. m - 1 \in Nat /\ m - 1 \notin T /\ m \in Nat
    BY <1>2, <1>4
  <2>2. PICK g : AfterRows(c, view, rows, m - 1, g)
    BY <2>1
  <2>3. PICK h : h = [i \in 0..m |-> IF i < m THEN g[i] ELSE advance(g[m - 1], view, rows[m])]
    OBVIOUS
  <2>4. \A i \in 0..m - 1 : h[i] = g[i]
    BY <2>1, <2>3
  <2>5. \A i \in 0..m - 1 : g[i] = IF i = 0 THEN c ELSE advance(g[i - 1], view, rows[i])
    BY <2>2 DEF AfterRows
  <2>6. ASSUME NEW i \in 0..m PROVE h[i] = IF i = 0 THEN c ELSE advance(h[i - 1], view, rows[i])
    <3>1. CASE i < m
      <4>1. i \in 0..m - 1 /\ (i # 0 => i - 1 \in 0..m - 1)
        BY <2>1, <3>1
      <4>2. h[i] = g[i] /\ (i # 0 => h[i - 1] = g[i - 1])
        BY <2>4, <4>1
      <4> QED  BY <2>5, <4>1, <4>2
    <3>2. CASE i = m
      <4>1. h[i] = advance(g[m - 1], view, rows[m])
        BY <2>3, <3>2
      <4>2. h[m - 1] = g[m - 1]
        BY <2>1, <2>4
      <4> QED  BY <1>4, <3>2, <4>1, <4>2
    <3> QED  BY <2>1, <3>1, <3>2
  <2>7. h = [i \in 0..m |-> IF i = 0 THEN c ELSE advance(h[i - 1], view, rows[i])]
    <3>1. h = [i \in 0..m |-> h[i]]
      BY <2>3
    <3> QED  BY <2>6, <3>1
  <2> QED  BY <1>2, <2>7 DEF AfterRows
<1> QED  BY <1>3, <1>4

LEMMA CursorsOfAfter ==
    ASSUME NEW c, NEW view, NEW rows, Len(rows) \in Nat
    PROVE  \E g : /\ AfterRows(c, view, rows, Len(rows), g)
                  /\ CursorsOf(c, view, rows) =
                       [i \in 1..Len(rows) |->
                           IF i = Len(rows) THEN advanceTo(g[i], view) ELSE g[i]]
<1>1. PICK g : g = CHOOSE after : after =
                 [i \in 0..Len(rows) |-> IF i = 0 THEN c ELSE advance(after[i - 1], view, rows[i])]
  OBVIOUS
<1>2. AfterRows(c, view, rows, Len(rows), g)
  BY <1>1, AfterRowsExist DEF AfterRows
<1>3. CursorsOf(c, view, rows) = [i \in 1..Len(rows) |->
                                     IF i = Len(rows) THEN advanceTo(g[i], view) ELSE g[i]]
  BY <1>1 DEF CursorsOf
<1> QED  BY <1>2, <1>3

LEMMA AfterRowsServed ==
    ASSUME NEW c, NEW L, NEW X, NEW view, NEW rows, Found(c, L, X, view, rows),
           NEW g, AfterRows(c, view, rows, Len(rows), g)
    PROVE  /\ \A i \in 0..Len(rows) :
                 Served(c, rows, i, g[i]) /\ Traced(c, L, X, rows, i, g[i])
           /\ \A i, j \in 0..Len(rows) : i <= j => NoFurther(g[i], g[j])
<1> DEFINE Good(i) == Served(c, rows, i, g[i]) /\ Traced(c, L, X, rows, i, g[i])
<1>1. Len(rows) \in Nat
  BY FoundFacts
<1>2. \A i \in 0..Len(rows) : g[i] = IF i = 0 THEN c ELSE advance(g[i - 1], view, rows[i])
  BY DEF AfterRows
<1>3. ASSUME NEW i \in 0..Len(rows) - 1, Good(i) PROVE Good(i + 1) /\ NoFurther(g[i], g[i + 1])
  <2>1. i + 1 \in 0..Len(rows) /\ i + 1 # 0 /\ (i + 1) - 1 = i
    BY <1>1
  <2>2. g[i + 1] = advance(g[i], view, rows[i + 1])
    BY <1>2, <2>1
  <2> QED  BY <1>3, <2>2, ServedNext
<1>4. \A i \in 0..Len(rows) : Good(i)
  <2> DEFINE T == {i \in 0..Len(rows) : ~Good(i)}
  <2>1. SUFFICES ASSUME T # {} PROVE FALSE
    OBVIOUS
  <2>2. PICK m \in T : \A k \in T : m <= k
    <3>1. T \subseteq Nat
      OBVIOUS
    <3> QED  BY <2>1, <3>1, LeastNat
  <2>3. m # 0
    <3>1. Good(0)
      BY <1>1, <1>2, ServedFirst
    <3> QED  BY <2>2, <3>1
  <2> HIDE DEF Good
  <2>4. m - 1 \in 0..Len(rows) - 1 /\ m - 1 \in 0..Len(rows) /\ m - 1 \notin T /\ (m - 1) + 1 = m
    BY <1>1, <2>2, <2>3
  <2>5. Good(m - 1)
    BY <2>4
  <2>6. Good(m)
    BY <1>3, <2>4, <2>5
  <2> QED  BY <2>2, <2>6
<1>5. ASSUME NEW i \in 0..Len(rows) PROVE \A j \in 0..Len(rows) : i <= j => NoFurther(g[i], g[j])
  <2> DEFINE T == {j \in 0..Len(rows) : i <= j /\ ~NoFurther(g[i], g[j])}
  <2>1. SUFFICES ASSUME T # {} PROVE FALSE
    OBVIOUS
  <2>2. PICK m \in T : \A k \in T : m <= k
    <3>1. T \subseteq Nat
      OBVIOUS
    <3> QED  BY <2>1, <3>1, LeastNat
  <2>3. m # i
    BY <2>2, NoFurtherSame
  <2>4. m - 1 \in 0..Len(rows) - 1 /\ m - 1 \in 0..Len(rows) /\ m - 1 \notin T
        /\ (m - 1) + 1 = m /\ i <= m - 1
    BY <1>1, <2>2, <2>3
  <2>5. NoFurther(g[i], g[m - 1])
    BY <2>4
  <2>6. NoFurther(g[m - 1], g[m])
    BY <1>3, <1>4, <2>4
  <2> QED  BY <2>2, <2>5, <2>6, NoFurtherTwice
<1> QED  BY <1>4, <1>5

\* What the cursors of an attempt are: the first i rows are behind the i-th, and
\* nothing else that has to be handled.
LEMMA CursorsServed ==
    ASSUME NEW c, NEW L, NEW X, NEW view, NEW rows, Found(c, L, X, view, rows),
           NEW cursors, cursors = CursorsOf(c, view, rows)
    PROVE  /\ cursors \in [1..Len(rows) -> Cursor]
           /\ \A i \in 1..Len(rows) : Served(c, rows, i, cursors[i])
           /\ \A i, j \in 1..Len(rows) : i <= j => NoFurther(cursors[i], cursors[j])
<1>1. Len(rows) \in Nat
  BY FoundFacts
<1>2. PICK g : /\ AfterRows(c, view, rows, Len(rows), g)
               /\ cursors = [i \in 1..Len(rows) |->
                                IF i = Len(rows) THEN advanceTo(g[i], view) ELSE g[i]]
  BY <1>1, CursorsOfAfter
<1>3. /\ \A i \in 0..Len(rows) : Served(c, rows, i, g[i]) /\ Traced(c, L, X, rows, i, g[i])
      /\ \A i, j \in 0..Len(rows) : i <= j => NoFurther(g[i], g[j])
  BY <1>2, AfterRowsServed
<1>4. PICK a : a = advanceTo(g[Len(rows)], view)
  OBVIOUS
<1>5. Served(c, rows, Len(rows), a) /\ NoFurther(g[Len(rows)], a)
  BY <1>1, <1>3, <1>4, ServedAll
<1>6. \A i \in 1..Len(rows) : cursors[i] = IF i = Len(rows) THEN a ELSE g[i]
  BY <1>2, <1>4
<1>7. \A i \in 1..Len(rows) : Served(c, rows, i, cursors[i])
  BY <1>1, <1>3, <1>5, <1>6
<1>8. ASSUME NEW i \in 1..Len(rows), NEW j \in 1..Len(rows), i <= j
      PROVE  NoFurther(cursors[i], cursors[j])
  <2>1. CASE j # Len(rows)
    BY <1>1, <1>3, <1>6, <1>8, <2>1
  <2>2. CASE j = Len(rows) /\ i # j
    <3>1. NoFurther(g[i], g[j])
      BY <1>1, <1>3, <1>8
    <3> QED  BY <1>5, <1>6, <2>2, <3>1, NoFurtherTwice
  <2>3. CASE i = j
    BY <2>3, NoFurtherSame
  <2> QED  BY <2>1, <2>2, <2>3
<1>9. cursors \in [1..Len(rows) -> Cursor]
  <2>1. \A i \in 1..Len(rows) : cursors[i] \in Cursor
    BY <1>7 DEF Served, Sound
  <2>2. cursors = [i \in 1..Len(rows) |-> cursors[i]]
    BY <1>2
  <2> QED  BY <2>1, <2>2
<1> QED  BY <1>7, <1>8, <1>9

\* A read without rows: its cursor only passes what need not be handled.
LEMMA SkipServed ==
    ASSUME NEW c, NEW L, NEW X, NEW view, Found(c, L, X, view, <<>>)
    PROVE  Served(c, <<>>, 0, advanceTo(c, view))
<1>1. Len(<<>>) = 0
  OBVIOUS
<1>2. Served(c, <<>>, Len(<<>>), c) /\ Traced(c, L, X, <<>>, Len(<<>>), c)
  BY <1>1, ServedFirst
<1>3. PICK a : a = advanceTo(c, view)
  OBVIOUS
<1>4. Served(c, <<>>, Len(<<>>), a)
  BY <1>2, <1>3, ServedAll
<1> QED  BY <1>1, <1>3, <1>4

-----------------------------------------------------------------------------
(* The log, its subscription and its readers.                               *)

Known == {e.id : e \in entries}
Handled == settled \cup passed

\* The cursor is past nothing that still has to be handled.
Cleared(c) == \A f \in entries : Past(c, f) => Excused(f) \/ f.id \in Handled

Owned == deleted \cup settled \cup passed \cup seeded.over \subseteq Known

\* A topic that keeps its entries deletes none that has to be handled.
Kept == KeepUntilConsumed =>
            \A f \in entries : f.wanted /\ f.id \in deleted => f.id \in Handled

SubShape ==
    sub = [cursor |-> sub.cursor, token |-> sub.token, live |-> sub.live, headId |-> sub.headId,
           headSize |-> sub.headSize, headAttempts |-> sub.headAttempts]
Subscription == SubShape /\ Sound(sub.cursor) /\ Cleared(sub.cursor)

Attempting == {"mark", "park", "handle", "stored", "settle"}
Serving == Attempting \cup {"read", "skip"}

Shape(x) ==
    x = [pc |-> x.pc, cursor |-> x.cursor, isolate |-> x.isolate, rows |-> x.rows,
         cursors |-> x.cursors, done |-> x.done, committed |-> x.committed,
         failed |-> x.failed, lost |-> x.lost]

\* The cursor of a reader after i rows.
Base(x, i) == IF i = 0 THEN x.cursor ELSE x.cursors[i]

\* An attempt at some rows: each cursor is past the rows up to its own.
Attempt(x) ==
    /\ x.rows \in Seq(entries) /\ Len(x.rows) \in Nat \ {0}
    /\ \A k \in 1..Len(x.rows) : /\ x.rows[k].wanted /\ tx[x.rows[k].xid] = "committed"
                                 /\ Ahead(x.cursor, x.rows[k])
    /\ \A i \in 1..Len(x.rows) : Served(x.cursor, x.rows, i, x.cursors[i])
    /\ \A i, j \in 1..Len(x.rows) : i <= j => NoFurther(x.cursors[i], x.cursors[j])
    /\ x.cursors \in [1..Len(x.rows) -> Cursor]
    /\ x.done \in 0..Len(x.rows)
    /\ x.pc = "handle" => x.done # Len(x.rows)
    /\ x.pc = "mark" => x.done = 0
    /\ x.pc = "park" => x.done = 0 /\ Len(x.rows) = 1

Skipping(x) == x.done = 0 /\ Served(x.cursor, <<>>, 0, x.cursors[1])

ReaderOk(x) ==
    /\ Shape(x) /\ x.pc \in Serving \cup {"idle", "release"}
    /\ x.pc = "idle" => x = Fresh
    /\ x.pc \in Serving => Sound(x.cursor)
    /\ x.pc = "read" => x.done = 0
    /\ x.pc = "skip" => Skipping(x)
    /\ x.pc \in Attempting => Attempt(x)

\* The stored cursor is not ahead of the holder, but for what the holder has
\* committed and not looked up yet.
Follows(x) ==
    \/ NoFurther(sub.cursor, Base(x, x.done))
    \/ x.pc = "stored" /\ \E u \in 1..Len(x.rows) : sub.cursor = x.cursors[u]

HolderOk(x) ==
    x.pc \in Serving =>
        /\ Cleared(x.cursor) /\ Follows(x)
        /\ \A k \in 1..x.done : x.rows[k].id \in Handled \cup deleted

Readings ==
    /\ rd = [r \in Readers |-> rd[r]]
    /\ \A r \in Readers : ReaderOk(rd[r]) /\ (sub.token = r => HolderOk(rd[r]))

\* What reset('now') has read: everything behind it is over.
Seeding ==
    seeded # NotSeeded =>
        /\ Resets /\ Sound(seeded.cursor)
        /\ \A f \in entries : Past(seeded.cursor, f) =>
              f.id \in seeded.over \cup deleted \/ tx[f.xid] = "aborted"

Cursors == Table /\ Owned /\ Kept /\ Subscription /\ Readings /\ Seeding

-----------------------------------------------------------------------------
(* What stays true while the log grows.                                    *)

Grows ==
    /\ Ended \subseteq Ended' /\ entries \subseteq entries' /\ deleted \subseteq deleted'
    /\ \A x \in Xids : tx[x] \in {"committed", "aborted"} => tx'[x] = tx[x]
    /\ \A f \in entries' \ entries : f \in Entry /\ f.xid \notin Ended

LEMMA TableSame == UNCHANGED table => Grows
  BY DEF table, Grows, Ended

LEMMA ExcusedStays ==
    ASSUME Table, Grows, NEW f \in entries, Excused(f) PROVE Excused(f)'
<1>1. f.xid \in Xids
  BY DEF Table, Entry
<1> QED  BY <1>1 DEF Excused, Grows

LEMMA ServedStays ==
    ASSUME Table, Grows, NEW c, NEW rows, NEW i, NEW b, Served(c, rows, i, b)
    PROVE  Served(c, rows, i, b)'
<1>1. Sound(b) /\ Sound(b)'
  BY SoundStays DEF Served, Grows
<1>2. ASSUME NEW f \in entries', Past(b, f)
      PROVE  Past(c, f) \/ Excused(f)' \/ \E k \in 1..i : f = rows[k]
  <2>1. CASE f \in entries
    BY <1>2, <2>1, ExcusedStays DEF Served
  <2>2. CASE f \notin entries
    BY <1>1, <1>2, <2>2, OpenIsAhead DEF Grows, Past
  <2> QED  BY <2>1, <2>2
<1> QED  BY <1>1, <1>2 DEF Served

LEMMA ClearedStays ==
    ASSUME Table, Grows, NEW c, Sound(c), Cleared(c), Handled \subseteq Handled'
    PROVE  Cleared(c)'
<1> SUFFICES ASSUME NEW f \in entries', Past(c, f) PROVE Excused(f)' \/ f.id \in Handled'
  BY DEF Cleared, Past, Ahead, Before
<1>1. CASE f \in entries
  BY <1>1, ExcusedStays DEF Cleared
<1>2. CASE f \notin entries
  BY <1>2, OpenIsAhead DEF Grows, Past
<1> QED  BY <1>1, <1>2

LEMMA AttemptStays ==
    ASSUME Table, Grows, NEW x, Attempt(x) PROVE Attempt(x)'
<1>1. x.rows \in Seq(entries')
  BY SeqMonotonic DEF Attempt, Grows
<1>2. \A k \in 1..Len(x.rows) : x.rows[k] \in entries /\ x.rows[k].xid \in Xids
  BY ElementOfSeq DEF Attempt, Table, Entry
<1>3. \A k \in 1..Len(x.rows) : tx'[x.rows[k].xid] = "committed"
  BY <1>2 DEF Attempt, Grows
<1>4. \A i \in 1..Len(x.rows) : Served(x.cursor, x.rows, i, x.cursors[i])'
  BY ServedStays DEF Attempt
<1> QED  BY <1>1, <1>3, <1>4 DEF Attempt

LEMMA ReaderStays ==
    ASSUME Table, Grows, NEW x, ReaderOk(x) PROVE ReaderOk(x)'
<1>1. Sound(x.cursor) => Sound(x.cursor)'
  BY SoundStays DEF Grows
<1>2. Attempt(x) => Attempt(x)'
  BY AttemptStays
<1>3. Skipping(x) => Skipping(x)'
  BY ServedStays DEF Skipping
<1> QED  BY <1>1, <1>2, <1>3 DEF ReaderOk

LEMMA HolderStays ==
    ASSUME Table, Grows, NEW x, ReaderOk(x), HolderOk(x), Handled \subseteq Handled',
           sub'.cursor = sub.cursor
    PROVE  HolderOk(x)'
<1>1. x.pc \in Serving => Sound(x.cursor)
  BY DEF ReaderOk
<1>2. Sound(x.cursor) /\ Cleared(x.cursor) => Cleared(x.cursor)'
  BY ClearedStays
<1>3. Follows(x) => Follows(x)'
  BY DEF Follows
<1>4. Handled \cup deleted \subseteq Handled' \cup deleted'
  BY DEF Grows
<1> QED  BY <1>1, <1>2, <1>3, <1>4 DEF HolderOk

-----------------------------------------------------------------------------
(* Steps that leave readers and the subscription alone.                    *)

LEMMA InitCursors == Init => Cursors
<1> SUFFICES ASSUME Init PROVE Cursors
  OBVIOUS
<1>1. Table
  BY FS_EmptySet DEF Init, Table, States
<1>2. Owned /\ Kept
  BY DEF Init, Owned, Kept, NotSeeded, Known
<1>3. Subscription
  BY BeginningIsSound DEF Init, Subscription, SubShape, Cleared
<1>4. Readings
  <2> SUFFICES ASSUME NEW r \in Readers PROVE ReaderOk(Fresh) /\ HolderOk(Fresh)
    BY DEF Init, Readings
  <2> QED  BY DEF Init, ReaderOk, HolderOk, Fresh, Shape, Serving, Attempting
<1>5. Seeding
  BY DEF Init, Seeding
<1> QED  BY <1>1, <1>2, <1>3, <1>4, <1>5 DEF Cursors

LEMMA LogGrows ==
    ASSUME Cursors, Table', Owned', Kept', Grows,
           UNCHANGED <<sub, rd, mode, seeded, settled, passed>>
    PROVE  Cursors'
<1> USE DEF Cursors
<1>1. Handled \subseteq Handled' /\ Handled' = Handled
  BY DEF Handled
<1>2. Subscription'
  <2>1. PICK c : c = sub.cursor
    OBVIOUS
  <2>2. Sound(c)' /\ Cleared(c)'
    BY <1>1, <2>1, SoundStays, ClearedStays DEF Subscription, Grows
  <2>3. sub'.cursor = c
    BY <2>1
  <2>4. SubShape'
    BY DEF Subscription, SubShape
  <2> QED  BY <2>2, <2>3, <2>4 DEF Subscription
<1>3. Readings'
  <2> SUFFICES ASSUME NEW r \in Readers
               PROVE  ReaderOk(rd[r])' /\ (sub'.token = r => HolderOk(rd[r])')
    BY DEF Readings
  <2>1. PICK x : x = rd[r]
    OBVIOUS
  <2>2. ReaderOk(x) /\ (sub.token = r => HolderOk(x))
    BY <2>1 DEF Readings
  <2>3. ReaderOk(x)'
    BY <2>2, ReaderStays
  <2>4. sub.token = r => HolderOk(x)'
    BY <1>1, <2>2, HolderStays
  <2>5. rd'[r] = x /\ sub' = sub
    BY <2>1
  <2> QED  BY <2>3, <2>4, <2>5
<1>4. Seeding'
  <2> SUFFICES ASSUME seeded # NotSeeded
               PROVE  /\ Sound(seeded.cursor)'
                      /\ \A f \in entries' : Past(seeded.cursor, f) =>
                            f.id \in seeded.over \cup deleted' \/ tx'[f.xid] = "aborted"
    BY DEF Seeding, Past, Ahead, Before
  <2>1. PICK c : c = seeded.cursor
    OBVIOUS
  <2>2. Sound(c) /\ Sound(c)'
    BY <2>1, SoundStays DEF Seeding, Grows
  <2>3. ASSUME NEW f \in entries', Past(c, f)
        PROVE  f.id \in seeded.over \cup deleted' \/ tx'[f.xid] = "aborted"
    <3>1. f \in entries
      BY <2>2, <2>3, OpenIsAhead DEF Grows, Past
    <3>2. f.xid \in Xids
      BY <3>1 DEF Table, Entry
    <3> QED  BY <2>1, <2>3, <3>1, <3>2 DEF Seeding, Grows
  <2> QED  BY <2>1, <2>2, <2>3
<1> QED  BY <1>2, <1>3, <1>4

LEMMA BeginCursors ==
    ASSUME Cursors, NEW x \in Xids, Begin(x) PROVE Cursors'
<1> USE DEF Begin
<1>1. /\ tx \in [Xids -> States] /\ tx' \in [Xids -> States]
      /\ \A y \in Xids : tx'[y] = IF y = x THEN "running" ELSE tx[y]
  BY DEF Cursors, Table, States
<1>2. Table'
  <2>1. \A a, b \in Xids : a < b /\ tx'[a] = "new" => tx'[b] = "new"
    BY <1>1, EventsAssumption DEF Cursors, Table, Xids
  <2>2. \A e \in entries : tx'[e.xid] # "new"
    BY <1>1 DEF Cursors, Table, Entry
  <2> QED  BY <1>1, <2>1, <2>2 DEF Cursors, Table
<1>3. Grows
  BY <1>1 DEF Grows, Ended
<1>4. Owned' /\ Kept'
  BY DEF Cursors, Owned, Kept, Known, Handled, ghosts
<1> QED  BY <1>2, <1>3, <1>4, LogGrows DEF ghosts

LEMMA EndCursors ==
    ASSUME Cursors, NEW x \in Xids, NEW how \in {"committed", "aborted"}, End(x, how)
    PROVE  Cursors' /\ Grows
<1> USE DEF End
<1>1. /\ tx \in [Xids -> States] /\ tx' \in [Xids -> States]
      /\ \A y \in Xids : tx'[y] = IF y = x THEN how ELSE tx[y]
  BY DEF Cursors, Table, States
<1>2. Table'
  <2>1. \A a, b \in Xids : a < b /\ tx'[a] = "new" => tx'[b] = "new"
    BY <1>1 DEF Cursors, Table
  <2>2. \A e \in entries : tx'[e.xid] # "new"
    BY <1>1 DEF Cursors, Table, Entry
  <2> QED  BY <1>1, <2>1, <2>2 DEF Cursors, Table
<1>3. Grows
  BY <1>1 DEF Grows, Ended
<1>4. Owned' /\ Kept'
  BY DEF Cursors, Owned, Kept, Known, Handled, ghosts
<1> QED  BY <1>2, <1>3, <1>4, LogGrows DEF ghosts

LEMMA PublishCursors ==
    ASSUME Cursors, NEW x \in Xids, Publish(x) PROVE Cursors'
<1>1. PICK id : /\ id = Cardinality(entries) + 1 /\ id <= MaxEntries
                /\ entries' = entries \cup {[id |-> id, xid |-> x, wanted |-> id \notin Unwanted]}
  BY DEF Publish
<1> DEFINE new == [id |-> id, xid |-> x, wanted |-> id \notin Unwanted]
<1>2. Cardinality(entries) \in Nat
  BY FS_CardinalityType DEF Cursors, Table
<1>3. id \in Ids /\ new \in Entry
  BY <1>1, <1>2, EventsAssumption DEF Ids, Entry
<1>4. \A e \in entries : e.id < id /\ e.id \in Nat
  BY <1>1, <1>2, EventsAssumption DEF Cursors, Table, Entry, Ids
<1>5. new \notin entries
  BY <1>1, <1>2, <1>4
<1>6. IsFiniteSet(entries') /\ Cardinality(entries') = id
  BY <1>1, <1>5, FS_AddElement DEF Cursors, Table
<1>7. tx[x] = "running" /\ x \notin Ended
  BY DEF Publish, Ended
<1>8. Table'
  <2>1. entries' \subseteq Entry
    BY <1>1, <1>3 DEF Cursors, Table
  <2>2. ASSUME NEW e \in entries' PROVE tx[e.xid] # "new" /\ e.id <= id
    BY <1>1, <1>2, <1>4, <1>7 DEF Cursors, Table
  <2>3. ASSUME NEW e \in entries', NEW f \in entries', e.id = f.id PROVE e = f
    BY <1>1, <1>2, <1>4, <2>3 DEF Cursors, Table
  <2> QED  BY <1>6, <2>1, <2>2, <2>3 DEF Cursors, Table, Publish
<1>9. Grows
  <2>1. \A f \in entries' \ entries : f = new
    BY <1>1
  <2> QED  BY <1>1, <1>3, <1>7, <2>1 DEF Grows, Ended, Publish
<1>10. Known \subseteq Known' /\ id \notin Known
  BY <1>1, <1>2, <1>4 DEF Known
<1>11. Owned'
  BY <1>10 DEF Cursors, Owned, Publish, ghosts
<1>12. Kept'
  <2>1. id \notin deleted
    BY <1>10 DEF Cursors, Owned
  <2> QED  BY <1>1, <2>1 DEF Cursors, Kept, Handled, Publish, ghosts
<1> QED  BY <1>8, <1>9, <1>11, <1>12, LogGrows DEF Publish, ghosts

LEMMA RetainCursors ==
    ASSUME Cursors, NEW k, Retain(k) PROVE Cursors'
<1> DEFINE old == {e \in Visible : e.id <= k /\ e.id \notin parked}
           unread == {e \in old : Before(sub.cursor, e) \/ sub.cursor.pending[e.xid] # NotPending}
<1>1. PICK gone : /\ gone = IF KeepUntilConsumed THEN old \ unread ELSE old
                  /\ deleted' = deleted \cup {e.id : e \in gone}
  BY DEF Retain
<1>2. gone \subseteq Visible
  BY <1>1
<1>3. \A e \in Visible : e \in entries /\ e.id \notin deleted /\ tx[e.xid] = "committed"
  BY DEF Visible
<1>4. ASSUME KeepUntilConsumed, NEW e \in gone PROVE Past(sub.cursor, e)
  BY <1>1, <1>4 DEF Past, Ahead
<1>5. Table' /\ Grows
  BY <1>1 DEF Cursors, Table, Grows, Ended, Retain
<1>6. Owned'
  BY <1>1, <1>2, <1>3 DEF Cursors, Owned, Known, Retain, ghosts
<1>7. Kept'
  <2> SUFFICES ASSUME KeepUntilConsumed, NEW f \in entries, f.wanted, f.id \in deleted'
               PROVE  f.id \in Handled
    BY DEF Kept, Handled, Retain, ghosts
  <2>1. CASE f.id \in deleted
    BY <2>1 DEF Cursors, Kept
  <2>2. CASE f.id \notin deleted
    <3>1. PICK e \in gone : e.id = f.id
      BY <1>1, <2>2
    <3>2. f \in gone
      BY <1>2, <1>3, <3>1 DEF Cursors, Table
    <3> QED  BY <1>2, <1>3, <1>4, <3>2 DEF Cursors, Subscription, Cleared, Excused
  <2> QED  BY <2>1, <2>2
<1> QED  BY <1>5, <1>6, <1>7, LogGrows DEF Retain, ghosts

-----------------------------------------------------------------------------
(* Steps of a reader.  The entries stay what they are.                     *)

\* The subscription only moves forward and nothing becomes unsettled.
Moved ==
    /\ UNCHANGED <<table, passed>> /\ settled \subseteq settled'
    /\ NoFurther(sub.cursor, sub'.cursor)

LEMMA TablesStay ==
    ASSUME Cursors, UNCHANGED <<table, seeded, passed>>,
           settled \subseteq settled', settled' \subseteq Known
    PROVE  Table' /\ Owned' /\ Kept' /\ Seeding' /\ Handled \subseteq Handled'
<1> USE DEF Cursors, table
<1>1. Table'
  BY DEF Table
<1>2. Handled \subseteq Handled'
  BY DEF Handled
<1>3. Owned' /\ Kept'
  BY <1>2 DEF Owned, Kept, Known
<1>4. Seeding'
  <2> SUFFICES ASSUME seeded # NotSeeded
               PROVE  /\ Sound(seeded.cursor)'
                      /\ \A f \in entries' : Past(seeded.cursor, f) =>
                            f.id \in seeded.over \cup deleted' \/ tx'[f.xid] = "aborted"
    BY DEF Seeding, Past, Ahead, Before
  <2>1. PICK c : c = seeded.cursor
    OBVIOUS
  <2>2. Sound(c)'
    BY <2>1, SoundStays DEF Seeding, Ended
  <2> QED  BY <2>1, <2>2 DEF Seeding
<1> QED  BY <1>1, <1>2, <1>3, <1>4

LEMMA OtherReader ==
    ASSUME Cursors, UNCHANGED table, Handled \subseteq Handled',
           NEW q \in Readers, rd'[q] = rd[q],
           sub'.token = q => sub.token = q /\ sub'.cursor = sub.cursor
    PROVE  ReaderOk(rd[q])' /\ (sub'.token = q => HolderOk(rd[q])')
<1>1. PICK x : x = rd[q]
  OBVIOUS
<1>2. ReaderOk(x) /\ (sub.token = q => HolderOk(x))
  BY <1>1 DEF Cursors, Readings
<1>3. Table /\ Grows
  BY TableSame DEF Cursors
<1>4. ReaderOk(x)'
  BY <1>2, <1>3, ReaderStays
<1>5. sub'.token = q => HolderOk(x)'
  BY <1>2, <1>3, HolderStays
<1>6. rd'[q] = x
  BY <1>1
<1> QED  BY <1>4, <1>5, <1>6

LEMMA SubscriptionStays ==
    ASSUME Cursors, UNCHANGED table, Handled \subseteq Handled', SubShape',
           sub'.cursor = sub.cursor
    PROVE  Subscription'
<1>1. PICK c : c = sub.cursor
  OBVIOUS
<1>2. Sound(c) /\ Cleared(c) /\ Table /\ Grows
  BY <1>1, TableSame DEF Cursors, Subscription
<1>3. Sound(c)' /\ Cleared(c)'
  BY <1>2, SoundStays, ClearedStays DEF Grows
<1>4. sub'.cursor = c
  BY <1>1
<1> QED  BY <1>3, <1>4 DEF Subscription

\* A step of reader r that leaves it with x in memory; only the holder of the
\* lease moves the cursor.
Stepped(r, x) ==
    /\ UNCHANGED <<table, mode, seeded, passed>>
    /\ rd' = [q \in Readers |-> IF q = r THEN x ELSE rd[q]]
    /\ settled \subseteq settled' /\ settled' \subseteq Known
    /\ SubShape' /\ sub'.token \in {sub.token, NoReader, r}

LEMMA StepKeepsCursor ==
    ASSUME Cursors, NEW r \in Readers, NEW x, Stepped(r, x), sub'.cursor = sub.cursor,
           ReaderOk(x), sub'.token = r => HolderOk(x)'
    PROVE  Cursors' /\ Moved
<1> USE DEF Stepped
<1>1. Table' /\ Owned' /\ Kept' /\ Seeding' /\ Handled \subseteq Handled'
  BY TablesStay
<1>2. Subscription'
  BY <1>1, SubscriptionStays
<1>3. ReaderOk(x)'
  BY ReaderStays, TableSame DEF Cursors
<1>4. ASSUME NEW q \in Readers PROVE ReaderOk(rd[q])' /\ (sub'.token = q => HolderOk(rd[q])')
  <2>1. CASE q = r
    <3>1. rd'[q] = x
      BY <2>1
    <3> QED  BY <1>3, <2>1, <3>1
  <2>2. CASE q # r
    <3>1. rd'[q] = rd[q]
      BY <2>2
    <3>2. sub'.token = q => sub.token = q
      BY <2>2, NoReaderAssumption
    <3> QED  BY <1>1, <3>1, <3>2, OtherReader
  <2> QED  BY <2>1, <2>2
<1>5. rd' = [q \in Readers |-> rd'[q]]
  OBVIOUS
<1>6. Readings'
  BY <1>4, <1>5 DEF Readings
<1>7. Moved
  BY NoFurtherSame DEF Moved
<1> QED  BY <1>1, <1>2, <1>6, <1>7 DEF Cursors

LEMMA StepMovesCursor ==
    ASSUME Cursors, NEW r \in Readers, NEW x, NEW c, Stepped(r, x), Mine(r), sub'.cursor = c,
           Sound(c), NoFurther(sub.cursor, c),
           \A f \in entries : Past(c, f) => Excused(f) \/ f.id \in settled' \cup passed,
           ReaderOk(x), sub'.token = r => HolderOk(x)'
    PROVE  Cursors' /\ Moved
<1> USE DEF Stepped
<1>1. Table' /\ Owned' /\ Kept' /\ Seeding' /\ Handled \subseteq Handled'
  BY TablesStay
<1>2. Subscription'
  <2>1. Sound(c)'
    BY SoundStays, TableSame DEF Grows
  <2>2. Cleared(c)'
    BY DEF Cleared, Excused, Handled, Past, Ahead, Before, table
  <2> QED  BY <2>1, <2>2 DEF Subscription
<1>3. ReaderOk(x)'
  BY ReaderStays, TableSame DEF Cursors
<1>4. ASSUME NEW q \in Readers PROVE ReaderOk(rd[q])' /\ (sub'.token = q => HolderOk(rd[q])')
  <2>1. CASE q = r
    <3>1. rd'[q] = x
      BY <2>1
    <3> QED  BY <1>3, <2>1, <3>1
  <2>2. CASE q # r
    <3>1. rd'[q] = rd[q]
      BY <2>2
    <3>2. sub'.token # q
      BY <2>2, NoReaderAssumption DEF Mine
    <3> QED  BY <1>1, <3>1, <3>2, OtherReader
  <2> QED  BY <2>1, <2>2
<1>5. rd' = [q \in Readers |-> rd'[q]]
  OBVIOUS
<1>6. Readings'
  BY <1>4, <1>5 DEF Readings
<1>7. Moved
  BY DEF Moved
<1> QED  BY <1>1, <1>2, <1>6, <1>7 DEF Cursors

LEMMA QuietStep ==
    ASSUME Cursors, UNCHANGED <<table, rd, seeded, passed, settled>>, SubShape',
           sub'.cursor = sub.cursor, sub'.token = sub.token
    PROVE  Cursors' /\ Moved
<1>1. Table' /\ Owned' /\ Kept' /\ Seeding' /\ Handled \subseteq Handled'
  BY TablesStay DEF Cursors, Owned
<1>2. Subscription'
  BY <1>1, SubscriptionStays
<1>3. Readings'
  BY <1>1, OtherReader DEF Cursors, Readings
<1>4. Moved
  BY NoFurtherSame DEF Moved
<1> QED  BY <1>1, <1>2, <1>3, <1>4 DEF Cursors

\* A step that changes the memory of reader r only.
LEMMA OwnStep ==
    ASSUME Cursors, NEW r \in Readers, NEW x,
           UNCHANGED <<table, mode, seeded, passed, settled, sub>>,
           rd' = [q \in Readers |-> IF q = r THEN x ELSE rd[q]],
           ReaderOk(x), sub.token = r => HolderOk(x)
    PROVE  Cursors' /\ Moved
<1>1. Stepped(r, x)
  BY DEF Stepped, Cursors, Subscription, SubShape, Owned
<1>2. sub.token = r => HolderOk(x)'
  BY HolderStays, TableSame DEF Cursors, Handled
<1> QED  BY <1>1, <1>2, StepKeepsCursor

LEMMA FreshIsOk == ReaderOk(Fresh) /\ HolderOk(Fresh) /\ HolderOk(Fresh)'
  BY DEF ReaderOk, HolderOk, Fresh, Shape, Serving, Attempting

LEMMA IdleStep ==
    ASSUME Cursors, NEW r \in Readers, GoesIdle(r),
           UNCHANGED <<table, mode, seeded, passed, settled, sub>>
    PROVE  Cursors' /\ Moved
<1>1. rd' = [q \in Readers |-> IF q = r THEN Fresh ELSE rd[q]]
  BY DEF GoesIdle, Cursors, Readings
<1> QED  BY <1>1, OwnStep, FreshIsOk

\* The memory of a reader that begins a round of its loop.
Reading(x, c) == Shape(x) /\ x.pc = "read" /\ x.cursor = c /\ x.done = 0

LEMMA ReadingIsOk ==
    ASSUME NEW x, NEW c, Reading(x, c), Sound(c) PROVE ReaderOk(x)
  BY DEF Reading, ReaderOk, Serving, Attempting

LEMMA ReadingFollows ==
    ASSUME NEW x, NEW c, Reading(x, c), Cleared(c)', NoFurther(sub'.cursor, c)
    PROVE  HolderOk(x)'
<1>1. \A k : k \notin 1..0
  OBVIOUS
<1> QED  BY <1>1 DEF Reading, HolderOk, Follows, Base

LEMMA ToReadGives ==
    ASSUME Cursors, NEW r \in Readers, NEW c, NEW i, ToRead(r, c, i)
    PROVE  \E x : Reading(x, c) /\ rd' = [q \in Readers |-> IF q = r THEN x ELSE rd[q]]
<1>1. PICK x : x = [Fresh EXCEPT !.pc = "read", !.cursor = c, !.isolate = i, !.lost = rd[r].lost]
  OBVIOUS
<1>2. Reading(x, c)
  BY <1>1 DEF Reading, Shape, Fresh
<1>3. rd' = [q \in Readers |-> IF q = r THEN x ELSE rd[q]]
  BY <1>1 DEF ToRead, Cursors, Readings
<1> QED  BY <1>2, <1>3

\* What a reader in the middle of an attempt knows.
LEMMA BaseIsSound ==
    ASSUME NEW x, Attempt(x), Sound(x.cursor), NEW i \in 0..Len(x.rows)
    PROVE  Sound(Base(x, i)) /\ NoFurther(x.cursor, Base(x, i))
<1>1. CASE i = 0
  BY <1>1, NoFurtherSame DEF Base
<1>2. CASE i \in 1..Len(x.rows)
  BY <1>2 DEF Base, Attempt, Served
<1> QED  BY <1>1, <1>2 DEF Attempt

LEMMA BasesInOrder ==
    ASSUME NEW x, Attempt(x), NEW i \in 0..Len(x.rows), NEW j \in 0..Len(x.rows), i <= j
    PROVE  NoFurther(Base(x, i), Base(x, j))
<1>1. CASE i = 0 /\ j = 0
  BY <1>1, NoFurtherSame DEF Base
<1>2. CASE i = 0 /\ j # 0
  <2>1. j \in 1..Len(x.rows)
    BY <1>2 DEF Attempt
  <2> QED  BY <1>2, <2>1 DEF Base, Attempt, Served
<1>3. CASE i # 0
  <2>1. i \in 1..Len(x.rows) /\ j \in 1..Len(x.rows) /\ j # 0
    BY <1>3 DEF Attempt
  <2> QED  BY <1>3, <2>1 DEF Base, Attempt
<1> QED  BY <1>1, <1>2, <1>3

LEMMA BaseIsCleared ==
    ASSUME NEW x, Attempt(x), Cleared(x.cursor), NEW i \in 0..Len(x.rows),
           NEW H, Handled \subseteq H,
           \A k \in 1..i : x.rows[k].id \in H \cup deleted,
           NEW f \in entries, Past(Base(x, i), f)
    PROVE  Excused(f) \/ f.id \in H
<1>1. CASE i = 0
  BY <1>1 DEF Base, Cleared
<1>2. CASE i # 0
  <2>1. i \in 1..Len(x.rows)
    BY <1>2 DEF Attempt
  <2>2. Served(x.cursor, x.rows, i, x.cursors[i]) /\ Past(x.cursors[i], f)
    BY <1>2, <2>1 DEF Attempt, Base
  <2>3. Past(x.cursor, f) \/ Excused(f) \/ \E k \in 1..i : f = x.rows[k]
    BY <2>2 DEF Served
  <2> QED  BY <2>3 DEF Cleared, Excused
<1> QED  BY <1>1, <1>2

-----------------------------------------------------------------------------
(* One lemma per action of a reader.                                       *)

LEMMA LeaseCursors ==
    ASSUME Cursors, NEW r \in Readers, Lease(r) PROVE Cursors' /\ Moved
<1> USE DEF Lease
<1>1. PICK x : x = rd'[r]
  OBVIOUS
<1>2. rd = [q \in Readers |-> rd[q]] /\ rd[r] = Fresh /\ SubShape
  BY DEF Cursors, Readings, ReaderOk, Subscription
<1>3. rd' = [q \in Readers |-> IF q = r THEN x ELSE rd[q]]
  BY <1>1, <1>2
<1>4. Reading(x, sub.cursor)
  <2>1. Shape(rd[r]) /\ rd[r].done = 0
    BY <1>2 DEF Shape, Fresh
  <2> QED  BY <1>1, <1>2, <2>1 DEF Reading, Shape
<1>5. SubShape' /\ sub'.token = r /\ sub'.cursor = sub.cursor
  BY <1>2 DEF SubShape
<1>6. Stepped(r, x)
  BY <1>3, <1>5 DEF Stepped, ghosts, Cursors, Owned
<1>7. ReaderOk(x)
  BY <1>4, ReadingIsOk DEF Cursors, Subscription
<1>8. HolderOk(x)'
  <2>1. PICK c : c = sub.cursor
    OBVIOUS
  <2>2. Cleared(c)'
    BY <2>1 DEF Cursors, Subscription, Cleared, Past, Ahead, Before, Excused, Handled,
                table, ghosts
  <2> QED  BY <1>4, <1>5, <2>1, <2>2, ReadingFollows, NoFurtherSame
<1> QED  BY <1>5, <1>6, <1>7, <1>8, StepKeepsCursor

LEMMA LostCursors ==
    ASSUME Cursors, NEW r \in Readers, Lost(r) PROVE Cursors' /\ Moved
  BY IdleStep DEF Lost, ghosts

LEMMA CrashCursors ==
    ASSUME Cursors, NEW r \in Readers, Crash(r) PROVE Cursors' /\ Moved
  BY IdleStep DEF Crash, ghosts

LEMMA LeaveCursors ==
    ASSUME Cursors, NEW r \in Readers, Leave(r) PROVE Cursors' /\ Moved
<1>1. CASE GoesIdle(r)
  BY <1>1, IdleStep DEF Leave, ghosts
<1>2. CASE rd' = [rd EXCEPT ![r] = [Fresh EXCEPT !.pc = "release"]]
  <2>1. PICK x : x = [Fresh EXCEPT !.pc = "release"]
    OBVIOUS
  <2>2. rd' = [q \in Readers |-> IF q = r THEN x ELSE rd[q]]
    BY <1>2, <2>1 DEF Cursors, Readings
  <2>3. ReaderOk(x) /\ HolderOk(x)
    BY <2>1 DEF ReaderOk, HolderOk, Fresh, Shape, Serving, Attempting
  <2> QED  BY <2>2, <2>3, OwnStep DEF Leave, ghosts
<1> QED  BY <1>1, <1>2 DEF Leave

LEMMA HeartbeatCursors ==
    ASSUME Cursors, NEW r \in Readers, Heartbeat(r) PROVE Cursors' /\ Moved
<1> USE DEF Heartbeat
<1>1. CASE UNCHANGED rd
  <2>1. SubShape' /\ sub'.token = sub.token /\ sub'.cursor = sub.cursor
    BY <1>1 DEF Cursors, Subscription, SubShape
  <2> QED  BY <1>1, <2>1, QuietStep DEF ghosts
<1>2. CASE ~Mine(r) /\ rd' = [rd EXCEPT ![r].lost = TRUE] /\ UNCHANGED sub
  <2>1. PICK y, x : y = rd[r] /\ x = rd'[r]
    OBVIOUS
  <2>2. rd = [q \in Readers |-> rd[q]] /\ ReaderOk(y) /\ Shape(y) /\ y.pc # "idle"
    BY <2>1 DEF Cursors, Readings, ReaderOk
  <2>3. rd' = [q \in Readers |-> IF q = r THEN x ELSE rd[q]]
    BY <1>2, <2>1, <2>2
  <2>4. Shape(x) /\ x.pc = y.pc /\ x.cursor = y.cursor /\ x.rows = y.rows
        /\ x.cursors = y.cursors /\ x.done = y.done
    BY <1>2, <2>1, <2>2 DEF Shape
  <2>5. ReaderOk(x)
    BY <2>2, <2>4 DEF ReaderOk, Attempt, Skipping
  <2> QED  BY <1>2, <2>3, <2>5, OwnStep DEF Mine, ghosts
<1> QED  BY <1>1, <1>2

LEMMA ReleaseCursors ==
    ASSUME Cursors, NEW r \in Readers, Release(r) PROVE Cursors' /\ Moved
<1> USE DEF Release
<1>1. CASE ~Mine(r)
  BY <1>1, IdleStep DEF ghosts
<1>2. CASE Mine(r)
  <2>1. rd' = [q \in Readers |-> IF q = r THEN Fresh ELSE rd[q]]
    BY DEF GoesIdle, Cursors, Readings
  <2>2. SubShape' /\ sub'.token = NoReader /\ sub'.cursor = sub.cursor
    BY <1>2 DEF Cursors, Subscription, SubShape
  <2>3. Stepped(r, Fresh)
    BY <2>1, <2>2 DEF Stepped, ghosts, Cursors, Owned
  <2> QED  BY <2>2, <2>3, FreshIsOk, StepKeepsCursor
<1> QED  BY <1>1, <1>2

LEMMA LapsesCursors ==
    ASSUME Cursors, Lapses PROVE Cursors' /\ Moved
<1>1. SubShape' /\ sub'.token = sub.token /\ sub'.cursor = sub.cursor
  BY DEF Cursors, Subscription, SubShape, Lapses
<1> QED  BY <1>1, QuietStep DEF Lapses, ghosts

LEMMA DiscardCursors ==
    ASSUME Cursors, NEW i, Discard(i) PROVE Cursors' /\ Moved
  BY QuietStep DEF Discard, ghosts, Cursors, Subscription, SubShape

\* The handler of the reader failed.
LEMMA ThrewCursors ==
    ASSUME Cursors, NEW r \in Readers, NEW c, NEW l, rd[r].pc = "handle", Threw(r, c, l),
           UNCHANGED <<table, sub, parked, mode, seeded, passed, settled>>
    PROVE  Cursors' /\ Moved
<1>1. PICK y, x : y = rd[r] /\ x = rd'[r]
  OBVIOUS
<1>2. /\ rd = [q \in Readers |-> rd[q]] /\ ReaderOk(y) /\ Shape(y) /\ y.pc = "handle"
      /\ (sub.token = r => HolderOk(y))
  BY <1>1 DEF Cursors, Readings, ReaderOk
<1>3. rd' = [q \in Readers |-> IF q = r THEN x ELSE rd[q]]
  BY <1>1, <1>2 DEF Threw
<1>4. /\ Shape(x) /\ x.cursor = y.cursor /\ x.rows = y.rows
      /\ x.cursors = y.cursors /\ x.done = y.done /\ x.pc \in {"settle", "stored"}
  BY <1>1, <1>2 DEF Shape, Threw
<1>5. ReaderOk(x)
  BY <1>2, <1>4 DEF ReaderOk, Attempt, Serving, Attempting
<1>6. HolderOk(y) => HolderOk(x)
  BY <1>2, <1>4 DEF HolderOk, Serving, Attempting, Follows, Base
<1> QED  BY <1>2, <1>3, <1>5, <1>6, OwnStep

LEMMA HandlerThrowsCursors ==
    ASSUME Cursors, NEW r \in Readers, HandlerThrows(r) PROVE Cursors' /\ Moved
  BY ThrewCursors DEF HandlerThrows, Calls, ghosts

LEMMA CutShortCursors ==
    ASSUME Cursors, NEW r \in Readers, CutShort(r) PROVE Cursors' /\ Moved
  BY ThrewCursors DEF CutShort, ghosts

LEMMA ReadCursors ==
    ASSUME Cursors, NEW r \in Readers, Read(r) PROVE Cursors' /\ Moved
<1>1. PICK y, x : y = rd[r] /\ x = rd'[r]
  OBVIOUS
<1>2. /\ rd = [q \in Readers |-> rd[q]] /\ ReaderOk(y) /\ Shape(y) /\ y.pc = "read"
      /\ y.done = 0 /\ Sound(y.cursor) /\ (sub.token = r => HolderOk(y))
      /\ UNCHANGED <<table, sub, mode, seeded, ghosts>>
  BY <1>1 DEF Cursors, Readings, ReaderOk, Serving, Read
<1>3. PICK n, got :
         /\ n \in Nat \ {0} /\ got = ReadOf(y.cursor, n)
         /\ \/ /\ got.rows = {}
               /\ rd' = [rd EXCEPT ![r].pc = "skip",
                                   ![r].cursors = <<advanceTo(y.cursor, got.view)>>]
            \/ \E rows \in InXidOrder(got.rows) :
                  /\ rows # <<>>
                  /\ rd' = [rd EXCEPT ![r].pc = "mark", ![r].rows = rows,
                                ![r].cursors = CursorsOf(y.cursor, got.view, rows)]
  <2>1. PICK n : n = IF y.isolate > 0 THEN 1 ELSE BatchSize
    OBVIOUS
  <2>2. n \in Nat \ {0}
    BY <2>1, EventsAssumption
  <2> QED  BY <1>1, <2>1, <2>2 DEF Read
<1>4. PICK L, X, T : /\ L = Late(y.cursor, n) /\ X = NextOnes(y.cursor, n - Cardinality(L))
                     /\ T = L \cup X
  OBVIOUS
<1>5. ReadView(y.cursor, L, X, got.view) /\ got.rows = {e \in T : e.wanted}
  <2>1. ReadView(y.cursor, L, X, got.view)
    BY <1>3, <1>4, ReadGivesView DEF Cursors
  <2>2. got.rows = {e \in T : e.wanted}
    BY <1>3, <1>4 DEF ReadOf
  <2> QED  BY <2>1, <2>2
<1>6. T \subseteq Visible /\ T \subseteq entries /\ IsFiniteSet(T)
  <2>1. T \subseteq Visible
    BY <1>4, <1>5 DEF ReadView, LateFor, NextFor
  <2> QED  BY <2>1, FS_Subset DEF Visible, Cursors, Table
<1>7. \A k \in 1..y.done : FALSE
  BY <1>2
<1>8. CASE /\ got.rows = {}
           /\ rd' = [rd EXCEPT ![r].pc = "skip", ![r].cursors = <<advanceTo(y.cursor, got.view)>>]
  <2>1. rd' = [q \in Readers |-> IF q = r THEN x ELSE rd[q]]
    BY <1>1, <1>2, <1>8
  <2>2. /\ Shape(x) /\ x.pc = "skip" /\ x.cursor = y.cursor /\ x.done = 0
        /\ x.cursors = <<advanceTo(y.cursor, got.view)>>
    BY <1>1, <1>2, <1>8 DEF Shape
  <2>3. Found(y.cursor, L, X, got.view, <<>>)
    BY <1>2, <1>4, <1>5, <1>8, NoRows DEF Found, Cursors
  <2>4. Skipping(x)
    BY <2>2, <2>3, SkipServed DEF Skipping
  <2>5. ReaderOk(x)
    BY <1>2, <2>2, <2>4 DEF ReaderOk, Serving, Attempting
  <2>6. HolderOk(y) => HolderOk(x)
    BY <1>2, <2>2 DEF HolderOk, Serving, Follows, Base
  <2> QED  BY <1>2, <2>1, <2>5, <2>6, OwnStep DEF ghosts
<1>9. ASSUME NEW rows \in InXidOrder(got.rows), rows # <<>>,
             rd' = [rd EXCEPT ![r].pc = "mark", ![r].rows = rows,
                              ![r].cursors = CursorsOf(y.cursor, got.view, rows)]
      PROVE  Cursors' /\ Moved
  <2>1. rd' = [q \in Readers |-> IF q = r THEN x ELSE rd[q]]
    BY <1>1, <1>2, <1>9
  <2>2. /\ Shape(x) /\ x.pc = "mark" /\ x.cursor = y.cursor /\ x.done = 0
        /\ x.rows = rows /\ x.cursors = CursorsOf(y.cursor, got.view, rows)
    BY <1>1, <1>2, <1>9 DEF Shape
  <2>3. RowsOf(T, rows)
    BY <1>5, <1>6, <1>9, RowsInOrder
  <2>4. Found(y.cursor, L, X, got.view, rows)
    BY <1>2, <1>4, <1>5, <2>3 DEF Found, Cursors
  <2>5. rows \in Seq(entries) /\ Len(rows) \in Nat \ {0}
    <3>1. rows \in Seq(T)
      BY <2>3 DEF RowsOf
    <3> QED  BY <1>6, <1>9, <3>1, SeqMonotonic
  <2>6. ASSUME NEW k \in 1..Len(rows)
        PROVE  rows[k].wanted /\ tx[rows[k].xid] = "committed" /\ Ahead(y.cursor, rows[k])
    <3>1. rows[k] \in T
      BY <2>3 DEF RowsOf
    <3>2. rows[k] \in LateFor(y.cursor) \cup NextFor(y.cursor)
      BY <1>4, <1>5, <3>1 DEF ReadView
    <3> QED  BY <2>3, <3>2 DEF RowsOf, LateFor, NextFor, Visible, Ahead
  <2>7. /\ x.cursors \in [1..Len(rows) -> Cursor]
        /\ \A i \in 1..Len(rows) : Served(y.cursor, rows, i, x.cursors[i])
        /\ \A i, j \in 1..Len(rows) : i <= j => NoFurther(x.cursors[i], x.cursors[j])
    BY <2>2, <2>4, CursorsServed
  <2>8. Attempt(x)
    BY <2>2, <2>5, <2>6, <2>7 DEF Attempt
  <2>9. ReaderOk(x)
    BY <1>2, <2>2, <2>8 DEF ReaderOk, Serving, Attempting
  <2>10. HolderOk(y) => HolderOk(x)
    BY <1>2, <2>2 DEF HolderOk, Serving, Attempting, Follows, Base
  <2> QED  BY <1>2, <2>1, <2>9, <2>10, OwnStep DEF ghosts
<1> QED  BY <1>3, <1>8, <1>9

LEMMA SkipCursors ==
    ASSUME Cursors, NEW r \in Readers, Skip(r) PROVE Cursors' /\ Moved
<1> USE DEF Skip
<1>1. PICK y, c : y = rd[r] /\ c = y.cursors[1]
  OBVIOUS
<1>2. Sound(y.cursor) /\ Skipping(y) /\ HolderOk(y) /\ y.pc = "skip" /\ Mine(r) /\ sub.token = r
  BY <1>1 DEF Cursors, Readings, ReaderOk, Serving, Mine
<1>3. /\ Sound(c) /\ NoFurther(y.cursor, c)
      /\ \A f \in entries : Past(c, f) => Past(y.cursor, f) \/ Excused(f)
  BY <1>1, <1>2 DEF Skipping, Served
<1>4. NoFurther(sub.cursor, c)
  BY <1>2, <1>3 DEF HolderOk, Follows, Base, Skipping, Serving, NoFurther
<1>5. Cleared(c)
  BY <1>2, <1>3 DEF Cleared, HolderOk, Serving
<1>6. PICK x : Reading(x, c) /\ rd' = [q \in Readers |-> IF q = r THEN x ELSE rd[q]]
  BY <1>1, ToReadGives
<1>7. sub'.cursor = c /\ sub'.token = sub.token /\ SubShape'
  BY <1>1 DEF SetCursor, Cursors, Subscription, SubShape
<1>8. Stepped(r, x)
  BY <1>6, <1>7 DEF Stepped, ghosts, Cursors, Owned
<1>9. Cleared(c)'
  BY <1>5 DEF Cleared, Past, Ahead, Before, Excused, Handled, table, ghosts
<1>10. HolderOk(x)'
  BY <1>6, <1>7, <1>9, ReadingFollows, NoFurtherSame
<1>11. ReaderOk(x)
  BY <1>3, <1>6, ReadingIsOk
<1>12. \A f \in entries : Past(c, f) => Excused(f) \/ f.id \in settled' \cup passed
  BY <1>5 DEF Cleared, Handled, ghosts
<1> QED  BY <1>2, <1>3, <1>4, <1>7, <1>8, <1>10, <1>11, <1>12, StepMovesCursor

LEMMA MarkCursors ==
    ASSUME Cursors, NEW r \in Readers, Mark(r) PROVE Cursors' /\ Moved
<1>1. PICK y, x : y = rd[r] /\ x = rd'[r]
  OBVIOUS
<1>2. /\ rd = [q \in Readers |-> rd[q]] /\ ReaderOk(y) /\ Shape(y) /\ y.pc = "mark" /\ Mine(r)
      /\ Attempt(y) /\ y.done = 0 /\ HolderOk(y)
      /\ UNCHANGED <<table, mode, seeded, settled, passed>>
  BY <1>1 DEF Cursors, Readings, ReaderOk, Attempting, Attempt, Mine, Mark
<1>3. PICK u : /\ (u = "park" /\ Len(y.rows) = 1) \/ u = "handle"
               /\ rd' = [rd EXCEPT ![r].pc = u]
  BY <1>1 DEF Mark
<1>4. rd' = [q \in Readers |-> IF q = r THEN x ELSE rd[q]]
  BY <1>1, <1>2, <1>3
<1>5. /\ Shape(x) /\ x.cursor = y.cursor /\ x.rows = y.rows
      /\ x.cursors = y.cursors /\ x.done = y.done /\ x.pc = u
  BY <1>1, <1>2, <1>3 DEF Shape
<1>6. ReaderOk(x)
  BY <1>2, <1>3, <1>5 DEF ReaderOk, Attempt, Serving, Attempting
<1>7. HolderOk(x)
  BY <1>2, <1>3, <1>5 DEF HolderOk, Serving, Attempting, Follows, Base
<1>8. sub'.cursor = sub.cursor /\ sub'.token = sub.token /\ SubShape'
  BY DEF Mark, Cursors, Subscription, SubShape
<1>9. Stepped(r, x)
  BY <1>2, <1>4, <1>8 DEF Stepped, Cursors, Owned
<1>10. HolderOk(x)'
  BY <1>2, <1>6, <1>7, <1>8, HolderStays, TableSame DEF Cursors, Handled
<1> QED  BY <1>6, <1>8, <1>9, <1>10, StepKeepsCursor

\* The holder of the lease moves the cursor of the subscription to its i-th one.
LEMMA MoveCursors ==
    ASSUME Cursors, NEW r \in Readers, NEW y, y = rd[r], Attempt(y), HolderOk(y),
           Sound(y.cursor), y.pc \in Attempting \ {"stored"}, Mine(r),
           NEW x, Stepped(r, x), NEW i \in 0..Len(y.rows), y.done <= i,
           \A k \in 1..i : y.rows[k].id \in settled' \cup passed \cup deleted,
           sub'.cursor = Base(y, i),
           ReaderOk(x), Cleared(Base(y, i))' => HolderOk(x)'
    PROVE  Cursors' /\ Moved
<1>1. PICK c : c = Base(y, i)
  OBVIOUS
<1>2. Sound(c) /\ Cleared(y.cursor) /\ NoFurther(sub.cursor, Base(y, y.done))
  BY <1>1, BaseIsSound DEF HolderOk, Serving, Follows
<1>3. NoFurther(sub.cursor, c)
  <2>1. NoFurther(Base(y, y.done), c)
    BY <1>1, BasesInOrder DEF Attempt
  <2> QED  BY <1>2, <2>1, NoFurtherTwice
<1>4. \A f \in entries : Past(c, f) => Excused(f) \/ f.id \in settled' \cup passed
  <2>1. Handled \subseteq settled' \cup passed
    BY DEF Handled, Stepped
  <2> QED  BY <1>1, <1>2, <2>1, BaseIsCleared
<1>5. Cleared(c)'
  BY <1>4 DEF Cleared, Past, Ahead, Before, Excused, Handled, Stepped, table
<1>6. Base(y, i)' = Base(y, i)
  OBVIOUS
<1> QED  BY <1>1, <1>2, <1>3, <1>4, <1>5, <1>6, StepMovesCursor

LEMMA ParkCursors ==
    ASSUME Cursors, NEW r \in Readers, Park(r) PROVE Cursors' /\ Moved
<1>1. PICK y, c : y = rd[r] /\ c = y.cursors[1]
  OBVIOUS
<1>2. /\ y.pc = "park" /\ Mine(r) /\ Attempt(y) /\ HolderOk(y) /\ Sound(y.cursor)
      /\ y.done = 0 /\ Len(y.rows) = 1
      /\ settled' = settled \cup {y.rows[1].id}
      /\ UNCHANGED <<table, mode, seeded, passed>>
  BY <1>1 DEF Cursors, Readings, ReaderOk, Attempting, Serving, Attempt, Mine, Park
<1>3. c = Base(y, 1)
  BY <1>1 DEF Base
<1>4. Sound(c)
  <2>1. 1 \in 0..Len(y.rows)
    BY <1>2
  <2> QED  BY <1>2, <1>3, <2>1, BaseIsSound
<1>5. PICK x : Reading(x, c) /\ rd' = [q \in Readers |-> IF q = r THEN x ELSE rd[q]]
  BY <1>1, ToReadGives DEF Park
<1>6. sub'.cursor = c /\ sub'.token = sub.token /\ SubShape'
  BY <1>1 DEF Park, SetCursor, Cursors, Subscription, SubShape
<1>7. y.rows[1].id \in Known
  BY <1>2, ElementOfSeq DEF Attempt, Known
<1>8. Stepped(r, x)
  BY <1>2, <1>5, <1>6, <1>7 DEF Stepped, Cursors, Owned
<1>9. ReaderOk(x)
  BY <1>4, <1>5, ReadingIsOk
<1>10. Cleared(c)' => HolderOk(x)'
  BY <1>5, <1>6, ReadingFollows, NoFurtherSame
<1>11. \A k \in 1..1 : y.rows[k].id \in settled' \cup passed \cup deleted
  BY <1>2
<1>12. y.pc \in Attempting \ {"stored"}
  BY <1>2 DEF Attempting
<1>13. 1 \in 0..Len(y.rows)
  BY <1>2
<1>14. y.done <= 1 /\ sub'.cursor = Base(y, 1)
  BY <1>2, <1>3, <1>6
<1>15. Cleared(Base(y, 1))' => HolderOk(x)'
  BY <1>3, <1>10
<1> QED
  BY <1>1, <1>2, <1>8, <1>9, <1>11, <1>12, <1>13, <1>14, <1>15, MoveCursors

\* A call of the handler is about the rows after those that are done.
LEMMA CallFacts ==
    ASSUME NEW r, NEW y, y = rd[r], Attempt(y), y.pc = "handle"
    PROVE  /\ y.done \in 0..Len(y.rows) /\ Upto(r) \in 1..Len(y.rows) /\ y.done < Upto(r)
           /\ Covers(r) \subseteq Known
           /\ \A k \in 1..Upto(r) : k \in 1..y.done \/ y.rows[k].id \in Covers(r)
<1>1. y.done \in 0..Len(y.rows) /\ y.done # Len(y.rows) /\ Len(y.rows) \in Nat \ {0}
  BY DEF Attempt
<1>2. Upto(r) = Len(y.rows) \/ Upto(r) = y.done + 1
  BY DEF Upto
<1>3. Upto(r) \in 1..Len(y.rows) /\ y.done < Upto(r)
  BY <1>1, <1>2
<1>4. Covers(r) = {y.rows[i].id : i \in y.done + 1..Upto(r)}
  BY DEF Covers
<1>5. Covers(r) \subseteq Known
  <2> SUFFICES ASSUME NEW i \in y.done + 1..Upto(r) PROVE y.rows[i].id \in Known
    BY <1>4
  <2>1. i \in 1..Len(y.rows)
    BY <1>1, <1>3
  <2> QED  BY <2>1, ElementOfSeq DEF Attempt, Known
<1>6. ASSUME NEW k \in 1..Upto(r) PROVE k \in 1..y.done \/ y.rows[k].id \in Covers(r)
  <2>1. k \in 1..y.done \/ k \in y.done + 1..Upto(r)
    BY <1>1, <1>3
  <2> QED  BY <1>4, <2>1
<1> QED  BY <1>1, <1>3, <1>5, <1>6

\* The memory of a reader after a call of its handler.
Called(x, y, done) ==
    /\ ReaderOk(x) /\ x.cursor = y.cursor /\ x.rows = y.rows /\ x.cursors = y.cursors
    /\ x.done = done

LEMMA ReturnedGives ==
    ASSUME Cursors, NEW r \in Readers, NEW y, y = rd[r], y.pc = "handle",
           NEW c, NEW l, Returned(r, c, l)
    PROVE  \E x : /\ rd' = [q \in Readers |-> IF q = r THEN x ELSE rd[q]]
                  /\ Called(x, y, Upto(r)) /\ x.pc \in {"settle", "handle"}
<1>1. PICK x : x = rd'[r]
  OBVIOUS
<1>2. /\ rd = [q \in Readers |-> rd[q]] /\ ReaderOk(y) /\ Shape(y)
      /\ Attempt(y) /\ Sound(y.cursor)
  BY DEF Cursors, Readings, ReaderOk, Attempting, Serving
<1>3. Upto(r) \in 0..Len(y.rows)
  <2>1. Upto(r) \in 1..Len(y.rows)
    BY <1>2, CallFacts
  <2> QED  BY <2>1
<1>4. PICK n, u : /\ n = Upto(r) /\ u = IF n = Len(y.rows) THEN "settle" ELSE "handle"
                  /\ rd' = [rd EXCEPT ![r].done = n, ![r].committed = c, ![r].lost = l,
                                      ![r].pc = u]
  BY DEF Returned
<1>5. rd' = [q \in Readers |-> IF q = r THEN x ELSE rd[q]]
  BY <1>1, <1>2, <1>4
<1>6. /\ Shape(x) /\ x.cursor = y.cursor /\ x.rows = y.rows
      /\ x.cursors = y.cursors /\ x.done = n /\ x.pc = u
  BY <1>1, <1>2, <1>4 DEF Shape
<1>7. Attempt(x)
  BY <1>2, <1>3, <1>4, <1>6 DEF Attempt
<1>8. ReaderOk(x)
  BY <1>2, <1>4, <1>6, <1>7 DEF ReaderOk, Serving, Attempting
<1> QED  BY <1>4, <1>5, <1>6, <1>8 DEF Called

LEMMA ThrewGives ==
    ASSUME Cursors, NEW r \in Readers, NEW y, y = rd[r], y.pc = "handle",
           NEW c, NEW l, Threw(r, c, l)
    PROVE  \E x : /\ rd' = [q \in Readers |-> IF q = r THEN x ELSE rd[q]]
                  /\ Called(x, y, y.done) /\ x.pc = IF c = NoCursor THEN "settle" ELSE "stored"
<1>1. PICK x : x = rd'[r]
  OBVIOUS
<1>2. /\ rd = [q \in Readers |-> rd[q]] /\ ReaderOk(y) /\ Shape(y)
  BY DEF Cursors, Readings, ReaderOk
<1>3. PICK u : /\ u = IF c = NoCursor THEN "settle" ELSE "stored"
               /\ rd' = [rd EXCEPT ![r].failed = TRUE, ![r].committed = c, ![r].lost = l,
                                   ![r].pc = u]
  BY DEF Threw
<1>4. rd' = [q \in Readers |-> IF q = r THEN x ELSE rd[q]]
  BY <1>1, <1>2, <1>3
<1>5. /\ Shape(x) /\ x.cursor = y.cursor /\ x.rows = y.rows
      /\ x.cursors = y.cursors /\ x.done = y.done /\ x.pc = u
  BY <1>1, <1>2, <1>3 DEF Shape
<1>6. ReaderOk(x)
  BY <1>2, <1>3, <1>5 DEF ReaderOk, Attempt, Serving, Attempting
<1> QED  BY <1>3, <1>4, <1>5, <1>6 DEF Called

LEMMA HandlerReturnsCursors ==
    ASSUME Cursors, NEW r \in Readers, HandlerReturns(r) PROVE Cursors' /\ Moved
<1>1. PICK y, c, l : y = rd[r] /\ y.pc = "handle" /\ Returned(r, c, l)
  BY DEF HandlerReturns, Calls
<1>2. PICK x : /\ rd' = [q \in Readers |-> IF q = r THEN x ELSE rd[q]]
               /\ Called(x, y, Upto(r)) /\ x.pc \in {"settle", "handle"}
  BY <1>1, ReturnedGives
<1>3. UNCHANGED <<table, sub, mode, seeded, passed>> /\ settled' = settled \cup Covers(r)
  BY DEF HandlerReturns
<1>4. Attempt(y) /\ Sound(y.cursor) /\ (sub.token = r => HolderOk(y))
  BY <1>1 DEF Cursors, Readings, ReaderOk, Attempting, Serving
<1>5. /\ y.done \in 0..Len(y.rows) /\ Upto(r) \in 1..Len(y.rows) /\ y.done < Upto(r)
      /\ Covers(r) \subseteq Known
      /\ \A k \in 1..Upto(r) : k \in 1..y.done \/ y.rows[k].id \in Covers(r)
  BY <1>1, <1>4, CallFacts
<1>6. Stepped(r, x)
  BY <1>2, <1>3, <1>5 DEF Stepped, Cursors, Subscription, SubShape, Owned
<1>7. ASSUME sub.token = r PROVE HolderOk(x)'
  <2>1. HolderOk(y)
    BY <1>4, <1>7
  <2>2. Cleared(y.cursor)'
    BY <1>1, <1>3, <1>4, <2>1, ClearedStays, TableSame
       DEF HolderOk, Serving, Attempting, Cursors, Handled
  <2>3. NoFurther(sub.cursor, Base(x, x.done))
    <3>1. NoFurther(sub.cursor, Base(y, y.done))
      BY <1>1, <2>1 DEF HolderOk, Serving, Attempting, Follows
    <3>2. NoFurther(Base(y, y.done), Base(y, Upto(r)))
      <4>1. Upto(r) \in 0..Len(y.rows) /\ y.done <= Upto(r)
        BY <1>5
      <4> QED  BY <1>4, <1>5, <4>1, BasesInOrder
    <3>3. Base(x, x.done) = Base(y, Upto(r))
      BY <1>2 DEF Called, Base
    <3> QED  BY <3>1, <3>2, <3>3, NoFurtherTwice
  <2>4. ASSUME NEW k \in 1..Upto(r) PROVE y.rows[k].id \in Handled' \cup deleted'
    <3>1. k \in 1..y.done => y.rows[k].id \in Handled \cup deleted
      BY <1>1, <2>1 DEF HolderOk, Serving, Attempting
    <3> QED  BY <1>3, <1>5, <3>1 DEF Handled, table
  <2> QED  BY <1>2, <1>3, <2>2, <2>3, <2>4 DEF Called, HolderOk, Follows, Base
<1> QED  BY <1>2, <1>3, <1>6, <1>7, StepKeepsCursor DEF Called

LEMMA HandlerRefusedCursors ==
    ASSUME Cursors, NEW r \in Readers, HandlerRefused(r) PROVE Cursors' /\ Moved
<1>1. PICK y : y = rd[r] /\ y.pc = "handle" /\ sub.token # r
  BY DEF HandlerRefused, Calls, Mine
<1>2. UNCHANGED <<table, sub, mode, seeded, passed>>
  BY DEF HandlerRefused
<1>3. Attempt(y)
  BY <1>1 DEF Cursors, Readings, ReaderOk, Attempting
<1>4. Covers(r) \subseteq Known
  BY <1>1, <1>3, CallFacts
<1>5. settled \subseteq settled' /\ settled' \subseteq Known
  BY <1>4 DEF HandlerRefused, Cursors, Owned
<1>6. \E x : ReaderOk(x) /\ rd' = [q \in Readers |-> IF q = r THEN x ELSE rd[q]]
  <2>1. CASE Threw(r, rd[r].committed, TRUE)
    <3>1. PICK c, l : Threw(r, c, l)
      BY <2>1
    <3>2. PICK x : rd' = [q \in Readers |-> IF q = r THEN x ELSE rd[q]] /\ Called(x, y, y.done)
      BY <1>1, <3>1, ThrewGives
    <3> QED  BY <3>2 DEF Called
  <2>2. CASE Returned(r, rd[r].committed, TRUE)
    <3>1. PICK c, l : Returned(r, c, l)
      BY <2>2
    <3>2. PICK x : rd' = [q \in Readers |-> IF q = r THEN x ELSE rd[q]] /\ Called(x, y, Upto(r))
      BY <1>1, <3>1, ReturnedGives
    <3> QED  BY <3>2 DEF Called
  <2> QED  BY <2>1, <2>2 DEF HandlerRefused
<1>7. PICK x : ReaderOk(x) /\ rd' = [q \in Readers |-> IF q = r THEN x ELSE rd[q]]
  BY <1>6
<1>8. Stepped(r, x)
  BY <1>2, <1>5, <1>7 DEF Stepped, Cursors, Subscription, SubShape
<1> QED  BY <1>1, <1>2, <1>7, <1>8, StepKeepsCursor

LEMMA NotNoCursor ==
    ASSUME Table, NEW x, Attempt(x), NEW i \in 1..Len(x.rows) PROVE x.cursors[i] # NoCursor
<1>1. x.rows[1] \in Entry
  BY ElementOfSeq DEF Attempt, Table
<1>2. MaxEntries # 0
  BY <1>1, EventsAssumption DEF Entry, Ids
<1>3. Sound(x.cursors[i])
  BY DEF Attempt, Served
<1> QED  BY <1>2, <1>3, EventsAssumption DEF Sound, NoCursor, Xids

LEMMA HandlerCommitsCursors ==
    ASSUME Cursors, NEW r \in Readers, HandlerCommits(r) PROVE Cursors' /\ Moved
<1>1. PICK y : y = rd[r] /\ y.pc = "handle" /\ Mine(r)
  BY DEF HandlerCommits, Calls
<1>2. Attempt(y) /\ Sound(y.cursor) /\ HolderOk(y)
  BY <1>1 DEF Cursors, Readings, ReaderOk, Attempting, Serving, Mine
<1>3. /\ y.done \in 0..Len(y.rows) /\ Upto(r) \in 1..Len(y.rows) /\ y.done < Upto(r)
      /\ Covers(r) \subseteq Known
      /\ \A k \in 1..Upto(r) : k \in 1..y.done \/ y.rows[k].id \in Covers(r)
  BY <1>1, <1>2, CallFacts
<1>4. UNCHANGED <<table, mode, seeded, passed>> /\ settled' = settled \cup Covers(r)
  BY DEF HandlerCommits
<1>5. PICK n, c : n = Upto(r) /\ n \in 1..Len(y.rows) /\ c = y.cursors[n] /\ c = CallCursor(r)
  BY <1>1, <1>3 DEF CallCursor
<1>6. sub'.cursor = c /\ sub'.token = sub.token /\ SubShape'
  BY <1>5 DEF HandlerCommits, SetCursor, Cursors, Subscription, SubShape
<1>7. c # NoCursor
  BY <1>2, <1>5, NotNoCursor DEF Cursors
<1>8. n \in 0..Len(y.rows) /\ y.done <= n /\ n # 0 /\ c = Base(y, n)
  BY <1>3, <1>5 DEF Base
<1>9. Cleared(y.cursor)'
  BY <1>1, <1>2, <1>4, ClearedStays, TableSame
     DEF HolderOk, Serving, Attempting, Cursors, Handled
<1>10. ASSUME NEW k \in 1..n PROVE y.rows[k].id \in settled' \cup passed \cup deleted
  <2>1. k \in 1..y.done => y.rows[k].id \in Handled \cup deleted
    BY <1>1, <1>2 DEF HolderOk, Serving, Attempting
  <2> QED  BY <1>3, <1>4, <1>5, <2>1 DEF Handled
<1>11. y.pc \in Attempting \ {"stored"}
  BY <1>1 DEF Attempting
<1>12. CASE Returned(r, CallCursor(r), rd[r].lost)
  <2>1. PICK l : Returned(r, c, l)
    BY <1>5, <1>12
  <2>2. PICK x : /\ rd' = [q \in Readers |-> IF q = r THEN x ELSE rd[q]]
                 /\ Called(x, y, n) /\ x.pc \in {"settle", "handle"}
    BY <1>1, <1>5, <2>1, ReturnedGives
  <2>3. ReaderOk(x)
    BY <2>2 DEF Called
  <2>4. Stepped(r, x)
    BY <1>3, <1>4, <1>6, <2>2 DEF Stepped, Cursors, Owned
  <2>5. Follows(x)'
    <3>1. Base(x, x.done) = c
      BY <1>8, <2>2 DEF Called, Base
    <3> QED  BY <1>6, <3>1, NoFurtherSame DEF Follows
  <2>6. HolderOk(x)'
    BY <1>4, <1>9, <1>10, <2>2, <2>5 DEF HolderOk, Called, Handled, table
  <2>7. Cleared(Base(y, n))' => HolderOk(x)'
    BY <2>6
  <2>8. sub'.cursor = Base(y, n)
    BY <1>6, <1>8
  <2> QED  BY <1>1, <1>2, <1>8, <1>10, <1>11, <2>3, <2>4, <2>7, <2>8, MoveCursors
<1>13. CASE Threw(r, CallCursor(r), rd[r].lost)
  <2>1. PICK l : Threw(r, c, l)
    BY <1>5, <1>13
  <2>2. PICK x : /\ rd' = [q \in Readers |-> IF q = r THEN x ELSE rd[q]]
                 /\ Called(x, y, y.done) /\ x.pc = IF c = NoCursor THEN "settle" ELSE "stored"
    BY <1>1, <2>1, ThrewGives
  <2>3. ReaderOk(x)
    BY <2>2 DEF Called
  <2>4. Stepped(r, x)
    BY <1>3, <1>4, <1>6, <2>2 DEF Stepped, Cursors, Owned
  <2>5. Follows(x)'
    BY <1>5, <1>6, <1>7, <2>2 DEF Follows, Called
  <2>6. HolderOk(x)'
    <3>1. \A k \in 1..y.done : y.rows[k].id \in settled' \cup passed \cup deleted
      BY <1>3, <1>5, <1>10
    <3> QED  BY <1>4, <1>9, <2>2, <2>5, <3>1 DEF HolderOk, Called, Handled, table
  <2>7. Cleared(Base(y, n))' => HolderOk(x)'
    BY <2>6
  <2>8. sub'.cursor = Base(y, n)
    BY <1>6, <1>8
  <2> QED  BY <1>1, <1>2, <1>8, <1>10, <1>11, <2>3, <2>4, <2>7, <2>8, MoveCursors
<1> QED  BY <1>12, <1>13 DEF HandlerCommits

LEMMA StoredCursors ==
    ASSUME Cursors, NEW r \in Readers, Stored(r) PROVE Cursors' /\ Moved
<1>1. PICK y, x : y = rd[r] /\ x = rd'[r]
  OBVIOUS
<1>2. /\ rd = [q \in Readers |-> rd[q]] /\ ReaderOk(y) /\ Shape(y) /\ y.pc = "stored" /\ Mine(r)
      /\ Attempt(y) /\ Sound(y.cursor) /\ HolderOk(y)
      /\ UNCHANGED <<table, mode, seeded, settled, passed, sub>>
  BY <1>1 DEF Cursors, Readings, ReaderOk, Attempting, Serving, Mine, Stored, ghosts
<1>3. PICK at, n : /\ at = {i \in 1..Len(y.rows) : y.cursors[i] = sub.cursor}
                   /\ n = Max(at \cup {y.done})
                   /\ rd' = [rd EXCEPT ![r].pc = "settle", ![r].committed = sub.cursor,
                                       ![r].done = n]
  <2>1. DOMAIN y.cursors = 1..Len(y.rows)
    BY <1>2 DEF Attempt
  <2> QED  BY <1>1, <2>1 DEF Stored
<1>4. n \in at \cup {y.done} /\ \A i \in at \cup {y.done} : i <= n
  <2>1. at \cup {y.done} \subseteq 0..Len(y.rows) /\ at \cup {y.done} # {} /\ Len(y.rows) \in Nat
    BY <1>2, <1>3 DEF Attempt
  <2>2. \E m \in at \cup {y.done} : \A i \in at \cup {y.done} : m >= i
    BY <2>1, GreatestNat
  <2> QED  BY <1>3, <2>1, <2>2 DEF Max
<1>5. n \in 0..Len(y.rows) /\ y.done \in 0..Len(y.rows) /\ y.done <= n
  BY <1>2, <1>3, <1>4 DEF Attempt
<1>6. rd' = [q \in Readers |-> IF q = r THEN x ELSE rd[q]]
  BY <1>1, <1>2, <1>3
<1>7. /\ Shape(x) /\ x.cursor = y.cursor /\ x.rows = y.rows
      /\ x.cursors = y.cursors /\ x.done = n /\ x.pc = "settle"
  BY <1>1, <1>2, <1>3 DEF Shape
<1>8. ReaderOk(x)
  BY <1>2, <1>5, <1>7 DEF ReaderOk, Attempt, Serving, Attempting
<1>9. NoFurther(sub.cursor, Base(x, n))
  <2>1. Base(x, n) = Base(y, n)
    BY <1>7 DEF Base
  <2>2. CASE NoFurther(sub.cursor, Base(y, y.done))
    BY <1>2, <1>5, <2>1, <2>2, BasesInOrder, NoFurtherTwice
  <2>3. ASSUME NEW u \in 1..Len(y.rows), sub.cursor = y.cursors[u]
        PROVE  NoFurther(sub.cursor, Base(x, n))
    <3>1. u <= n /\ u \in 0..Len(y.rows)
      BY <1>3, <1>4, <2>3
    <3>2. sub.cursor = Base(y, u)
      BY <2>3 DEF Base
    <3> QED  BY <1>2, <1>5, <2>1, <3>1, <3>2, BasesInOrder
  <2> QED  BY <1>2, <2>2, <2>3 DEF HolderOk, Serving, Attempting, Follows
<1>10. ASSUME NEW k \in 1..n PROVE y.rows[k].id \in Handled \cup deleted
  <2>1. CASE n = y.done
    BY <1>2, <2>1 DEF HolderOk, Serving, Attempting
  <2>2. CASE n \in at
    <3>1. k \in 1..Len(y.rows) /\ n \in 1..Len(y.rows) /\ k <= n
      BY <1>3, <1>5, <2>2
    <3>2. Past(sub.cursor, y.rows[k])
      BY <1>2, <1>3, <2>2, <3>1 DEF Attempt, Served
    <3>3. y.rows[k] \in entries /\ y.rows[k].wanted /\ tx[y.rows[k].xid] = "committed"
      BY <1>2, <3>1, ElementOfSeq DEF Attempt
    <3> QED  BY <3>2, <3>3 DEF Cursors, Subscription, Cleared, Excused
  <2> QED  BY <1>4, <2>1, <2>2
<1>11. HolderOk(x)
  BY <1>2, <1>7, <1>9, <1>10 DEF HolderOk, Serving, Attempting, Follows
<1> QED  BY <1>2, <1>6, <1>8, <1>11, OwnStep

LEMMA SettleCursors ==
    ASSUME Cursors, NEW r \in Readers, Settle(r) PROVE Cursors' /\ Moved
<1>1. PICK y, c : y = rd[r] /\ c = Base(y, y.done)
  OBVIOUS
<1>2. /\ ReaderOk(y) /\ y.pc = "settle" /\ Attempt(y) /\ Sound(y.cursor)
      /\ (sub.token = r => HolderOk(y)) /\ UNCHANGED <<table, mode, seeded, settled, passed>>
  BY <1>1 DEF Cursors, Readings, ReaderOk, Attempting, Serving, Settle, ghosts
<1>3. Sound(c) /\ y.done \in 0..Len(y.rows)
  BY <1>1, <1>2, BaseIsSound DEF Attempt
<1>4. ASSUME sub.token = r
      PROVE  /\ NoFurther(sub.cursor, c)
             /\ \A f \in entries : Past(c, f) => Excused(f) \/ f.id \in Handled
             /\ \A k \in 1..y.done : y.rows[k].id \in Handled \cup deleted
  <2>1. Cleared(y.cursor) /\ NoFurther(sub.cursor, c)
        /\ \A k \in 1..y.done : y.rows[k].id \in Handled \cup deleted
    BY <1>1, <1>2, <1>4 DEF HolderOk, Serving, Attempting, Follows
  <2> QED  BY <1>1, <1>2, <1>3, <2>1, BaseIsCleared
<1>5. ASSUME sub.token = r PROVE Cleared(c)'
  BY <1>2, <1>4, <1>5 DEF Cleared, Past, Ahead, Before, Excused, Handled, table
<1>6. CASE GoesIdle(r) /\ UNCHANGED sub
  BY <1>2, <1>6, IdleStep
<1>7. ASSUME NEW i, ToRead(r, c, i), UNCHANGED sub PROVE Cursors' /\ Moved
  <2>1. PICK x : Reading(x, c) /\ rd' = [q \in Readers |-> IF q = r THEN x ELSE rd[q]]
    BY <1>7, ToReadGives
  <2>2. Stepped(r, x)
    BY <1>2, <1>7, <2>1 DEF Stepped, Cursors, Subscription, SubShape, Owned
  <2>3. ReaderOk(x)
    BY <1>3, <2>1, ReadingIsOk
  <2>4. sub'.token = r => HolderOk(x)'
    BY <1>4, <1>5, <1>7, <2>1, ReadingFollows
  <2> QED  BY <1>7, <2>2, <2>3, <2>4, StepKeepsCursor
<1>8. CASE Mine(r) /\ sub' = SetCursor(c)
  <2>1. sub'.cursor = c /\ sub'.token = sub.token /\ SubShape' /\ sub.token = r
    BY <1>8 DEF SetCursor, Cursors, Subscription, SubShape, Mine
  <2>2. \A f \in entries : Past(c, f) => Excused(f) \/ f.id \in settled' \cup passed
    BY <1>2, <1>4, <2>1 DEF Handled
  <2>3. ASSUME NEW x, ReaderOk(x), HolderOk(x)',
               rd' = [q \in Readers |-> IF q = r THEN x ELSE rd[q]]
        PROVE  Cursors' /\ Moved
    <3>1. Stepped(r, x)
      BY <1>2, <2>1, <2>3 DEF Stepped, Cursors, Owned
    <3> QED  BY <1>3, <1>4, <1>8, <2>1, <2>2, <2>3, <3>1, StepMovesCursor
  <2>4. CASE GoesIdle(r)
    <3>1. rd' = [q \in Readers |-> IF q = r THEN Fresh ELSE rd[q]]
      BY <2>4 DEF GoesIdle, Cursors, Readings
    <3> QED  BY <2>3, <3>1, FreshIsOk
  <2>5. ASSUME NEW i, ToRead(r, c, i) PROVE Cursors' /\ Moved
    <3>1. PICK x : Reading(x, c) /\ rd' = [q \in Readers |-> IF q = r THEN x ELSE rd[q]]
      BY <2>5, ToReadGives
    <3>2. ReaderOk(x)
      BY <1>3, <3>1, ReadingIsOk
    <3>3. HolderOk(x)'
      BY <1>5, <2>1, <3>1, ReadingFollows, NoFurtherSame
    <3> QED  BY <2>3, <3>1, <3>2, <3>3
  <2>6. GoesIdle(r) \/ \E i : ToRead(r, c, i)
    BY <1>1, <1>8 DEF Settle, Base
  <2> QED  BY <2>4, <2>5, <2>6
<1>9. \/ GoesIdle(r) /\ UNCHANGED sub
      \/ \E i : ToRead(r, c, i) /\ UNCHANGED sub
      \/ Mine(r) /\ sub' = SetCursor(c)
  BY <1>1 DEF Settle, Base
<1> QED  BY <1>6, <1>7, <1>8, <1>9

-----------------------------------------------------------------------------
(* Administration.                                                         *)

LEMMA ResetCursors ==
    ASSUME Cursors, NEW c, NEW over, Reset(c, over), Sound(c), over \subseteq Known,
           deleted \subseteq over,
           \A f \in entries : Past(c, f) => Excused(f) \/ f.id \in over
    PROVE  Cursors'
<1> USE DEF Cursors
<1>1. UNCHANGED <<table, rd>> /\ settled' = {} /\ passed' = over /\ seeded' = NotSeeded
  BY DEF Reset
<1>2. sub'.cursor = c /\ sub'.token = NoReader /\ SubShape'
  BY DEF Reset, SetCursor, Subscription, SubShape
<1>3. Table'
  BY <1>1 DEF Table, table
<1>4. Owned' /\ Kept' /\ Seeding'
  BY <1>1 DEF Owned, Kept, Seeding, Known, Handled, NotSeeded, table
<1>5. Subscription'
  <2>1. Sound(c)'
    BY <1>1, SoundStays, TableSame DEF Grows
  <2>2. Cleared(c)'
    BY <1>1 DEF Cleared, Excused, Handled, Past, Ahead, Before, table
  <2> QED  BY <1>2, <2>1, <2>2 DEF Subscription
<1>6. Readings'
  <2>1. ASSUME NEW r \in Readers PROVE ReaderOk(rd[r])'
    <3>1. PICK x : x = rd[r]
      OBVIOUS
    <3>2. ReaderOk(x)'
      BY <1>1, <3>1, ReaderStays, TableSame DEF Readings
    <3>3. rd'[r] = x
      BY <1>1, <3>1
    <3> QED  BY <3>2, <3>3
  <2> QED  BY <1>1, <1>2, <2>1, NoReaderAssumption DEF Readings
<1> QED  BY <1>3, <1>4, <1>5, <1>6

LEMMA ResetToBeginningCursors ==
    ASSUME Cursors, ResetToBeginning PROVE Cursors'
<1>1. \A f \in entries : Ahead(BEGINNING, f)
  BY BeginningIsSound DEF Cursors, Table
<1> QED  BY <1>1, BeginningIsSound, ResetCursors DEF ResetToBeginning, Cursors, Owned, Past

LEMMA ResetToNowCursors ==
    ASSUME Cursors, ResetToNow PROVE Cursors'
<1>1. PICK c, over : c = seeded.cursor /\ over = seeded.over \cup deleted
  OBVIOUS
<1>2. Sound(c) /\ \A f \in entries : Past(c, f) => f.id \in over \/ Excused(f)
  BY <1>1 DEF ResetToNow, Cursors, Seeding, Excused
<1>3. over \subseteq Known
  BY <1>1 DEF Cursors, Owned
<1> QED  BY <1>1, <1>2, <1>3, ResetCursors DEF ResetToNow

LEMMA SeedNowCursors ==
    ASSUME Cursors, SeedNow PROVE Cursors' /\ Moved
<1> USE DEF Cursors
<1>1. UNCHANGED <<table, sub, rd, settled, passed>> /\ Resets
  BY DEF SeedNow, ghosts
<1>2. Table' /\ Kept' /\ Handled \subseteq Handled'
  BY <1>1 DEF Table, Kept, Handled, table
<1>3. PICK s : s = seed
  OBVIOUS
<1>4. seeded' = [cursor |-> s, over |-> {e.id : e \in Visible}] /\ Sound(s)
  BY <1>3, SeedIsSound DEF SeedNow
<1>5. Owned'
  BY <1>1, <1>4 DEF Owned, Known, Visible, table
<1>6. Seeding'
  <2>1. Sound(s)'
    BY <1>1, <1>4, SoundStays, TableSame DEF Grows
  <2>2. ASSUME NEW f \in entries', Past(s, f)
        PROVE  f.id \in {e.id : e \in Visible} \cup deleted \/ tx[f.xid] = "aborted"
    <3>1. f \in entries /\ f \in Entry
      BY <1>1 DEF table, Table
    <3>2. f.xid \in Ended
      BY <1>4, <2>2, <3>1, OpenIsAhead DEF Past
    <3> QED  BY <3>1, <3>2 DEF Ended, Visible
  <2>3. \A f : Past(s, f)' <=> Past(s, f)
    BY DEF Past, Ahead, Before
  <2> QED  BY <1>1, <1>4, <2>1, <2>2, <2>3 DEF Seeding, table
<1>7. Subscription'
  BY <1>1, <1>2, SubscriptionStays DEF Subscription, SubShape
<1>8. Readings'
  BY <1>1, <1>2, OtherReader DEF Readings
<1>9. Moved
  BY <1>1, NoFurtherSame DEF Moved
<1> QED  BY <1>2, <1>5, <1>6, <1>7, <1>8, <1>9

-----------------------------------------------------------------------------
(* The theorems.                                                           *)

ReaderNext(r) == Lease(r) \/ Serve(r) \/ Heartbeat(r) \/ Crash(r) \/ Leave(r)

\* What a reader does, the end of a lease, and what only adds to the memory of
\* an administrator moves the subscription forward or not at all.
LEMMA ReaderMoves ==
    ASSUME Cursors, NEW r \in Readers, ReaderNext(r) PROVE Cursors' /\ Moved
<1>1. CASE Serve(r)
  BY <1>1, ReadCursors, SkipCursors, MarkCursors, ParkCursors, LostCursors,
     HandlerReturnsCursors, HandlerThrowsCursors, HandlerCommitsCursors,
     HandlerRefusedCursors, CutShortCursors, StoredCursors, SettleCursors, ReleaseCursors
     DEF Serve
<1> QED
  BY <1>1, LeaseCursors, HeartbeatCursors, CrashCursors, LeaveCursors DEF ReaderNext

LEMMA LeaseLapses ==
    ASSUME Cursors, LapseUnheld \/ LapseStalled PROVE Cursors' /\ Moved
  BY LapsesCursors DEF LapseUnheld, LapseStalled

LEMMA StillCursors == ASSUME Cursors, UNCHANGED vars PROVE Cursors'
  BY QuietStep DEF vars, table, Cursors, Subscription, SubShape

LEMMA NextCursors == ASSUME Cursors, [Next]_vars PROVE Cursors'
<1>1. CASE Publishers
  BY <1>1, BeginCursors, PublishCursors, EndCursors DEF Publishers
<1>2. ASSUME NEW r \in Readers, ReaderNext(r) PROVE Cursors'
  BY <1>2, ReaderMoves
<1>3. CASE LapseUnheld \/ LapseStalled
  BY <1>3, LeaseLapses
<1>4. CASE Admin
  BY <1>4, ResetToBeginningCursors, SeedNowCursors, ResetToNowCursors, DiscardCursors,
     RetainCursors DEF Admin
<1>5. CASE UNCHANGED vars
  BY <1>5, StillCursors
<1> QED  BY <1>1, <1>2, <1>3, <1>4, <1>5 DEF Next, ReaderNext

\* In every reachable state every cursor is sound and past handled entries
\* only, the stored one and those of the readers: whatever order transactions
\* commit in, readers fail and leases change hands in.
THEOREM CursorsHold == Spec => []Cursors
<1>1. Init => Cursors
  BY InitCursors
<1>2. Cursors /\ [Next]_vars => Cursors'
  BY NextCursors
<1> QED  BY <1>1, <1>2, PTL DEF Spec

\* No entry is skipped: it is ahead of the stored cursor, or handled or parked,
\* or an administrator stepped over it, or retention deleted it, which a topic
\* that keeps entries until they are consumed excludes.
THEOREM NothingSkippedHolds == Spec => []NothingSkipped
<1>1. ASSUME Cursors PROVE NothingSkipped
  <2> SUFFICES ASSUME NEW e \in entries
               PROVE  /\ tx[e.xid] = "running" => Ahead(sub.cursor, e)
                      /\ tx[e.xid] = "committed" /\ e.wanted /\ e.id \notin settled \cup passed
                         => /\ e.id \notin deleted => Ahead(sub.cursor, e)
                            /\ KeepUntilConsumed => e.id \notin deleted
    BY DEF NothingSkipped
  <2> USE <1>1 DEF Cursors
  <2>1. tx[e.xid] = "running" => Ahead(sub.cursor, e)
    BY OpenIsAhead DEF Table, Ended, Subscription
  <2>2. Past(sub.cursor, e) => Excused(e) \/ e.id \in Handled
    BY DEF Subscription, Cleared
  <2>3. KeepUntilConsumed /\ e.wanted /\ e.id \in deleted => e.id \in Handled
    BY DEF Kept
  <2> QED  BY <2>1, <2>2, <2>3 DEF Excused, Handled, Past
<1> QED  BY <1>1, CursorsHold, PTL

-----------------------------------------------------------------------------
(* The refinement of EventStream, step by step.                            *)

Consumed == {e \in Visible : ~Ahead(sub.cursor, e)}
Settled == {e \in entries : e.id \in settled \cup passed}

LEMMA StepDelivers ==
    ASSUME Cursors, Cursors', Moved PROVE Stream!Deliver
<1>1. Visible' = Visible /\ entries' = entries /\ passed' = passed /\ settled \subseteq settled'
  BY DEF Moved, Visible, table
<1>2. Visible \subseteq Entry /\ entries \subseteq Entry /\ Visible \subseteq entries
  BY DEF Cursors, Table, Visible
<1>3. \A e \in Visible : e \in Consumed => e \in Consumed'
  BY <1>1, <1>2 DEF Moved, Consumed, NoFurther, Past, Ahead, Before
<1>4. ASSUME NEW e \in Consumed', NEW f \in Visible, f.xid = e.xid, f.id < e.id
      PROVE  f \in Consumed'
  <2>1. PICK c : c = sub'.cursor
    OBVIOUS
  <2>2. c \in Cursor
    BY <2>1 DEF Cursors, Subscription, Sound
  <2>3. e \in Visible /\ Past(c, e)
    BY <1>1, <2>1 DEF Consumed, Past, Ahead, Before
  <2>4. Past(c, f)
    BY <1>2, <1>4, <2>2, <2>3, PastInOrder
  <2> QED  BY <1>1, <2>1, <2>4 DEF Consumed, Past, Ahead, Before
<1>5. ASSUME NEW e \in Consumed', e.wanted PROVE e \in Settled'
  <2>1. e \in entries' /\ e.id \notin deleted' /\ tx'[e.xid] = "committed" /\ Past(sub.cursor, e)'
    BY <1>1, <1>2 DEF Consumed, Visible, Past
  <2>2. Excused(e)' \/ e.id \in Handled'
    BY <2>1 DEF Cursors, Subscription, Cleared
  <2> QED  BY <1>5, <2>1, <2>2 DEF Excused, Handled, Settled
<1>6. Settled \subseteq Settled' /\ Settled' \subseteq Entry
  BY <1>1, <1>2 DEF Settled
<1>7. Consumed \subseteq Consumed' /\ Consumed' \subseteq Visible
  BY <1>1, <1>3 DEF Consumed
<1>8. \A e \in Consumed' \ Consumed, f \in Visible :
          f.xid = e.xid /\ f.id < e.id => f \in Consumed \cup (Consumed' \ Consumed)
  BY <1>4
<1> QED
  BY <1>1, <1>5, <1>6, <1>7, <1>8 DEF Stream!Deliver, Stream!InOrder, Consumed, Settled

LEMMA CommitAppends ==
    ASSUME Cursors, Cursors', NEW x \in Xids, NEW how \in {"committed", "aborted"}, End(x, how)
    PROVE  Stream!Append
<1>1. /\ tx' = [tx EXCEPT ![x] = how] /\ tx[x] = "running" /\ tx \in [Xids -> States]
      /\ entries' = entries /\ deleted' = deleted /\ sub' = sub
      /\ settled' = settled /\ passed' = passed /\ entries \subseteq Entry
  BY DEF End, Cursors, Table, ghosts
<1>2. \A e \in entries : e.xid \in Xids /\ tx'[e.xid] = IF e.xid = x THEN how ELSE tx[e.xid]
  BY <1>1 DEF Entry
<1>3. Visible \subseteq Visible' /\ \A e \in Visible' \ Visible : e.xid = x
  BY <1>1, <1>2 DEF Visible
<1>4. Visible' \subseteq Entry
  BY <1>1 DEF Visible
<1>5. \A e \in Visible' \ Visible : Ahead(sub.cursor, e)
  BY <1>1, <1>3, <1>4, OpenIsAhead DEF Ended, Cursors, Subscription
<1>6. Consumed' = Consumed
  <2>1. \A e : Ahead(sub.cursor, e)' <=> Ahead(sub.cursor, e)
    BY <1>1 DEF Ahead, Before
  <2> QED  BY <1>3, <1>5, <2>1 DEF Consumed
<1>7. Settled' = Settled
  BY <1>1 DEF Settled
<1> QED  BY <1>3, <1>4, <1>6, <1>7 DEF Stream!Append, Consumed, Settled

LEMMA SameStream ==
    ASSUME Visible' = Visible, sub' = sub, Settled' = Settled
    PROVE  UNCHANGED Stream!streamVars
<1>1. \A e : Ahead(sub.cursor, e)' <=> Ahead(sub.cursor, e)
  BY DEF Ahead, Before
<1>2. Consumed' = Consumed
  BY <1>1 DEF Consumed
<1> QED  BY <1>2 DEF Stream!streamVars, Consumed, Settled

LEMMA BeginStutters ==
    ASSUME Cursors, NEW x \in Xids, Begin(x) PROVE UNCHANGED Stream!streamVars
<1>1. /\ tx' = [tx EXCEPT ![x] = "running"] /\ tx[x] = "new" /\ tx \in [Xids -> States]
      /\ entries' = entries /\ deleted' = deleted /\ sub' = sub
      /\ settled' = settled /\ passed' = passed /\ entries \subseteq Entry
  BY DEF Begin, Cursors, Table, ghosts
<1>2. \A e \in entries : e.xid \in Xids /\ tx'[e.xid] = IF e.xid = x THEN "running" ELSE tx[e.xid]
  BY <1>1 DEF Entry
<1>3. Visible' = Visible
  BY <1>1, <1>2 DEF Visible
<1>4. Settled' = Settled
  BY <1>1 DEF Settled
<1> QED  BY <1>1, <1>3, <1>4, SameStream

LEMMA PublishStutters ==
    ASSUME Cursors, NEW x \in Xids, Publish(x) PROVE UNCHANGED Stream!streamVars
<1>0. PICK id, new : /\ id = Cardinality(entries) + 1
                     /\ new = [id |-> id, xid |-> x, wanted |-> id \notin Unwanted]
  OBVIOUS
<1>1. /\ id = Cardinality(entries) + 1 /\ new.id = id /\ new.xid = x
      /\ entries' = entries \cup {new} /\ tx[x] = "running"
  BY <1>0 DEF Publish
<1>2. /\ UNCHANGED <<tx, deleted, sub, settled, passed>> /\ settled \cup passed \subseteq Known
  BY DEF Publish, Cursors, Owned, ghosts
<1>3. Cardinality(entries) \in Nat
  BY FS_CardinalityType DEF Cursors, Table
<1>4. \A e \in entries : e.id \in Int /\ e.id < id
  BY <1>1, <1>3, EventsAssumption DEF Cursors, Table, Entry, Ids
<1>5. id \notin Known
  BY <1>1, <1>3, <1>4 DEF Known
<1>6. Visible' = Visible
  BY <1>1, <1>2 DEF Visible
<1>7. Settled' = Settled
  BY <1>1, <1>2, <1>5 DEF Settled
<1> QED  BY <1>2, <1>6, <1>7, SameStream

LEMMA RetainForgets ==
    ASSUME Cursors, NEW k, Retain(k) PROVE Stream!Forget
<1> DEFINE old == {e \in Visible : e.id <= k /\ e.id \notin parked}
           unread == {e \in old : Before(sub.cursor, e) \/ sub.cursor.pending[e.xid] # NotPending}
<1>1. PICK gone : /\ gone = IF KeepUntilConsumed THEN old \ unread ELSE old
                  /\ deleted' = deleted \cup {e.id : e \in gone}
  BY DEF Retain
<1>2. UNCHANGED <<tx, entries, sub, settled, passed>>
  BY DEF Retain, ghosts
<1>3. Visible' = {e \in Visible : e.id \notin {g.id : g \in gone}}
  BY <1>1, <1>2 DEF Visible
<1>4. gone \subseteq Visible /\ Visible \subseteq entries
  BY <1>1 DEF Visible
<1>5. Visible \ Visible' \subseteq gone
  BY <1>3, <1>4 DEF Cursors, Table
<1>6. KeepUntilConsumed => gone \subseteq Consumed
  BY <1>1 DEF Consumed, Ahead
<1>7. Consumed' = Consumed \cap Visible'
  <2>1. \A e : Ahead(sub.cursor, e)' <=> Ahead(sub.cursor, e)
    BY <1>2 DEF Ahead, Before
  <2> QED  BY <1>3, <2>1 DEF Consumed
<1>8. Settled' = Settled
  BY <1>2 DEF Settled
<1> QED  BY <1>3, <1>5, <1>6, <1>7, <1>8 DEF Stream!Forget, Consumed, Settled

LEMMA ResetRewinds ==
    ASSUME Cursors, ResetToBeginning \/ ResetToNow PROVE Stream!Rewind
<1>1. Resets /\ UNCHANGED table
  <2>1. CASE ResetToBeginning
    BY <2>1 DEF ResetToBeginning, Reset
  <2>2. CASE ResetToNow
    BY <2>2 DEF ResetToNow, Reset, Cursors, Seeding
  <2> QED  BY <2>1, <2>2
<1>2. Visible' = Visible /\ entries' = entries /\ entries \subseteq Entry
  BY <1>1 DEF Visible, table, Cursors, Table
<1>3. Consumed' \subseteq Visible /\ Settled' \subseteq Entry
  BY <1>2 DEF Consumed, Settled
<1> QED  BY <1>1, <1>2, <1>3 DEF Stream!Rewind, Consumed, Settled

LEMMA InitIsStream == Init => Stream!StreamInit
  BY DEF Init, Stream!StreamInit, Visible

\* Each step of the log and of its readers is a step of the stream or stutters.
LEMMA StepIsStream ==
    ASSUME Cursors, Cursors', [Next]_vars
    PROVE  [Stream!StreamNext]_(Stream!streamVars)
<1> USE DEF Stream!StreamNext
<1>1. CASE Publishers
  <2>1. ASSUME NEW x \in Xids, Begin(x) PROVE UNCHANGED Stream!streamVars
    BY <2>1, BeginStutters
  <2>2. ASSUME NEW x \in Xids, Publish(x) PROVE UNCHANGED Stream!streamVars
    BY <2>2, PublishStutters
  <2>3. ASSUME NEW x \in Xids, NEW how \in {"committed", "aborted"}, End(x, how)
        PROVE  Stream!Append
    BY <2>3, CommitAppends
  <2> QED  BY <1>1, <2>1, <2>2, <2>3 DEF Publishers
<1>2. ASSUME NEW r \in Readers, ReaderNext(r) PROVE Stream!Deliver
  BY <1>2, ReaderMoves, StepDelivers
<1>3. CASE LapseUnheld \/ LapseStalled
  BY <1>3, LeaseLapses, StepDelivers
<1>4. CASE Admin
  <2>1. CASE ResetToBeginning \/ ResetToNow
    BY <2>1, ResetRewinds
  <2>2. CASE SeedNow
    BY <2>2, SeedNowCursors, StepDelivers
  <2>3. ASSUME NEW i \in Ids, Discard(i) PROVE Stream!Deliver
    BY <2>3, DiscardCursors, StepDelivers
  <2>4. ASSUME NEW i \in Ids, Retain(i) PROVE Stream!Forget
    BY <2>4, RetainForgets
  <2> QED  BY <1>4, <2>1, <2>2, <2>3, <2>4 DEF Admin
<1>5. CASE UNCHANGED vars
  <2>1. Visible' = Visible /\ sub' = sub /\ Settled' = Settled
    BY <1>5 DEF vars, Visible, Settled
  <2> QED  BY <2>1, SameStream
<1> QED  BY <1>1, <1>2, <1>3, <1>4, <1>5 DEF Next, ReaderNext

\* The log with its cursors, leases and readers implements the stream: entries
\* of late transactions are delivered, the subscription goes forward, in order
\* within a transaction and past settled entries only, whoever writes its cursor.
THEOREM StreamImplemented == Spec => ImplementsStream
<1>1. Init => Stream!StreamInit
  BY InitIsStream
<1>2. Cursors /\ Cursors' /\ [Next]_vars => [Stream!StreamNext]_(Stream!streamVars)
  BY StepIsStream
<1> QED  BY <1>1, <1>2, CursorsHold, PTL DEF Spec, ImplementsStream, Stream!StreamSpec

-----------------------------------------------------------------------------
(* An entry is acknowledged by one transaction.                            *)

\* The stored cursor is past every entry that a transaction acknowledged.
Applied ==
    /\ applied \in [Ids -> {0, 1}]
    /\ \A i \in Ids : applied[i] = 1 => \E e \in entries : e.id = i /\ Past(sub.cursor, e)

LEMMA AppliedStays ==
    ASSUME Cursors, Applied, applied' = applied, entries \subseteq entries',
           NoFurther(sub.cursor, sub'.cursor)
    PROVE  Applied'
<1>1. \A e \in entries : Past(sub.cursor, e) => Past(sub.cursor, e)'
  BY DEF Cursors, Table, NoFurther, Past, Ahead, Before
<1> QED  BY <1>1 DEF Applied

LEMMA CommitApplies ==
    ASSUME Cursors, Applied, NEW r \in Readers, HandlerCommits(r) PROVE Applied'
<1>1. PICK y : y = rd[r] /\ y.pc = "handle" /\ Mine(r)
  BY DEF HandlerCommits, Calls
<1>2. Attempt(y) /\ HolderOk(y) /\ NoFurther(sub.cursor, Base(y, y.done))
  BY <1>1 DEF Cursors, Readings, ReaderOk, Attempting, Serving, Mine, HolderOk, Follows
<1>3. PICK n, c : n = Upto(r) /\ c = y.cursors[n] /\ sub'.cursor = c
  BY <1>1 DEF HandlerCommits, SetCursor, CallCursor, Cursors, Subscription, SubShape
<1>4. n \in 1..Len(y.rows) /\ y.done \in 0..Len(y.rows)
  BY <1>1, <1>2, <1>3, CallFacts
<1>5. entries' = entries /\ NoFurther(sub.cursor, c)
  <2>1. Cursors' /\ Moved
    BY HandlerCommitsCursors
  <2> QED  BY <1>3, <2>1 DEF Moved, table
<1>6. Covers(r) = {y.rows[i].id : i \in y.done + 1..n}
  BY <1>1, <1>3 DEF Covers
<1>7. ASSUME NEW i \in y.done + 1..n
      PROVE  /\ y.rows[i] \in entries /\ y.rows[i].id \in Ids /\ Past(c, y.rows[i])
             /\ ~Past(sub.cursor, y.rows[i])
  <2>1. i \in 1..Len(y.rows) /\ i <= n /\ ~(i <= y.done)
    BY <1>4
  <2>2. y.rows[i] \in entries /\ y.rows[i] \in Entry
    BY <1>2, <2>1, ElementOfSeq DEF Attempt, Cursors, Table
  <2>3. Past(c, y.rows[i])
    BY <1>2, <1>3, <1>4, <2>1 DEF Attempt, Served
  <2>4. ~Past(Base(y, y.done), y.rows[i])
    <3>1. CASE y.done = 0
      BY <1>2, <2>1, <3>1 DEF Base, Attempt, Past
    <3>2. CASE y.done \in 1..Len(y.rows)
      BY <1>2, <2>1, <3>2 DEF Base, Attempt, Served
    <3> QED  BY <1>4, <3>1, <3>2
  <2> QED  BY <1>2, <2>2, <2>3, <2>4 DEF NoFurther, Entry
<1>8. ASSUME NEW i \in Covers(r) PROVE i \in Ids /\ applied[i] = 0
                                       /\ \E e \in entries : e.id = i /\ Past(c, e)
  <2>1. PICK k \in y.done + 1..n : i = y.rows[k].id
    BY <1>6
  <2>2. \A e \in entries : e.id = i => e = y.rows[k]
    BY <1>7, <2>1 DEF Cursors, Table
  <2> QED  BY <1>7, <2>1, <2>2 DEF Applied
<1>9. applied' = [i \in Ids |-> IF i \in Covers(r) THEN applied[i] + 1 ELSE applied[i]]
  BY DEF HandlerCommits
<1>10. ASSUME NEW i \in Ids PROVE applied'[i] \in {0, 1}
  BY <1>8, <1>9 DEF Applied
<1>11. ASSUME NEW i \in Ids, applied'[i] = 1
       PROVE  \E e \in entries : e.id = i /\ Past(c, e)
  <2>1. CASE i \in Covers(r)
    BY <1>8, <2>1
  <2>2. CASE i \notin Covers(r)
    BY <1>5, <1>9, <1>11, <2>2 DEF Applied, NoFurther, Cursors, Table
  <2> QED  BY <2>1, <2>2
<1>12. \A e : Past(c, e) <=> Past(sub.cursor, e)'
  BY <1>3 DEF Past, Ahead, Before
<1> QED  BY <1>5, <1>9, <1>10, <1>11, <1>12 DEF Applied

-----------------------------------------------------------------------------
(* An entry is parked after attempts at it alone.                          *)

\* The marker counts no attempt that was not charged to its entry.
Charged ==
    /\ alone \in [Ids -> Nat] /\ sub.headAttempts \in Nat
    /\ sub.headSize = 1 /\ sub.headId \in Ids =>
          sub.headAttempts <= alone[sub.headId] \/ alone[sub.headId] > MaxAttempts
    /\ \A r \in Readers : rd[r].pc = "park" => alone[rd[r].rows[1].id] > MaxAttempts
    /\ parked \subseteq {i \in Ids : alone[i] > MaxAttempts}

\* Nobody starts to park and the marker stays or is cleared.
Steady ==
    /\ \A q \in Readers : rd'[q].pc = "park" => rd[q].pc = "park" /\ rd'[q].rows = rd[q].rows
    /\ alone' = alone /\ parked' \subseteq parked
    /\ \/ /\ sub'.headId = sub.headId /\ sub'.headSize = sub.headSize
          /\ sub'.headAttempts = sub.headAttempts
       \/ sub'.headSize = 0 /\ sub'.headAttempts = 0

LEMMA SteadyCharges == ASSUME Charged, Steady PROVE Charged'
<1>1. alone' = alone /\ parked' \subseteq parked
  BY DEF Steady
<1>2. \A q \in Readers : rd'[q].pc = "park" => alone[rd'[q].rows[1].id] > MaxAttempts
  BY DEF Charged, Steady
<1>3. sub'.headAttempts \in Nat
  BY DEF Charged, Steady
<1>4. sub'.headSize = 1 /\ sub'.headId \in Ids =>
          sub'.headAttempts <= alone[sub'.headId] \/ alone[sub'.headId] > MaxAttempts
  BY DEF Charged, Steady
<1> QED  BY <1>1, <1>2, <1>3, <1>4 DEF Charged

\* Reader r goes where it does not park, and the others stay.
LEMMA SteadyReader ==
    ASSUME Cursors, NEW r \in Readers, NEW x, rd' = [rd EXCEPT ![r] = x],
           x.pc = "park" => rd[r].pc = "park" /\ x.rows = rd[r].rows,
           alone' = alone, parked' = parked,
           \/ UNCHANGED sub
           \/ \E c : sub' = SetCursor(c)
           \/ \E t, l : sub' = [sub EXCEPT !.token = t, !.live = l]
    PROVE  Steady
<1>1. rd = [q \in Readers |-> rd[q]] /\ SubShape
  BY DEF Cursors, Readings, Subscription
<1>2. \A q \in Readers : rd'[q] = IF q = r THEN x ELSE rd[q]
  BY <1>1
<1>3. \/ /\ sub'.headId = sub.headId /\ sub'.headSize = sub.headSize
         /\ sub'.headAttempts = sub.headAttempts
      \/ sub'.headSize = 0 /\ sub'.headAttempts = 0
  BY <1>1 DEF SubShape, SetCursor
<1> QED  BY <1>2, <1>3 DEF Steady

LEMMA IdleSteady ==
    ASSUME Cursors, NEW r \in Readers, GoesIdle(r), alone' = alone, parked' = parked,
           \/ UNCHANGED sub
           \/ \E c : sub' = SetCursor(c)
           \/ \E t, l : sub' = [sub EXCEPT !.token = t, !.live = l]
    PROVE  Steady
<1>1. Fresh.pc # "park"
  BY DEF Fresh
<1> QED  BY <1>1, SteadyReader DEF GoesIdle

LEMMA ToReadSteady ==
    ASSUME Cursors, NEW r \in Readers, NEW c, NEW i, ToRead(r, c, i),
           alone' = alone, parked' = parked,
           UNCHANGED sub \/ \E d : sub' = SetCursor(d)
    PROVE  Steady
<1>1. PICK x : x = [Fresh EXCEPT !.pc = "read", !.cursor = c, !.isolate = i, !.lost = rd[r].lost]
  OBVIOUS
<1>2. x.pc # "park"
  BY <1>1 DEF Fresh
<1> QED  BY <1>1, <1>2, SteadyReader DEF ToRead

\* A step that writes the fields of reader r and moves it to pc.
LEMMA FieldsSteady ==
    ASSUME Cursors, NEW r \in Readers, rd' = [q \in Readers |-> IF q = r THEN rd'[r] ELSE rd[q]],
           rd'[r].pc # "park" \/ (rd'[r].pc = rd[r].pc /\ rd'[r].rows = rd[r].rows),
           alone' = alone, parked' = parked,
           \/ UNCHANGED sub
           \/ \E c : sub' = SetCursor(c)
           \/ \E t, l : sub' = [sub EXCEPT !.token = t, !.live = l]
    PROVE  Steady
<1>1. PICK x : x = rd'[r]
  OBVIOUS
<1>2. rd' = [rd EXCEPT ![r] = x]
  BY <1>1 DEF Cursors, Readings
<1>3. x.pc = "park" => rd[r].pc = "park" /\ x.rows = rd[r].rows
  BY <1>1
<1> QED  BY <1>2, <1>3, SteadyReader

LEMMA ReaderShape ==
    ASSUME Cursors, NEW r \in Readers
    PROVE  rd = [q \in Readers |-> rd[q]] /\ Shape(rd[r]) /\ SubShape
  BY DEF Cursors, Readings, ReaderOk, Subscription

LEMMA ReadSteady ==
    ASSUME Cursors, NEW r \in Readers, Read(r) PROVE Steady
<1>1. \/ \E c : rd' = [rd EXCEPT ![r].pc = "skip", ![r].cursors = c]
      \/ \E rows, c : rd' = [rd EXCEPT ![r].pc = "mark", ![r].rows = rows, ![r].cursors = c]
  <2>1. PICK got : \/ \E c : rd' = [rd EXCEPT ![r].pc = "skip", ![r].cursors = <<c>>]
                   \/ \E rows : rd' = [rd EXCEPT ![r].pc = "mark", ![r].rows = rows,
                                         ![r].cursors = CursorsOf(rd[r].cursor, got.view, rows)]
    BY DEF Read
  <2> QED  BY <2>1
<1>2. rd' = [q \in Readers |-> IF q = r THEN rd'[r] ELSE rd[q]] /\ rd'[r].pc # "park"
  BY <1>1, ReaderShape DEF Shape
<1> QED  BY <1>2, FieldsSteady DEF Read, ghosts

LEMMA CallSteady ==
    ASSUME Cursors, NEW r \in Readers, alone' = alone, parked' = parked,
           \/ UNCHANGED sub
           \/ \E c : sub' = SetCursor(c),
           \/ \E c, l : Returned(r, c, l)
           \/ \E c, l : Threw(r, c, l)
    PROVE  Steady
<1>0. rd = [q \in Readers |-> rd[q]] /\ Shape(rd[r])
  BY ReaderShape
<1>1. ASSUME NEW c, NEW l, Returned(r, c, l) PROVE Steady
  <2>1. PICK n, u : n = Upto(r) /\ u = IF n = Len(rd[r].rows) THEN "settle" ELSE "handle"
    OBVIOUS
  <2>2. rd' = [rd EXCEPT ![r].done = n, ![r].committed = c, ![r].lost = l, ![r].pc = u]
    BY <1>1, <2>1 DEF Returned
  <2>3. rd' = [q \in Readers |-> IF q = r THEN rd'[r] ELSE rd[q]]
    BY <1>0, <2>2
  <2>4. rd'[r].pc = u /\ u # "park"
    BY <1>0, <2>1, <2>2 DEF Shape
  <2> QED  BY <2>3, <2>4, FieldsSteady
<1>2. ASSUME NEW c, NEW l, Threw(r, c, l) PROVE Steady
  <2>1. PICK u : u = IF c = NoCursor THEN "settle" ELSE "stored"
    OBVIOUS
  <2>2. rd' = [rd EXCEPT ![r].failed = TRUE, ![r].committed = c, ![r].lost = l, ![r].pc = u]
    BY <1>2, <2>1 DEF Threw
  <2>3. rd' = [q \in Readers |-> IF q = r THEN rd'[r] ELSE rd[q]]
    BY <1>0, <2>2
  <2>4. rd'[r].pc = u /\ u # "park"
    BY <1>0, <2>1, <2>2 DEF Shape
  <2> QED  BY <2>3, <2>4, FieldsSteady
<1> QED  BY <1>1, <1>2

\* Every step of a reader but the two that an attempt at one entry goes through.
LEMMA ReaderSteady ==
    ASSUME Cursors, NEW r \in Readers, ReaderNext(r), ~Mark(r), ~Park(r) PROVE Steady
<1>0. rd = [q \in Readers |-> rd[q]] /\ Shape(rd[r])
  BY ReaderShape
<1>1. CASE Lease(r)
  <2>1. rd' = [q \in Readers |-> IF q = r THEN rd'[r] ELSE rd[q]] /\ rd'[r].pc = "read"
    BY <1>0, <1>1 DEF Lease, Shape
  <2>2. \E t, l : sub' = [sub EXCEPT !.token = t, !.live = l]
    BY <1>1 DEF Lease
  <2> QED  BY <1>1, <2>1, <2>2, FieldsSteady DEF Lease, ghosts
<1>2. CASE Lost(r)
  BY <1>2, IdleSteady DEF Lost, ghosts
<1>3. CASE Heartbeat(r)
  <2>1. CASE UNCHANGED rd
    <3>1. sub' = [sub EXCEPT !.live = TRUE] \/ UNCHANGED sub
      BY <1>3, <2>1 DEF Heartbeat
    <3> QED  BY <1>3, <2>1, <3>1, ReaderShape DEF Heartbeat, ghosts, Steady, SubShape
  <2>2. CASE rd' = [rd EXCEPT ![r].lost = TRUE] /\ UNCHANGED sub
    <3>1. rd' = [q \in Readers |-> IF q = r THEN rd'[r] ELSE rd[q]]
      BY <1>0, <2>2
    <3>2. rd'[r].pc = rd[r].pc /\ rd'[r].rows = rd[r].rows
      BY <1>0, <2>2 DEF Shape
    <3> QED  BY <1>3, <2>2, <3>1, <3>2, FieldsSteady DEF Heartbeat, ghosts
  <2> QED  BY <1>3, <2>1, <2>2 DEF Heartbeat
<1>4. CASE Release(r)
  <2>1. UNCHANGED sub \/ \E t, l : sub' = [sub EXCEPT !.token = t, !.live = l]
    BY <1>4 DEF Release
  <2> QED  BY <1>4, <2>1, IdleSteady DEF Release, ghosts
<1>5. CASE Read(r)
  BY <1>5, ReadSteady
<1>6. CASE Skip(r)
  BY <1>6, ToReadSteady DEF Skip, ghosts
<1>7. CASE HandlerReturns(r) \/ HandlerThrows(r) \/ CutShort(r)
  BY <1>7, CallSteady DEF HandlerReturns, HandlerThrows, CutShort, ghosts
<1>8. CASE HandlerCommits(r)
  BY <1>8, CallSteady DEF HandlerCommits
<1>9. CASE HandlerRefused(r)
  BY <1>9, CallSteady DEF HandlerRefused
<1>10. CASE Stored(r)
  <2>1. PICK n : rd' = [rd EXCEPT ![r].pc = "settle", ![r].committed = sub.cursor, ![r].done = n]
    <3>1. PICK at : at = {i \in DOMAIN rd[r].cursors : rd[r].cursors[i] = sub.cursor}
      OBVIOUS
    <3>2. rd' = [rd EXCEPT ![r].pc = "settle", ![r].committed = sub.cursor,
                           ![r].done = Max(at \cup {rd[r].done})]
      BY <1>0, <1>10, <3>1 DEF Stored, Shape
    <3> QED  BY <3>2
  <2>2. rd' = [q \in Readers |-> IF q = r THEN rd'[r] ELSE rd[q]]
    BY <1>0, <2>1
  <2>3. rd'[r].pc = "settle"
    BY <1>0, <2>1 DEF Shape
  <2> QED  BY <1>10, <2>2, <2>3, FieldsSteady DEF Stored, ghosts
<1>11. CASE Settle(r)
  <2>1. GoesIdle(r) \/ \E c, i : ToRead(r, c, i)
    BY <1>11 DEF Settle
  <2>2. UNCHANGED sub \/ \E c : sub' = SetCursor(c)
    BY <1>11 DEF Settle
  <2>3. alone' = alone /\ parked' = parked
    BY <1>11 DEF Settle, ghosts
  <2> QED  BY <2>1, <2>2, <2>3, IdleSteady, ToReadSteady
<1>12. CASE Crash(r)
  BY <1>12, IdleSteady DEF Crash, ghosts
<1>13. CASE Leave(r)
  <2>1. CASE GoesIdle(r)
    BY <1>13, <2>1, IdleSteady DEF Leave, ghosts
  <2>2. CASE rd' = [rd EXCEPT ![r] = [Fresh EXCEPT !.pc = "release"]]
    <3>1. PICK x : x = [Fresh EXCEPT !.pc = "release"]
      OBVIOUS
    <3>2. x.pc # "park"
      BY <3>1 DEF Fresh
    <3> QED  BY <1>13, <2>2, <3>1, <3>2, SteadyReader DEF Leave, ghosts
  <2> QED  BY <1>13, <2>1, <2>2 DEF Leave
<1> QED
  BY <1>1, <1>2, <1>3, <1>4, <1>5, <1>6, <1>7, <1>8, <1>9, <1>10, <1>11, <1>12, <1>13
     DEF ReaderNext, Serve

LEMMA OthersSteady ==
    ASSUME Cursors, Publishers \/ LapseUnheld \/ LapseStalled \/ Admin \/ UNCHANGED vars
    PROVE  Steady
<1>1. SubShape
  BY DEF Cursors, Subscription
<1>2. CASE UNCHANGED <<sub, parked, rd, alone>>
  BY <1>2 DEF Steady
<1>3. CASE Publishers
  BY <1>2, <1>3 DEF Publishers, Begin, Publish, End, ghosts
<1>4. CASE LapseUnheld \/ LapseStalled
  BY <1>1, <1>4 DEF LapseUnheld, LapseStalled, Lapses, ghosts, Steady, SubShape
<1>5. CASE Admin
  <2>1. ASSUME NEW c, NEW over, Reset(c, over) PROVE Steady
    BY <1>1, <2>1 DEF Reset, SetCursor, Steady, SubShape
  <2>2. CASE SeedNow
    BY <1>2, <2>2 DEF SeedNow, ghosts
  <2>3. ASSUME NEW i, Discard(i) PROVE Steady
    BY <2>3 DEF Discard, Steady, ghosts
  <2>4. ASSUME NEW i, Retain(i) PROVE Steady
    BY <1>2, <2>4 DEF Retain, ghosts
  <2> QED  BY <1>5, <2>1, <2>2, <2>3, <2>4 DEF Admin, ResetToBeginning, ResetToNow
<1>6. CASE UNCHANGED vars
  BY <1>2, <1>6 DEF vars
<1> QED  BY <1>3, <1>4, <1>5, <1>6

LEMMA MarkCharges ==
    ASSUME Cursors, Charged, NEW r \in Readers, Mark(r) PROVE Charged'
<1>1. PICK y, first, n, u, a :
         /\ y = rd[r] /\ first = y.rows[1].id /\ n = Len(y.rows)
         /\ a = Attempts(first, n)
         /\ u = IF n = 1 /\ a > MaxAttempts THEN "park" ELSE "handle"
  OBVIOUS
<1>2. /\ rd = [q \in Readers |-> rd[q]] /\ Shape(y) /\ SubShape /\ Attempt(y)
  BY <1>1 DEF Cursors, Readings, ReaderOk, Attempting, Subscription, Mark
<1>3. /\ sub' = [sub EXCEPT !.headId = first, !.headSize = n, !.headAttempts = a]
      /\ rd' = [rd EXCEPT ![r].pc = u]
      /\ alone' = IF n = 1 /\ alone[first] <= MaxAttempts
                  THEN [alone EXCEPT ![first] = @ + 1] ELSE alone
      /\ parked' = parked
  BY <1>1 DEF Mark
<1>4. first \in Ids /\ n \in Nat \ {0}
  <2>1. y.rows[1] \in entries /\ n \in Nat \ {0}
    BY <1>1, <1>2, ElementOfSeq DEF Attempt
  <2> QED  BY <1>1, <2>1 DEF Cursors, Table, Entry
<1>5. alone \in [Ids -> Nat] /\ sub.headAttempts \in Nat /\ MaxAttempts \in Nat
  BY EventsAssumption DEF Charged
<1>6. /\ alone' \in [Ids -> Nat]
      /\ \A i \in Ids : alone'[i] >= alone[i]
  BY <1>3, <1>4, <1>5
<1>7. sub'.headId = first /\ sub'.headSize = n /\ sub'.headAttempts = a
  BY <1>2, <1>3 DEF SubShape
<1>8. a \in Nat
  BY <1>1, <1>5 DEF Attempts
<1>9. n = 1 => a <= alone'[first] \/ alone'[first] > MaxAttempts
  <2>1. CASE n = 1 /\ alone[first] > MaxAttempts
    BY <1>3, <1>4, <1>5, <2>1
  <2>2. CASE n = 1 /\ ~(alone[first] > MaxAttempts)
    <3>1. alone'[first] = alone[first] + 1
      BY <1>3, <1>4, <1>5, <2>2
    <3>2. CASE sub.headId = first /\ sub.headSize = 1
      <4>1. a = sub.headAttempts + 1
        BY <1>1, <2>2, <3>2 DEF Attempts
      <4>2. sub.headAttempts <= alone[first] \/ alone[first] > MaxAttempts
        BY <1>4, <3>2 DEF Charged
      <4> QED  BY <1>4, <1>5, <2>2, <3>1, <4>1, <4>2
    <3>3. CASE ~(sub.headId = first /\ sub.headSize = 1)
      <4>1. a = 1
        BY <1>1, <2>2, <3>3 DEF Attempts
      <4> QED  BY <1>4, <1>5, <3>1, <4>1
    <3> QED  BY <3>2, <3>3
  <2> QED  BY <2>1, <2>2
<1>10. ASSUME NEW q \in Readers, rd'[q].pc = "park"
       PROVE  alone'[rd'[q].rows[1].id] > MaxAttempts
  <2>1. CASE q = r
    <3>1. rd'[q].pc = u /\ rd'[q].rows = y.rows
      BY <1>1, <1>2, <1>3, <2>1 DEF Shape
    <3>2. n = 1 /\ a > MaxAttempts
      BY <1>1, <1>10, <3>1
    <3> QED  BY <1>1, <1>4, <1>5, <1>6, <1>8, <1>9, <3>1, <3>2
  <2>2. CASE q # r
    <3>1. rd'[q] = rd[q]
      BY <1>2, <1>3, <2>2
    <3>2. alone[rd[q].rows[1].id] > MaxAttempts /\ rd[q].rows[1].id \in Ids
      <4>1. Attempt(rd[q]) /\ rd[q].pc = "park"
        BY <1>10, <3>1 DEF Cursors, Readings, ReaderOk, Attempting
      <4>2. rd[q].rows[1] \in Entry
        BY <4>1, ElementOfSeq DEF Attempt, Cursors, Table
      <4> QED  BY <4>1, <4>2 DEF Charged, Entry
    <3> QED  BY <1>5, <1>6, <3>1, <3>2
  <2> QED  BY <2>1, <2>2
<1>11. parked' \subseteq {i \in Ids : alone'[i] > MaxAttempts}
  BY <1>3, <1>5, <1>6 DEF Charged
<1> QED  BY <1>6, <1>7, <1>8, <1>9, <1>10, <1>11 DEF Charged

LEMMA ParkCharges ==
    ASSUME Cursors, Charged, NEW r \in Readers, Park(r) PROVE Charged'
<1>1. PICK y, i, c, l : y = rd[r] /\ i = y.rows[1].id /\ c = y.cursors[1] /\ l = Less(y.isolate, 1)
  OBVIOUS
<1>2. Attempt(y) /\ y.pc = "park" /\ SubShape
  BY <1>1 DEF Cursors, Readings, ReaderOk, Attempting, Subscription, Park
<1>3. i \in Ids
  <2>1. y.rows[1] \in Entry
    BY <1>2, ElementOfSeq DEF Attempt, Cursors, Table
  <2> QED  BY <1>1, <2>1 DEF Entry
<1>4. alone[i] > MaxAttempts
  BY <1>1, <1>2 DEF Charged
<1>5. parked' = parked \cup {i} /\ alone' = alone /\ sub' = SetCursor(c) /\ ToRead(r, c, l)
  BY <1>1 DEF Park
<1>6. sub'.headSize = 0 /\ sub'.headAttempts = 0
  BY <1>2, <1>5 DEF SetCursor, SubShape
<1>7. \A q \in Readers : rd'[q].pc = "park" => rd'[q] = rd[q]
  <2>1. PICK x : /\ rd' = [q \in Readers |-> IF q = r THEN x ELSE rd[q]] /\ Reading(x, c)
    BY <1>5, ToReadGives
  <2> QED  BY <2>1 DEF Reading
<1> QED  BY <1>3, <1>4, <1>5, <1>6, <1>7 DEF Charged

-----------------------------------------------------------------------------
(* The theorems about them.                                                *)

\* ctx.commit acknowledges an entry in one committed transaction at most,
\* whoever else holds or has lost the lease when its handler runs.
THEOREM ExactlyOnceHolds == Spec => []ExactlyOnce
<1>1. Init => Applied
  BY DEF Init, Applied
<1>2. ASSUME Cursors, Applied, Next \/ UNCHANGED vars PROVE Applied'
  <2>1. CASE applied' = applied /\ Cursors' /\ Moved
    BY <1>2, <2>1, AppliedStays DEF Moved, table
  <2>2. CASE UNCHANGED <<applied, sub>> /\ entries \subseteq entries'
    BY <1>2, <2>2, AppliedStays, NoFurtherSame
  <2>3. CASE Publishers
    BY <2>2, <2>3 DEF Publishers, Begin, Publish, End, ghosts
  <2>4. ASSUME NEW r \in Readers, ReaderNext(r) PROVE Applied'
    <3>1. CASE HandlerCommits(r)
      BY <1>2, <3>1, CommitApplies
    <3>2. CASE ~HandlerCommits(r)
      <4>1. applied' = applied
        BY <2>4, <3>2 DEF ReaderNext, Serve, Lease, Lost, Heartbeat, Release, Read, Skip, Mark,
           Park, HandlerReturns, HandlerThrows, HandlerRefused, CutShort, Stored, Settle,
           Crash, Leave, ghosts
      <4> QED  BY <1>2, <2>1, <2>4, <4>1, ReaderMoves
    <3> QED  BY <3>1, <3>2
  <2>5. CASE LapseUnheld \/ LapseStalled
    BY <1>2, <2>1, <2>5, LeaseLapses DEF LapseUnheld, LapseStalled, Lapses, ghosts
  <2>6. CASE Admin
    <3>1. ASSUME NEW c, NEW over, Reset(c, over) PROVE Applied'
      BY <3>1 DEF Reset, Applied
    <3>2. CASE SeedNow
      BY <2>2, <3>2 DEF SeedNow, ghosts, table
    <3>3. ASSUME NEW i, Discard(i) \/ Retain(i) PROVE Applied'
      BY <2>2, <3>3 DEF Discard, Retain, ghosts, table
    <3> QED  BY <2>6, <3>1, <3>2, <3>3 DEF Admin, ResetToBeginning, ResetToNow
  <2>7. CASE UNCHANGED vars
    BY <2>2, <2>7 DEF vars
  <2> QED  BY <1>2, <2>3, <2>4, <2>5, <2>6, <2>7 DEF Next, ReaderNext
<1>3. Applied => ExactlyOnce
  BY DEF Applied, ExactlyOnce
<1> QED  BY <1>1, <1>2, <1>3, CursorsHold, PTL DEF Spec

\* An entry is parked after more than MaxAttempts attempts at it alone, however
\* readers crash, lose their leases and batch entries in between.
THEOREM ParkedAfterAttemptsHolds == Spec => []ParkedAfterAttempts
<1>1. Init => Charged
  BY DEF Init, Charged, Fresh
<1>2. ASSUME Cursors, Charged, Next \/ UNCHANGED vars PROVE Charged'
  <2>1. ASSUME NEW r \in Readers, ReaderNext(r) PROVE Charged'
    BY <1>2, <2>1, ReaderSteady, SteadyCharges, MarkCharges, ParkCharges
  <2>2. CASE Publishers \/ LapseUnheld \/ LapseStalled \/ Admin \/ UNCHANGED vars
    BY <1>2, <2>2, OthersSteady, SteadyCharges
  <2> QED  BY <1>2, <2>1, <2>2 DEF Next, ReaderNext
<1>3. Charged => ParkedAfterAttempts
  BY DEF Charged, ParkedAfterAttempts
<1> QED  BY <1>1, <1>2, <1>3, CursorsHold, PTL DEF Spec
=============================================================================
