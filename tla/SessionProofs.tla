---------------------------- MODULE SessionProofs ----------------------------
(***************************************************************************)
(* What a caller of Session is told is what happened, at most one attempt  *)
(* of a transaction commits and nobody runs in another's transaction, for  *)
(* every set of callers and connections and every bound, when no handle is *)
(* used after its callback returned.  An action changes one caller, its    *)
(* connection and what that caller wrote, so the invariant relates the     *)
(* three and says nothing across callers but that connections have one     *)
(* holder: the proofs work on one caller's memory m, its connection b,     *)
(* what it was told r and the database d, as values.                       *)
(***************************************************************************)
EXTENDS Session, TLAPS

\* Where a call has no connection, where its program runs, and where it waits
\* for the answer to a command.
Away == {"idle", "acquire", "done"}
Running == {"body", "session"}
Blocked == {"begin", "commit", "rollback", "savepoint", "release", "undo", "undone", "sql"}
OpOf(pc) == CASE pc = "undo" -> "rollbackTo"
              [] pc = "undone" -> "release"
              [] pc = "sql" -> "begin"
              [] OTHER -> pc

Command == [op : {"write", "begin", "commit", "rollback", "rollbackTo", "savepoint", "release"},
            by : Callers \X Attempts, w : Write \cup {<<>>}]

\* The writes that the program of a call may have on their way.
Turn(m) == IF m.scopes = <<>> THEN 0 ELSE m.n

\* The memory of a call, and what it holds where the call is.
Typed(k, m) ==
    /\ m = [pc |-> m.pc, kind |-> m.kind, n |-> m.n, conn |-> m.conn, issued |-> m.issued,
            opened |-> m.opened, scopes |-> m.scopes, doomed |-> m.doomed, cause |-> m.cause]
    /\ m.kind = KindOf[k] /\ m.n \in Attempts /\ m.issued \in Nat
    /\ m.scopes \in Seq(SUBSET Write)

Phase(m) ==
    /\ m.pc \in Away \cup Running \cup Blocked
    /\ m.pc \in Away \cup {"begin", "session", "sql"} => m.scopes = <<>>
    /\ m.pc \notin Away \cup {"begin", "session", "sql", "rollback"} => m.scopes # <<>>
    /\ m.pc = "commit" => Len(m.scopes) = 1
    /\ m.pc \in {"release", "undo", "undone"} => Len(m.scopes) > 1
    /\ m.pc \in {"session", "sql"} => m.kind = "session"
    /\ m.pc = "idle" => m.n = 0
    /\ m.n = 0 => m.pc \in {"session", "sql", "idle", "done"} \/ (m.pc = "acquire" /\ m.kind = "session")
    /\ m.pc = "rollback" => \/ m.cause \in {"rollback", "retryable", "final"}
                            \/ m.cause = "error" /\ m.kind = "session"

\* The command that the call waits for is the only one on its way.
Alone(m) ==
    \/ m.pc = "undone"
    \/ m.pc = "rollback" /\ m.cause = "error"
    \/ m.scopes = <<>> /\ m.kind = "transaction"

\* The commands on their way: writes, and after them what the call waits for.
Outstanding(k, m, q) ==
    /\ q \in Seq(Command)
    /\ \A i \in 1..Len(q) :
          \/ q[i].op = "write" /\ q[i].by = <<k, Turn(m)>> /\ q[i].w \in WritesOf(k, Turn(m))
          \/ i = Len(q) /\ m.pc \in Blocked /\ q[i].by \in {<<k, m.n>>, <<k, 0>>}
    /\ m.pc \in Blocked => Len(q) > 0 /\ q[Len(q)].op = OpOf(m.pc)
    /\ Alone(m) => Len(q) = 1

\* The writes that may be in the transaction of the backend.
Uncommitted(k, m) == WritesOf(k, m.n) \cup IF m.kind = "session" THEN WritesOf(k, 0) ELSE {}

\* A connection.
Leased(b) ==
    /\ b = [holder |-> b.holder, queue |-> b.queue, usable |-> b.usable,
            status |-> b.status, xact |-> b.xact, levels |-> b.levels]
    /\ b.status \in {"I", "T", "E"} /\ b.usable \in BOOLEAN
    /\ b.levels \in Seq(SUBSET Write)
    /\ b.status = "I" => b.xact = <<>> /\ b.levels = <<>>
    /\ b.status # "I" => b.usable

\* The transaction of the backend against the scopes of the callbacks.
Backend(k, m, b) ==
    /\ b.status # "I" => b.xact[1] = k
    /\ m.scopes = <<>> /\ b.status # "I" => Len(b.levels) = 1 /\ b.levels[1] \subseteq WritesOf(k, 0)
    /\ m.scopes = <<>> /\ m.kind = "transaction" => b.status = "I"
    /\ m.scopes # <<>> /\ b.status = "I" /\ b.usable => m.pc = "rollback" /\ m.cause = "error"
    /\ m.scopes # <<>> /\ b.status # "I" =>
          /\ Len(b.levels) = Len(m.scopes)
          /\ \A i \in 1..Len(b.levels) :
                /\ b.levels[i] \subseteq Uncommitted(k, m)
                /\ b.levels[i] \cap WritesOf(k, m.n) =
                      IF m.pc = "undone" /\ i = Len(b.levels) THEN {} ELSE m.scopes[i]
          /\ m.pc = "undone" => b.status = "T"

\* The commit whose answer is lost.
Unanswered(m, usable) ==
    ~usable /\ (m.pc = "commit" \/ (m.pc = "rollback" /\ m.cause = "error"))

\* What was told of an attempt is what happened to it.
Truth(k, r, d) ==
    \A n \in Attempts :
        LET there == d \cap WritesOf(k, n)
        IN  /\ r[n].told = "commit" /\ r[n].tag = "COMMIT" => there = r[n].kept
            /\ r[n].told \in {"rollback", "retryable", "final"} => there = {}
            /\ r[n].told = "indeterminate" => there \in {{}, r[n].kept}

\* What is there of attempts that nothing was told of yet.
Pending(k, m, usable, r, d) ==
    /\ r = [n \in Attempts |-> r[n]] /\ r[0].told = "none"
    /\ m.pc # "done" => \A n \in Attempts :
          n > m.n \/ (n = m.n /\ m.pc \notin {"session", "sql"}) => r[n].told = "none"
    /\ \A n \in Attempts \ {0} :
          r[n].told = "none" /\ d \cap WritesOf(k, n) # {} =>
              /\ n = m.n /\ Unanswered(m, usable)
              /\ m.pc = "commit" => d \cap WritesOf(k, n) = m.scopes[1]

\* A transaction is not tried again once it may have committed.
Once(k, m, usable, d) ==
    m.kind = "transaction" =>
        /\ \A i, j \in Attempts : d \cap WritesOf(k, i) # {} /\ d \cap WritesOf(k, j) # {} => i = j
        /\ m.pc # "done" => \A n \in Attempts :
              d \cap WritesOf(k, n) # {} => n = m.n /\ m.pc = "commit" /\ ~usable

History(k, m, usable, r, d) == Truth(k, r, d) /\ Pending(k, m, usable, r, d) /\ Once(k, m, usable, d)

AtWork(k, m, b, r, d) ==
    /\ Typed(k, m) /\ Phase(m) /\ m.pc \notin Away /\ Outstanding(k, m, b.queue)
    /\ Leased(b) /\ Backend(k, m, b)
    /\ History(k, m, b.usable, r, d)

AtRest(k, m, r, d) == Typed(k, m) /\ Phase(m) /\ m.pc \in Away /\ History(k, m, TRUE, r, d)

Invariant ==
    /\ call = [k \in Callers |-> call[k]] /\ conn = [c \in Conns |-> conn[c]]
    /\ res = [k \in Callers |-> res[k]]
    /\ \A c \in Conns : \/ conn[c] = Fresh
                        \/ conn[c].holder \in Callers /\ call[conn[c].holder].conn = c
    /\ \A k \in Callers :
          \/ call[k].conn = Nobody /\ AtRest(k, call[k], res[k], db)
          \/ /\ call[k].conn \in Conns /\ conn[call[k].conn].holder = k
             /\ AtWork(k, call[k], conn[call[k].conn], res[k], db)

-----------------------------------------------------------------------------
(* One caller at a time.                                                   *)

\* The caller k and its connection c after a step.
Good(k, c, m, b, r, d) ==
    \/ m.conn = c /\ b.holder = k /\ AtWork(k, m, b, r, d)
    \/ m.conn = Nobody /\ b = Fresh /\ AtRest(k, m, r, d)

\* The history of a caller depends on its own writes only.
LEMMA HistoryLocal ==
    ASSUME NEW k, NEW m, NEW u, NEW r, NEW d, NEW e, History(k, m, u, r, d),
           \A n \in Attempts : e \cap WritesOf(k, n) = d \cap WritesOf(k, n)
    PROVE  History(k, m, u, r, e)
  <1>1. Truth(k, r, e)
    BY DEF History, Truth
  <1>2. Pending(k, m, u, r, e)
    <2> DEFINE D(n) == d \cap WritesOf(k, n)
               E(n) == e \cap WritesOf(k, n)
    <2>1. \A n \in Attempts : E(n) = D(n)
      OBVIOUS
    <2>2. \A n \in Attempts \ {0} :
             r[n].told = "none" /\ D(n) # {} =>
                 /\ n = m.n /\ Unanswered(m, u)
                 /\ m.pc = "commit" => D(n) = m.scopes[1]
      BY DEF History, Pending
    <2>3. \A n \in Attempts \ {0} :
             r[n].told = "none" /\ E(n) # {} =>
                 /\ n = m.n /\ Unanswered(m, u)
                 /\ m.pc = "commit" => E(n) = m.scopes[1]
      <3> HIDE DEF D, E
      <3> QED BY <2>1, <2>2
    <2> QED BY <2>3 DEF History, Pending
  <1>3. Once(k, m, u, e)
    BY DEF History, Once
  <1> QED BY <1>1, <1>2, <1>3 DEF History

\* A step of one caller and its connection, which writes only in its name.
LEMMA LocalStep ==
    ASSUME Invariant, NEW k \in Callers, NEW c \in Conns,
           call[k].conn = c \/ (call[k].conn = Nobody /\ conn[c] = Fresh),
           NEW m, NEW b, NEW r, NEW d,
           call' = [call EXCEPT ![k] = m], conn' = [conn EXCEPT ![c] = b],
           res' = [res EXCEPT ![k] = r], db' = d,
           db \subseteq d, \A w \in d \ db : w[1] = k,
           Good(k, c, m, b, r, d)
    PROVE  Invariant'
  <1>1. /\ call' = [j \in Callers |-> call'[j]] /\ conn' = [q \in Conns |-> conn'[q]]
        /\ res' = [j \in Callers |-> res'[j]]
        /\ call'[k] = m /\ conn'[c] = b /\ res'[k] = r
        /\ \A j \in Callers \ {k} : call'[j] = call[j] /\ res'[j] = res[j]
        /\ \A q \in Conns \ {c} : conn'[q] = conn[q]
    BY DEF Invariant
  <1>2. Nobody \notin Callers /\ Nobody \notin Conns
    BY NobodyAssumption
  <1>3. \A j \in Callers \ {k} : call[j].conn # c
    BY <1>2 DEF Invariant, Fresh
  <1>4. \A q \in Conns \ {c} : conn[q] = Fresh \/ conn[q].holder # k
    BY <1>2 DEF Invariant
  <1>5. ASSUME NEW q \in Conns
        PROVE  \/ conn'[q] = Fresh
               \/ conn'[q].holder \in Callers /\ call'[conn'[q].holder].conn = q
    <2>1. CASE q = c
      BY <1>1, <2>1 DEF Good
    <2>2. CASE q # c
      BY <1>1, <1>4, <2>2 DEF Invariant
    <2> QED BY <2>1, <2>2
  <1>6. ASSUME NEW j \in Callers, j # k
        PROVE  \/ call'[j].conn = Nobody /\ AtRest(j, call'[j], res'[j], d)
               \/ /\ call'[j].conn \in Conns /\ conn'[call'[j].conn].holder = j
                  /\ AtWork(j, call'[j], conn'[call'[j].conn], res'[j], d)
    <2>1. \A n \in Attempts : d \cap WritesOf(j, n) = db \cap WritesOf(j, n)
      BY <1>6 DEF WritesOf
    <2>2. \A x, y, u : History(j, x, u, y, db) => History(j, x, u, y, d)
      BY <2>1, HistoryLocal
    <2>3. call'[j] = call[j] /\ res'[j] = res[j]
      BY <1>1, <1>6
    <2>4. CASE call[j].conn = Nobody /\ AtRest(j, call[j], res[j], db)
      BY <2>2, <2>3, <2>4 DEF AtRest
    <2>5. CASE /\ call[j].conn \in Conns /\ conn[call[j].conn].holder = j
               /\ AtWork(j, call[j], conn[call[j].conn], res[j], db)
      <3>1. conn'[call[j].conn] = conn[call[j].conn]
        BY <1>1, <1>3, <1>6, <2>5
      <3> QED BY <2>2, <2>3, <2>5, <3>1 DEF AtWork
    <2> QED BY <2>4, <2>5 DEF Invariant
  <1>7. \/ m.conn = Nobody /\ AtRest(k, m, r, d)
        \/ m.conn \in Conns /\ conn'[m.conn].holder = k /\ AtWork(k, m, conn'[m.conn], r, d)
    BY <1>1 DEF Good
  <1>8. \A j \in Callers :
           \/ call'[j].conn = Nobody /\ AtRest(j, call'[j], res'[j], db')
           \/ /\ call'[j].conn \in Conns /\ conn'[call'[j].conn].holder = j
              /\ AtWork(j, call'[j], conn'[call'[j].conn], res'[j], db')
    BY <1>1, <1>6, <1>7
  <1> QED BY <1>1, <1>5, <1>8 DEF Invariant

\* A step of a caller without a connection.
LEMMA AwayStep ==
    ASSUME Invariant, NEW k \in Callers, NEW m, call[k].conn = Nobody,
           call' = [call EXCEPT ![k] = m], UNCHANGED <<conn, db, res>>,
           m.conn = Nobody, AtRest(k, m, res[k], db)
    PROVE  Invariant'
  <1>1. /\ call' = [j \in Callers |-> call'[j]] /\ call'[k] = m
        /\ \A j \in Callers \ {k} : call'[j] = call[j]
    BY DEF Invariant
  <1>2. Nobody \notin Callers /\ Nobody \notin Conns
    BY NobodyAssumption
  <1>3. ASSUME NEW q \in Conns
        PROVE  \/ conn[q] = Fresh
               \/ conn[q].holder \in Callers /\ call'[conn[q].holder].conn = q
    BY <1>1, <1>2 DEF Invariant
  <1>4. ASSUME NEW j \in Callers
        PROVE  \/ call'[j].conn = Nobody /\ AtRest(j, call'[j], res[j], db)
               \/ /\ call'[j].conn \in Conns /\ conn[call'[j].conn].holder = j
                  /\ AtWork(j, call'[j], conn[call'[j].conn], res[j], db)
    BY <1>1 DEF Invariant
  <1> QED BY <1>1, <1>3, <1>4 DEF Invariant

-----------------------------------------------------------------------------
(* The history of a caller.                                                *)

\* Writes are told apart by the caller and the attempt.
LEMMA WritesApart ==
    ASSUME NEW k, NEW i, NEW j, i # j
    PROVE  WritesOf(k, i) \cap WritesOf(k, j) = {}
  BY DEF WritesOf

\* While no commit is unanswered, nothing is there of an attempt before its
\* caller is told.
LEMMA HistoryKept ==
    ASSUME NEW k, NEW m, NEW u, NEW r, NEW d, History(k, m, u, r, d), m.n \in Attempts,
           ~Unanswered(m, u), m.pc # "done",
           NEW x, NEW v, x.n = m.n, x.kind = m.kind,
           x.pc \in {"session", "sql", "done"} \/ r[m.n].told = "none"
    PROVE  History(k, x, v, r, d)
  <1>1. Once(k, x, v, d)
    BY DEF History, Once, Unanswered
  <1>2. Pending(k, x, v, r, d)
    <2>1. x.pc # "done" => \A n \in Attempts :
             n > x.n \/ (n = x.n /\ x.pc \notin {"session", "sql"}) => r[n].told = "none"
      BY DEF History, Pending
    <2> QED BY <2>1 DEF History, Pending
  <1> QED BY <1>1, <1>2 DEF History

\* What is known of the attempts of k when attempt n is over.
Settled(k, n, r, d) ==
    /\ r = [i \in Attempts |-> r[i]] /\ r[0].told = "none" /\ Truth(k, r, d)
    /\ \A i \in Attempts : i > n => r[i].told = "none"
    /\ \A i \in Attempts \ {0} : i # n /\ r[i].told = "none" => d \cap WritesOf(k, i) = {}

\* What is told of attempt n is true.
Fits(k, n, t, d) ==
    /\ t.told # "none"
    /\ t.told = "commit" /\ t.tag = "COMMIT" => d \cap WritesOf(k, n) = t.kept
    /\ t.told \in {"rollback", "retryable", "final"} => d \cap WritesOf(k, n) = {}
    /\ t.told = "indeterminate" => d \cap WritesOf(k, n) \in {{}, t.kept}

\* The end of an attempt.
LEMMA HistoryTold ==
    ASSUME NEW k, NEW n \in Attempts \ {0}, NEW r, NEW d, Settled(k, n, r, d),
           NEW t, Fits(k, n, t, d), NEW x, NEW v, Once(k, x, v, d),
           x.pc = "done" \/ (x.pc = "session" /\ x.n = n) \/ x.n = n + 1
    PROVE  History(k, x, v, [r EXCEPT ![n] = t], d)
  <1> DEFINE s == [r EXCEPT ![n] = t]
  <1>1. /\ s = [i \in Attempts |-> s[i]] /\ s[n] = t /\ s[0].told = "none"
        /\ \A i \in Attempts \ {n} : s[i] = r[i]
    BY DEF Settled, Fits
  <1> HIDE DEF s
  <1>2. Truth(k, s, d)
    <2>1. ASSUME NEW i \in Attempts
          PROVE  /\ s[i].told = "commit" /\ s[i].tag = "COMMIT" => d \cap WritesOf(k, i) = s[i].kept
                 /\ s[i].told \in {"rollback", "retryable", "final"} => d \cap WritesOf(k, i) = {}
                 /\ s[i].told = "indeterminate" => d \cap WritesOf(k, i) \in {{}, s[i].kept}
      <3>1. CASE i = n
        BY <1>1, <3>1 DEF Fits
      <3>2. CASE i # n
        BY <1>1, <3>2 DEF Settled, Truth
      <3> QED BY <3>1, <3>2
    <2> QED BY <2>1 DEF Truth
  <1>3. Pending(k, x, v, s, d)
    <2>1. x.pc # "done" => \A i \in Attempts :
             i > x.n \/ (i = x.n /\ x.pc \notin {"session", "sql"}) => s[i].told = "none"
      BY <1>1, SessionAssumption DEF Attempts, Settled
    <2>2. \A i \in Attempts \ {0} : s[i].told = "none" => d \cap WritesOf(k, i) = {}
      BY <1>1 DEF Settled, Fits
    <2> QED BY <1>1, <2>1, <2>2 DEF Pending
  <1> QED BY <1>2, <1>3 DEF History, s

-----------------------------------------------------------------------------
(* Commands on their way.                                                  *)

LEMMA QueueFacts ==
    ASSUME NEW q \in Seq(Command)
    PROVE  /\ Len(q) \in Nat
           /\ \A x \in Command : /\ Append(q, x) \in Seq(Command) /\ Len(Append(q, x)) = Len(q) + 1
                                 /\ Append(q, x)[Len(q) + 1] = x
                                 /\ \A i \in 1..Len(q) : Append(q, x)[i] = q[i]
           /\ Len(q) > 0 => /\ Tail(q) \in Seq(Command) /\ Len(Tail(q)) = Len(q) - 1
                            /\ Head(q) = q[1]
                            /\ \A i \in 1..(Len(q) - 1) : Tail(q)[i] = q[i + 1]
  OBVIOUS

\* The calls run on: everything on its way is a write.
Writes(k, t, q) ==
    /\ q \in Seq(Command)
    /\ \A i \in 1..Len(q) :
          q[i].op = "write" /\ q[i].by = <<k, t>> /\ q[i].w \in WritesOf(k, t)

LEMMA RunningWrites ==
    ASSUME NEW k, NEW m, NEW q, Outstanding(k, m, q), m.pc \in Running
    PROVE  Writes(k, Turn(m), q)
  BY DEF Outstanding, Writes, Running, Blocked

LEMMA WritesRunning ==
    ASSUME NEW k, NEW m, NEW q, Writes(k, Turn(m), q), m.pc \in Running,
           m.scopes = <<>> => m.kind # "transaction"
    PROVE  Outstanding(k, m, q)
  BY DEF Outstanding, Writes, Running, Blocked, Alone

\* A command that the call waits for goes behind the writes.
LEMMA WritesBlocked ==
    ASSUME NEW k \in Callers, NEW m, NEW q, NEW x, Writes(k, Turn(m), q), m.pc \in Blocked,
           m.n \in Attempts, x = [op |-> OpOf(m.pc), by |-> x.by, w |-> <<>>],
           x.by \in {<<k, m.n>>, <<k, 0>>}, Alone(m) => q = <<>>
    PROVE  Outstanding(k, m, Append(q, x))
  <1>1. x \in Command
    BY SessionAssumption DEF Command, Blocked, OpOf, Attempts
  <1>2. q \in Seq(Command)
    BY DEF Writes
  <1> DEFINE p == Append(q, x)
  <1>3. /\ Len(q) \in Nat /\ p \in Seq(Command) /\ Len(p) = Len(q) + 1 /\ p[Len(q) + 1] = x
        /\ \A i \in 1..Len(q) : p[i] = q[i]
    BY <1>1, <1>2, QueueFacts
  <1>4. x.op = OpOf(m.pc)
    OBVIOUS
  <1>5. Alone(m) => Len(p) = 1
    BY <1>3
  <1> HIDE DEF p
  <1>6. ASSUME NEW i \in 1..Len(p)
        PROVE  \/ p[i].op = "write" /\ p[i].by = <<k, Turn(m)>> /\ p[i].w \in WritesOf(k, Turn(m))
               \/ i = Len(p) /\ m.pc \in Blocked /\ p[i].by \in {<<k, m.n>>, <<k, 0>>}
    <2>1. CASE i = Len(p)
      BY <1>3, <2>1
    <2>2. CASE i # Len(p)
      <3>1. i \in 1..Len(q)
        BY <1>3, <2>2
      <3> QED BY <1>3, <3>1 DEF Writes
    <2> QED BY <2>1, <2>2
  <1> QED BY <1>3, <1>4, <1>5, <1>6 DEF Outstanding, p

\* The head of the queue is a write, and the rest is as before, or it is what
\* the call waits for, and nothing else is on its way.
LEMMA HeadOfQueue ==
    ASSUME NEW k, NEW m, NEW q, Outstanding(k, m, q), q # <<>>
    PROVE  \/ /\ Head(q).op = "write" /\ Head(q).by = <<k, Turn(m)>>
              /\ Head(q).w \in WritesOf(k, Turn(m))
              /\ Outstanding(k, m, Tail(q)) \/ Alone(m)
           \/ /\ m.pc \in Blocked /\ Head(q).op = OpOf(m.pc)
              /\ Head(q).by \in {<<k, m.n>>, <<k, 0>>} /\ Tail(q) = <<>>
  <1>1. q \in Seq(Command) /\ Len(q) \in Nat /\ Len(q) > 0
    BY DEF Outstanding
  <1> DEFINE p == Tail(q)
  <1>2. /\ p \in Seq(Command) /\ Len(p) = Len(q) - 1 /\ Head(q) = q[1]
        /\ \A i \in 1..(Len(q) - 1) : p[i] = q[i + 1]
    BY <1>1, QueueFacts
  <1>3. 1 \in 1..Len(q)
    BY <1>1
  <1>4. CASE /\ q[1].op = "write" /\ q[1].by = <<k, Turn(m)>> /\ q[1].w \in WritesOf(k, Turn(m))
    <2> HIDE DEF p
    <2>1. CASE m.pc \notin Blocked \/ Len(q) > 1
      <3>1. \A i \in 1..Len(p) : i + 1 \in 1..Len(q) /\ p[i] = q[i + 1] /\ (i + 1 = Len(q) => i = Len(p))
        BY <1>1, <1>2
      <3>2. m.pc \in Blocked => Len(p) > 0 /\ p[Len(p)] = q[Len(q)]
        BY <1>1, <1>2, <2>1
      <3>3. CASE ~Alone(m)
        <4>1. ASSUME NEW i \in 1..Len(p)
              PROVE  \/ p[i].op = "write" /\ p[i].by = <<k, Turn(m)>> /\ p[i].w \in WritesOf(k, Turn(m))
                     \/ i = Len(p) /\ m.pc \in Blocked /\ p[i].by \in {<<k, m.n>>, <<k, 0>>}
          BY <3>1 DEF Outstanding
        <4> QED BY <1>2, <1>4, <3>2, <3>3, <4>1 DEF Outstanding, p
      <3> QED BY <1>2, <1>4, <3>3 DEF p
    <2>2. CASE m.pc \in Blocked /\ Len(q) = 1
      BY <1>2, <1>4, <2>2 DEF Outstanding, Blocked, OpOf
    <2>3. \A n \in Nat : n > 0 => n = 1 \/ n > 1
      OBVIOUS
    <2> QED BY <1>1, <2>1, <2>2, <2>3
  <1>5. CASE 1 = Len(q) /\ m.pc \in Blocked /\ q[1].by \in {<<k, m.n>>, <<k, 0>>}
    <2> HIDE DEF p
    <2>1. p \in Seq(Command) /\ Len(p) = 0
      BY <1>1, <1>2, <1>5
    <2>2. p = <<>>
      BY <2>1
    <2> QED BY <1>2, <1>5, <2>2 DEF Outstanding, p
  <1> QED BY <1>3, <1>4, <1>5 DEF Outstanding

-----------------------------------------------------------------------------
(* What a command does to the backend b of a connection.                   *)

\* The head of the queue was executed, rejected, or not sent: the connection
\* is e, the database has also C, and the answer is a.
Resumed(b, e, C, a) ==
    LET rest == [b EXCEPT !.queue = Tail(@)]
        cmd == Head(b.queue)
    IN  \/ /\ b.usable
           /\ LET out == Executed(rest, cmd)
              IN  e = out.b /\ C = out.commits /\ a = IF out.ok THEN "ok" ELSE "server"
        \/ /\ b.usable /\ cmd.op \in {"write", "commit"} /\ b.status # "E"
           /\ e = Rejected(rest, cmd).b /\ C = {} /\ a = "server"
        \/ ~b.usable /\ e = rest /\ C = {} /\ a = "conn"

\* The connection with another transaction.
With(b, status, xact, levels) ==
    [holder |-> b.holder, queue |-> Tail(b.queue), usable |-> b.usable,
     status |-> status, xact |-> xact, levels |-> levels]

\* The connection without the head of its queue.
LEMMA RestFacts ==
    ASSUME NEW b, Leased(b), NEW rest, rest = [b EXCEPT !.queue = Tail(@)]
    PROVE  /\ rest = With(b, b.status, b.xact, b.levels)
           /\ rest.status = b.status /\ rest.levels = b.levels
           /\ Idle(rest) = With(b, "I", <<>>, <<>>)
           /\ Failed(rest) = With(b, IF b.status = "I" THEN "I" ELSE "E", b.xact, b.levels)
           /\ Top(rest) = Len(b.levels) /\ Open(rest) = Open(b)
  <1>1. rest = With(b, b.status, b.xact, b.levels)
    BY DEF Leased, With
  <1>2. rest.status = b.status /\ rest.levels = b.levels
    BY <1>1 DEF With
  <1>3. PICK x : x = Idle(rest)
    OBVIOUS
  <1>4. x = With(b, "I", <<>>, <<>>)
    BY <1>1, <1>3 DEF Idle, With
  <1>5. PICK y : y = [rest EXCEPT !.status = "E"]
    OBVIOUS
  <1>6. y = With(b, "E", b.xact, b.levels)
    BY <1>1, <1>5 DEF With
  <1>7. Failed(rest) = IF b.status = "I" THEN rest ELSE y
    BY <1>2, <1>5 DEF Failed
  <1> QED BY <1>1, <1>2, <1>3, <1>4, <1>6, <1>7 DEF Top, Open

LEMMA CommitEffect ==
    ASSUME NEW b, NEW e, NEW C, NEW a, Leased(b), Resumed(b, e, C, a), Head(b.queue).op = "commit"
    PROVE  /\ e = With(b, "I", <<>>, <<>>)
           /\ \/ b.usable /\ a = "ok" /\ C = IF b.status = "T" THEN Open(b) ELSE {}
              \/ b.usable /\ a = "server" /\ C = {} /\ b.status # "E"
              \/ ~b.usable /\ a = "conn" /\ C = {}
  <1>1. PICK rest : rest = [b EXCEPT !.queue = Tail(@)]
    OBVIOUS
  <1>2. /\ rest = With(b, b.status, b.xact, b.levels)
        /\ rest.status = b.status /\ rest.levels = b.levels
        /\ Idle(rest) = With(b, "I", <<>>, <<>>)
        /\ Failed(rest) = With(b, IF b.status = "I" THEN "I" ELSE "E", b.xact, b.levels)
        /\ Top(rest) = Len(b.levels) /\ Open(rest) = Open(b)
    BY <1>1, RestFacts
  <1>3. PICK out : out = Executed(rest, Head(b.queue))
    OBVIOUS
  <1>4. out.b = Idle(rest) /\ out.ok /\ out.commits = IF b.status = "T" THEN Open(b) ELSE {}
    BY <1>2, <1>3 DEF Executed, Done
  <1>5. Rejected(rest, Head(b.queue)).b = Idle(rest)
    BY DEF Rejected, Refused
  <1> QED BY <1>1, <1>2, <1>3, <1>4, <1>5 DEF Resumed, Leased

LEMMA RollbackEffect ==
    ASSUME NEW b, NEW e, NEW C, NEW a, Leased(b), Resumed(b, e, C, a), Head(b.queue).op = "rollback"
    PROVE  /\ e = With(b, "I", <<>>, <<>>) /\ C = {}
           /\ a = IF b.usable THEN "ok" ELSE "conn"
  <1>1. PICK rest : rest = [b EXCEPT !.queue = Tail(@)]
    OBVIOUS
  <1>2. /\ rest = With(b, b.status, b.xact, b.levels)
        /\ rest.status = b.status /\ rest.levels = b.levels
        /\ Idle(rest) = With(b, "I", <<>>, <<>>)
        /\ Failed(rest) = With(b, IF b.status = "I" THEN "I" ELSE "E", b.xact, b.levels)
        /\ Top(rest) = Len(b.levels) /\ Open(rest) = Open(b)
    BY <1>1, RestFacts
  <1>3. PICK out : out = Executed(rest, Head(b.queue))
    OBVIOUS
  <1>4. out.b = Idle(rest) /\ out.ok /\ out.commits = {}
    BY <1>2, <1>3 DEF Executed, Done
  <1> QED BY <1>1, <1>2, <1>3, <1>4 DEF Resumed, Leased

LEMMA BeginEffect ==
    ASSUME NEW b, NEW e, NEW C, NEW a, Leased(b), Resumed(b, e, C, a), Head(b.queue).op = "begin"
    PROVE  /\ C = {}
           /\ \/ b.usable /\ b.status = "I" /\ a = "ok" /\ e = With(b, "T", Head(b.queue).by, <<{}>>)
              \/ b.status = "T" /\ a = "ok" /\ e = With(b, "T", b.xact, b.levels)
              \/ b.status = "E" /\ a = "server" /\ e = With(b, "E", b.xact, b.levels)
              \/ ~b.usable /\ a = "conn" /\ e = With(b, "I", <<>>, <<>>)
  <1>1. PICK rest : rest = [b EXCEPT !.queue = Tail(@)]
    OBVIOUS
  <1>2. /\ rest = With(b, b.status, b.xact, b.levels)
        /\ rest.status = b.status /\ rest.levels = b.levels
        /\ Idle(rest) = With(b, "I", <<>>, <<>>)
        /\ Failed(rest) = With(b, IF b.status = "I" THEN "I" ELSE "E", b.xact, b.levels)
        /\ Top(rest) = Len(b.levels) /\ Open(rest) = Open(b)
    BY <1>1, RestFacts
  <1>3. PICK x : x = [rest EXCEPT !.status = "T", !.xact = Head(b.queue).by, !.levels = <<{}>>]
    OBVIOUS
  <1>4. x = With(b, "T", Head(b.queue).by, <<{}>>)
    BY <1>1, <1>2, <1>3 DEF With
  <1>5. Executed(rest, Head(b.queue)) = IF b.status = "I" THEN Done(x) ELSE
           IF b.status = "T" THEN Done(rest) ELSE Refused(rest)
    BY <1>2, <1>3 DEF Executed, Leased
  <1>6. PICK out : out = Executed(rest, Head(b.queue))
    OBVIOUS
  <1>7. /\ out.commits = {} /\ (out.ok <=> b.status # "E")
        /\ out.b = IF b.status = "I" THEN x ELSE IF b.status = "T" THEN rest ELSE Failed(rest)
    BY <1>5, <1>6 DEF Done, Refused, Leased
  <1>9. \/ b.usable /\ e = out.b /\ C = out.commits /\ a = IF out.ok THEN "ok" ELSE "server"
        \/ ~b.usable /\ e = rest /\ C = {} /\ a = "conn"
    BY <1>1, <1>6 DEF Resumed
  <1>10. /\ b.status \in {"I", "T", "E"} /\ (b.status # "I" => b.usable)
         /\ b.status = "I" => b.xact = <<>> /\ b.levels = <<>>
    BY DEF Leased
  <1> QED BY <1>2, <1>4, <1>7, <1>9, <1>10

LEMMA SavepointEffect ==
    ASSUME NEW b, NEW e, NEW C, NEW a, Leased(b), Resumed(b, e, C, a), Head(b.queue).op = "savepoint"
    PROVE  /\ C = {}
           /\ \/ b.status = "T" /\ a = "ok" /\ e = With(b, "T", b.xact, Append(b.levels, {}))
              \/ b.status # "T" /\ a # "ok" /\ e = With(b, b.status, b.xact, b.levels)
  <1>1. PICK rest : rest = [b EXCEPT !.queue = Tail(@)]
    OBVIOUS
  <1>2. /\ rest = With(b, b.status, b.xact, b.levels)
        /\ rest.status = b.status /\ rest.levels = b.levels
        /\ Idle(rest) = With(b, "I", <<>>, <<>>)
        /\ Failed(rest) = With(b, IF b.status = "I" THEN "I" ELSE "E", b.xact, b.levels)
        /\ Top(rest) = Len(b.levels) /\ Open(rest) = Open(b)
    BY <1>1, RestFacts
  <1>3. PICK x : x = [rest EXCEPT !.levels = Append(@, {})]
    OBVIOUS
  <1>4. x = With(b, b.status, b.xact, Append(b.levels, {}))
    BY <1>1, <1>2, <1>3 DEF With
  <1>5. Executed(rest, Head(b.queue)) = IF b.status = "T" THEN Done(x) ELSE Refused(rest)
    BY <1>2, <1>3 DEF Executed, Leased
  <1>6. PICK out : out = Executed(rest, Head(b.queue))
    OBVIOUS
  <1>7. /\ out.commits = {} /\ (out.ok <=> b.status = "T")
        /\ out.b = IF b.status = "T" THEN x ELSE Failed(rest)
    BY <1>5, <1>6 DEF Done, Refused
  <1>9. \/ b.usable /\ e = out.b /\ C = out.commits /\ a = IF out.ok THEN "ok" ELSE "server"
        \/ ~b.usable /\ e = rest /\ C = {} /\ a = "conn"
    BY <1>1, <1>6 DEF Resumed
  <1>10. /\ b.status \in {"I", "T", "E"} /\ (b.status # "I" => b.usable)
         /\ b.status = "I" => b.xact = <<>> /\ b.levels = <<>>
    BY DEF Leased
  <1> QED BY <1>2, <1>4, <1>7, <1>9, <1>10

\* The levels after the innermost savepoint ended.
Merged(s, x) == Append(Front(Front(s)), x \cup s[Len(s) - 1])

LEMMA ReleaseEffect ==
    ASSUME NEW b, NEW e, NEW C, NEW a, Leased(b), Resumed(b, e, C, a), Head(b.queue).op = "release",
           b.status = "T" => Len(b.levels) > 1
    PROVE  /\ C = {}
           /\ \/ /\ b.status = "T" /\ a = "ok"
                 /\ e = With(b, "T", b.xact, Merged(b.levels, b.levels[Len(b.levels)]))
              \/ b.status # "T" /\ a # "ok" /\ e = With(b, b.status, b.xact, b.levels)
  <1>1. PICK rest : rest = [b EXCEPT !.queue = Tail(@)]
    OBVIOUS
  <1>2. /\ rest = With(b, b.status, b.xact, b.levels)
        /\ rest.status = b.status /\ rest.levels = b.levels
        /\ Idle(rest) = With(b, "I", <<>>, <<>>)
        /\ Failed(rest) = With(b, IF b.status = "I" THEN "I" ELSE "E", b.xact, b.levels)
        /\ Top(rest) = Len(b.levels) /\ Open(rest) = Open(b)
    BY <1>1, RestFacts
  <1>3. PICK x : x = [rest EXCEPT !.levels = Append(Front(Front(@)), @[Top(rest)] \cup @[Top(rest) - 1])]
    OBVIOUS
  <1>4. x = With(b, b.status, b.xact, Merged(b.levels, b.levels[Len(b.levels)]))
    BY <1>1, <1>2, <1>3 DEF With, Merged
  <1>5. Executed(rest, Head(b.queue)) = IF b.status = "T" THEN Done(x) ELSE Refused(rest)
    BY <1>2, <1>3 DEF Executed, Leased
  <1>6. PICK out : out = Executed(rest, Head(b.queue))
    OBVIOUS
  <1>7. /\ out.commits = {} /\ (out.ok <=> b.status = "T")
        /\ out.b = IF b.status = "T" THEN x ELSE Failed(rest)
    BY <1>5, <1>6 DEF Done, Refused
  <1>9. \/ b.usable /\ e = out.b /\ C = out.commits /\ a = IF out.ok THEN "ok" ELSE "server"
        \/ ~b.usable /\ e = rest /\ C = {} /\ a = "conn"
    BY <1>1, <1>6 DEF Resumed
  <1>10. /\ b.status \in {"I", "T", "E"} /\ (b.status # "I" => b.usable)
         /\ b.status = "I" => b.xact = <<>> /\ b.levels = <<>>
    BY DEF Leased
  <1> QED BY <1>2, <1>4, <1>7, <1>9, <1>10

LEMMA RollbackToEffect ==
    ASSUME NEW b, NEW e, NEW C, NEW a, Leased(b), Resumed(b, e, C, a), Head(b.queue).op = "rollbackTo",
           b.status # "I" => Len(b.levels) > 1
    PROVE  /\ C = {}
           /\ \/ /\ b.status # "I"
                 /\ e = With(b, "T", b.xact, [b.levels EXCEPT ![Len(b.levels)] = {}])
              \/ b.status = "I" /\ e = With(b, b.status, b.xact, b.levels)
  <1>1. PICK rest : rest = [b EXCEPT !.queue = Tail(@)]
    OBVIOUS
  <1>2. /\ rest = With(b, b.status, b.xact, b.levels)
        /\ rest.status = b.status /\ rest.levels = b.levels
        /\ Idle(rest) = With(b, "I", <<>>, <<>>)
        /\ Failed(rest) = With(b, IF b.status = "I" THEN "I" ELSE "E", b.xact, b.levels)
        /\ Top(rest) = Len(b.levels) /\ Open(rest) = Open(b)
    BY <1>1, RestFacts
  <1>3. PICK x : x = [rest EXCEPT !.status = "T", !.levels[Top(rest)] = {}]
    OBVIOUS
  <1>4. x = With(b, "T", b.xact, [b.levels EXCEPT ![Len(b.levels)] = {}])
    BY <1>1, <1>2, <1>3 DEF With
  <1>5. Executed(rest, Head(b.queue)) = IF b.status = "I" THEN Refused(rest) ELSE Done(x)
    BY <1>2, <1>3 DEF Executed, Leased
  <1>6. PICK out : out = Executed(rest, Head(b.queue))
    OBVIOUS
  <1>7. /\ out.commits = {} /\ out.b = IF b.status = "I" THEN Failed(rest) ELSE x
    BY <1>5, <1>6 DEF Done, Refused
  <1>9. \/ b.usable /\ e = out.b /\ C = out.commits /\ a = IF out.ok THEN "ok" ELSE "server"
        \/ ~b.usable /\ e = rest /\ C = {} /\ a = "conn"
    BY <1>1, <1>6 DEF Resumed
  <1>10. /\ b.status \in {"I", "T", "E"} /\ (b.status # "I" => b.usable)
         /\ b.status = "I" => b.xact = <<>> /\ b.levels = <<>>
    BY DEF Leased
  <1> QED BY <1>2, <1>4, <1>7, <1>9, <1>10

LEMMA WriteEffect ==
    ASSUME NEW b, NEW e, NEW C, NEW a, Leased(b), Resumed(b, e, C, a), Head(b.queue).op = "write"
    PROVE  LET w == Head(b.queue).w
               top == Len(b.levels)
           IN  \/ /\ b.status = "T" /\ a = "ok" /\ C = {}
                  /\ e = With(b, "T", b.xact, [b.levels EXCEPT ![top] = @ \cup {w}])
               \/ /\ b.status = "T" /\ a = "server" /\ C = {}
                  /\ e = With(b, "E", b.xact, b.levels)
               \/ /\ b.status = "I" /\ b.usable /\ a = "ok" /\ C = {w}
                  /\ e = With(b, "I", <<>>, <<>>)
               \/ /\ b.status # "T" /\ a # "ok" /\ C = {}
                  /\ e = With(b, b.status, b.xact, b.levels)
  <1>1. PICK rest : rest = [b EXCEPT !.queue = Tail(@)]
    OBVIOUS
  <1>2. /\ rest = With(b, b.status, b.xact, b.levels)
        /\ rest.status = b.status /\ rest.levels = b.levels
        /\ Idle(rest) = With(b, "I", <<>>, <<>>)
        /\ Failed(rest) = With(b, IF b.status = "I" THEN "I" ELSE "E", b.xact, b.levels)
        /\ Top(rest) = Len(b.levels) /\ Open(rest) = Open(b)
    BY <1>1, RestFacts
  <1>3. PICK x : x = [rest EXCEPT !.levels[Top(rest)] = @ \cup {Head(b.queue).w}]
    OBVIOUS
  <1>4. x = With(b, b.status, b.xact, [b.levels EXCEPT ![Len(b.levels)] = @ \cup {Head(b.queue).w}])
    BY <1>1, <1>2, <1>3 DEF With
  <1>5. Executed(rest, Head(b.queue)) = 
           IF b.status = "T" THEN Done(x) ELSE
           IF b.status = "I" THEN [Done(rest) EXCEPT !.commits = {Head(b.queue).w}] ELSE Refused(rest)
    BY <1>2, <1>3 DEF Executed, Leased
  <1>6. PICK out : out = Executed(rest, Head(b.queue))
    OBVIOUS
  <1>7. /\ out.commits = IF b.status = "I" THEN {Head(b.queue).w} ELSE {}
        /\ (out.ok <=> b.status # "E")
        /\ out.b = IF b.status = "T" THEN x ELSE IF b.status = "I" THEN rest ELSE Failed(rest)
    <2>1. CASE b.status = "T"
      BY <1>5, <1>6, <2>1 DEF Done
    <2>2. CASE b.status = "I"
      <3>1. out = [Done(rest) EXCEPT !.commits = {Head(b.queue).w}]
        BY <1>5, <1>6, <2>2
      <3> QED BY <2>2, <3>1 DEF Done
    <2>3. CASE b.status = "E"
      BY <1>5, <1>6, <2>3 DEF Refused
    <2> QED BY <2>1, <2>2, <2>3 DEF Leased
  <1>8. Rejected(rest, Head(b.queue)).b = Failed(rest)
    BY DEF Rejected, Refused
  <1>9. \/ b.usable /\ e = out.b /\ C = out.commits /\ a = IF out.ok THEN "ok" ELSE "server"
        \/ b.usable /\ b.status # "E" /\ e = Failed(rest) /\ C = {} /\ a = "server"
        \/ ~b.usable /\ e = rest /\ C = {} /\ a = "conn"
    BY <1>1, <1>6, <1>8 DEF Resumed
  <1>10. /\ b.status \in {"I", "T", "E"} /\ (b.status # "I" => b.usable)
         /\ b.status = "I" => b.xact = <<>> /\ b.levels = <<>>
    BY DEF Leased
  <1> QED BY <1>2, <1>4, <1>7, <1>9, <1>10

-----------------------------------------------------------------------------
(* What a caller does next.                                                *)

\* The caller k has memory m, connection b and results r.
Works(k, c, m, b, r) ==
    /\ call[k] = m /\ conn[c] = b /\ res[k] = r
    /\ m.conn = c /\ b.holder = k /\ AtWork(k, m, b, r, db)

LEMMA WorksFacts ==
    ASSUME Invariant, NEW k \in Callers, call[k].conn # Nobody
    PROVE  /\ call[k].conn \in Conns
           /\ Works(k, call[k].conn, call[k], conn[call[k].conn], res[k])
  BY DEF Invariant, Works

LEMMA HolderWorks ==
    ASSUME Invariant, NEW c \in Conns, conn[c] # Fresh
    PROVE  /\ conn[c].holder \in Callers /\ call[conn[c].holder].conn = c
           /\ Works(conn[c].holder, c, call[conn[c].holder], conn[c], res[conn[c].holder])
  BY NobodyAssumption DEF Invariant, Works

\* Only the database and the budget are not pointwise.
LEMMA Unchanged ==
    ASSUME Invariant, NEW k \in Callers, res' = res
    PROVE  res' = [res EXCEPT ![k] = res[k]]
  BY DEF Invariant

\* x is m with another pc, or another cause.
Same(x, m) ==
    /\ x.kind = m.kind /\ x.n = m.n /\ x.conn = m.conn /\ x.issued = m.issued
    /\ x.opened = m.opened /\ x.scopes = m.scopes

LEMMA PcSet ==
    ASSUME NEW k, NEW m, Typed(k, m), NEW pc, NEW x, x = [m EXCEPT !.pc = pc]
    PROVE  Typed(k, x) /\ x.pc = pc /\ x.cause = m.cause /\ Same(x, m)
  BY DEF Typed, Same

LEMMA CauseSet ==
    ASSUME NEW k, NEW m, Typed(k, m), NEW cause, NEW x, x = [m EXCEPT !.cause = cause]
    PROVE  Typed(k, x) /\ x.pc = m.pc /\ x.cause = cause /\ Same(x, m)
  BY DEF Typed, Same

\* The connection with a command more.
Sent(b, op, by) == [b EXCEPT !.queue = Append(@, [op |-> op, by |-> by, w |-> <<>>])]

LEMMA SentFacts ==
    ASSUME NEW b, NEW op, NEW by, Leased(b)
    PROVE  /\ Leased(Sent(b, op, by)) /\ Sent(b, op, by).holder = b.holder
           /\ Sent(b, op, by).queue = Append(b.queue, [op |-> op, by |-> by, w |-> <<>>])
           /\ Sent(b, op, by).usable = b.usable /\ Sent(b, op, by).status = b.status
           /\ Sent(b, op, by).xact = b.xact /\ Sent(b, op, by).levels = b.levels
  <1>1. PICK y, q : y = Sent(b, op, by) /\ q = Append(b.queue, [op |-> op, by |-> by, w |-> <<>>])
    OBVIOUS
  <1>2. y = [b EXCEPT !.queue = q]
    BY <1>1 DEF Sent
  <1>3. y = [holder |-> b.holder, queue |-> q, usable |-> b.usable,
             status |-> b.status, xact |-> b.xact, levels |-> b.levels]
    BY <1>2 DEF Leased
  <1> QED BY <1>1, <1>3 DEF Leased

\* The call waits for a command that goes behind its writes.
LEMMA SentWorks ==
    ASSUME NEW k \in Callers, NEW c, NEW x, NEW b, NEW r, NEW d, NEW op, NEW by,
           Typed(k, x), Phase(x), x.conn = c, b.holder = k, Leased(b), Backend(k, x, b),
           History(k, x, b.usable, r, d), Writes(k, Turn(x), b.queue),
           x.pc \in Blocked, op = OpOf(x.pc), by \in {<<k, x.n>>, <<k, 0>>},
           Alone(x) => b.queue = <<>>
    PROVE  Good(k, c, x, Sent(b, op, by), r, d)
  <1>1. PICK y, z : y = Sent(b, op, by) /\ z = [op |-> op, by |-> by, w |-> <<>>]
    OBVIOUS
  <1>2. /\ Leased(y) /\ y.holder = b.holder /\ y.queue = Append(b.queue, z)
        /\ y.usable = b.usable /\ y.status = b.status /\ y.xact = b.xact /\ y.levels = b.levels
    BY <1>1, SentFacts
  <1>3. z = [op |-> OpOf(x.pc), by |-> z.by, w |-> <<>>] /\ z.by \in {<<k, x.n>>, <<k, 0>>}
    BY <1>1
  <1>4. x.n \in Attempts
    BY DEF Typed
  <1>5. Outstanding(k, x, y.queue)
    BY <1>2, <1>3, <1>4, WritesBlocked
  <1>6. Backend(k, x, y)
    BY <1>2 DEF Backend
  <1>7. x.pc \notin Away
    BY DEF Blocked, Away
  <1>8. AtWork(k, x, y, r, d)
    BY <1>2, <1>5, <1>6, <1>7 DEF AtWork
  <1> QED BY <1>1, <1>2, <1>8 DEF Good

LEMMA AwaitStep ==
    ASSUME Invariant, NEW k \in Callers, NEW c \in Conns,
           call[k].conn = c \/ (call[k].conn = Nobody /\ conn[c] = Fresh),
           NEW m, NEW b, NEW op, NEW pc, Await(k, m, b, op, pc), NEW x, x = [m EXCEPT !.pc = pc],
           NEW d, db' = d, db \subseteq d, \A w \in d \ db : w[1] = k,
           Typed(k, m), m.conn = c, m.n = call[k].n,
           Phase(x), b.holder = k, Leased(b), Backend(k, x, b),
           History(k, x, b.usable, res[k], d), Writes(k, Turn(m), b.queue),
           pc \in Blocked, op = OpOf(pc), Alone(x) => b.queue = <<>>
    PROVE  Invariant'
  <1>1. Typed(k, x) /\ x.pc = pc /\ x.cause = m.cause /\ Same(x, m)
    BY PcSet
  <1>2. Turn(x) = Turn(m) /\ x.conn = c /\ x.n = call[k].n
    BY <1>1 DEF Turn, Same
  <1>3. PICK y, r : y = Sent(b, op, <<k, x.n>>) /\ r = res[k]
    OBVIOUS
  <1>4. Good(k, c, x, y, r, d)
    <2>1. PICK by : by = <<k, x.n>>
      OBVIOUS
    <2>2. /\ Writes(k, Turn(x), b.queue) /\ History(k, x, b.usable, r, d)
          /\ x.pc \in Blocked /\ op = OpOf(x.pc) /\ by \in {<<k, x.n>>, <<k, 0>>}
      BY <1>1, <1>2, <1>3, <2>1
    <2>3. Good(k, c, x, Sent(b, op, by), r, d)
      BY <1>1, <1>2, <2>2, SentWorks
    <2> QED BY <1>3, <2>1, <2>3
  <1>5. call' = [call EXCEPT ![k] = x] /\ conn' = [conn EXCEPT ![c] = y]
    BY <1>2, <1>3 DEF Await, Cmd, Attempt, Sent
  <1>6. res' = [res EXCEPT ![k] = r]
    BY <1>3, Unchanged DEF Await
  <1> QED BY <1>4, <1>5, <1>6, LocalStep

LEMMA ContinueStep ==
    ASSUME Invariant, NEW k \in Callers, NEW c \in Conns,
           call[k].conn = c \/ (call[k].conn = Nobody /\ conn[c] = Fresh),
           NEW m, NEW b, NEW pc, Continue(k, m, b, pc), NEW x, x = [m EXCEPT !.pc = pc],
           NEW d, db' = d, db \subseteq d, \A w \in d \ db : w[1] = k,
           Typed(k, m), m.conn = c,
           Phase(x), b.holder = k, Leased(b), Backend(k, x, b),
           History(k, x, b.usable, res[k], d), Writes(k, Turn(x), b.queue), pc \in Running
    PROVE  Invariant'
  <1>1. Typed(k, x) /\ x.pc = pc /\ x.cause = m.cause /\ Same(x, m)
    BY PcSet
  <1>2. x.conn = c
    BY <1>1 DEF Same
  <1>3. x.scopes = <<>> => x.kind # "transaction"
    BY <1>1 DEF Phase, Running, Away
  <1>4. Outstanding(k, x, b.queue)
    BY <1>1, <1>3, WritesRunning
  <1>5. x.pc \notin Away
    BY <1>1 DEF Running, Away
  <1>6. AtWork(k, x, b, res[k], d)
    BY <1>1, <1>4, <1>5 DEF AtWork
  <1>7. PICK r : r = res[k]
    OBVIOUS
  <1>8. Good(k, c, x, b, r, d)
    BY <1>2, <1>6, <1>7 DEF Good
  <1>9. call' = [call EXCEPT ![k] = x] /\ conn' = [conn EXCEPT ![c] = b]
    BY DEF Continue
  <1>10. res' = [res EXCEPT ![k] = r]
    BY <1>7, Unchanged DEF Continue
  <1> QED BY <1>8, <1>9, <1>10, LocalStep

\* A connection that comes back usable and idle, or is given up, is as new.
LEMMA BackFresh ==
    ASSUME NEW b, Leased(b), b.queue = <<>>, b.status = "I", NEW dispose
    PROVE  Back(b, dispose) = Fresh
  <1>1. PICK y : y = [b EXCEPT !.holder = Nobody]
    OBVIOUS
  <1>2. b.usable => y = Fresh
    BY <1>1 DEF Leased, Fresh
  <1> QED BY <1>1, <1>2 DEF Back

\* What an attempt leaves behind when it is over.
Ended(m) == [m EXCEPT !.scopes = <<>>, !.doomed = {}, !.cause = "none"]
Left(m) == [m EXCEPT !.conn = Nobody, !.issued = 0, !.opened = 0]
At(m, pc, n) == [m EXCEPT !.pc = pc, !.n = n]

LEMMA EndFacts ==
    ASSUME NEW k, NEW m, Typed(k, m), NEW end, end = Ended(m)
    PROVE  /\ Typed(k, end) /\ end.pc = m.pc /\ end.kind = m.kind /\ end.n = m.n /\ end.conn = m.conn
           /\ end.scopes = <<>> /\ end.issued = m.issued
  <1>1. end = [pc |-> m.pc, kind |-> m.kind, n |-> m.n, conn |-> m.conn, issued |-> m.issued,
               opened |-> m.opened, scopes |-> <<>>, doomed |-> {}, cause |-> "none"]
    BY DEF Typed, Ended
  <1> QED BY <1>1 DEF Typed

LEMMA LeftFacts ==
    ASSUME NEW k, NEW m, Typed(k, m), m.scopes = <<>>, NEW left, left = Left(m),
           NEW pc, NEW n \in Attempts, NEW x, x = At(left, pc, n)
    PROVE  /\ Typed(k, x) /\ x.pc = pc /\ x.kind = m.kind /\ x.n = n /\ x.conn = Nobody
           /\ x.scopes = <<>>
  <1>1. left = [pc |-> m.pc, kind |-> m.kind, n |-> m.n, conn |-> Nobody, issued |-> 0,
                opened |-> 0, scopes |-> m.scopes, doomed |-> m.doomed, cause |-> m.cause]
    BY DEF Typed, Left
  <1>2. /\ left = [pc |-> left.pc, kind |-> left.kind, n |-> left.n, conn |-> left.conn,
                   issued |-> left.issued, opened |-> left.opened, scopes |-> left.scopes,
                   doomed |-> left.doomed, cause |-> left.cause]
        /\ left.kind = m.kind /\ left.conn = Nobody /\ left.issued = 0 /\ left.scopes = m.scopes
    BY <1>1
  <1>3. x = [pc |-> pc, kind |-> left.kind, n |-> n, conn |-> left.conn, issued |-> left.issued,
             opened |-> left.opened, scopes |-> left.scopes, doomed |-> left.doomed, cause |-> left.cause]
    BY <1>2 DEF At
  <1>4. /\ x = [pc |-> x.pc, kind |-> x.kind, n |-> x.n, conn |-> x.conn, issued |-> x.issued,
                opened |-> x.opened, scopes |-> x.scopes, doomed |-> x.doomed, cause |-> x.cause]
        /\ x.pc = pc /\ x.kind = m.kind /\ x.n = n /\ x.conn = Nobody /\ x.issued = 0
        /\ x.scopes = m.scopes
    BY <1>2, <1>3
  <1>5. m.kind = KindOf[k] /\ m.scopes \in Seq(SUBSET Write)
    BY DEF Typed
  <1>6. x.kind = KindOf[k] /\ x.n \in Attempts /\ x.issued \in Nat /\ x.scopes \in Seq(SUBSET Write)
    BY <1>4, <1>5
  <1> QED BY <1>4, <1>6 DEF Typed

Kept(m) == IF m.scopes = <<>> THEN {} ELSE m.scopes[1]

LEMMA OverStep ==
    ASSUME Invariant, NEW k \in Callers, NEW c \in Conns, NEW m, m = call[k], m.conn = c,
           NEW b, NEW told, NEW tag, NEW dispose, Over(k, m, b, told, tag, dispose),
           NEW d, db' = d, db \subseteq d, \A w \in d \ db : w[1] = k,
           Typed(k, m), m.n # 0, b.holder = k, Leased(b), b.queue = <<>>,
           Settled(k, m.n, res[k], d), Fits(k, m.n, [told |-> told, kept |-> Kept(m), tag |-> tag], d),
           m.kind = "session" /\ b.status # "I" =>
               b.xact[1] = k /\ Len(b.levels) = 1 /\ b.levels[1] \subseteq WritesOf(k, 0),
           m.kind = "transaction" =>
               /\ b.status = "I"
               /\ \A i, j \in Attempts : d \cap WritesOf(k, i) # {} /\ d \cap WritesOf(k, j) # {} => i = j
               /\ told = "retryable" => \A i \in Attempts : d \cap WritesOf(k, i) = {}
    PROVE  Invariant'
  <1>1. PICK n, t, r, s : /\ n = m.n /\ t = [told |-> told, kept |-> Kept(m), tag |-> tag]
                          /\ r = res[k] /\ s = [r EXCEPT ![n] = t]
    OBVIOUS
  <1>2. n \in Attempts \ {0}
    BY <1>1 DEF Typed
  <1>3. res' = [res EXCEPT ![k] = s]
    BY <1>1 DEF Over, Kept
  <1>4. ASSUME NEW x, NEW u, Once(k, x, u, d),
               x.pc = "done" \/ (x.pc = "session" /\ x.n = n) \/ x.n = n + 1
        PROVE  History(k, x, u, s, d)
    <2>1. Settled(k, n, r, d) /\ Fits(k, n, t, d)
      BY <1>1
    <2> QED BY <1>1, <1>2, <1>4, <2>1, HistoryTold
  <1>5. PICK end : end = Ended(m)
    OBVIOUS
  <1>6. /\ Typed(k, end) /\ end.pc = m.pc /\ end.kind = m.kind /\ end.n = m.n /\ end.conn = m.conn
        /\ end.scopes = <<>> /\ end.issued = m.issued
    BY <1>5, EndFacts
  <1>7. m.kind \in {"session", "transaction"}
    BY SessionAssumption DEF Typed
  <1>8. CASE m.kind = "session"
    <2>1. PICK x : x = [end EXCEPT !.pc = "session"]
      OBVIOUS
    <2>2. Typed(k, x) /\ x.pc = "session" /\ Same(x, end)
      BY <1>6, <2>1, PcSet
    <2>3. x.kind = "session" /\ x.n = n /\ x.conn = c /\ x.scopes = <<>>
      BY <1>1, <1>6, <1>8, <2>2 DEF Same
    <2>4. Phase(x) /\ x.pc \notin Away
      BY <1>2, <2>2, <2>3 DEF Phase, Away, Running, Blocked
    <2>5. Outstanding(k, x, b.queue)
      BY <2>2, <2>3 DEF Outstanding, Alone, Blocked
    <2>6. Backend(k, x, b)
      BY <1>8, <2>3 DEF Backend
    <2>7. Once(k, x, b.usable, d)
      BY <2>3 DEF Once
    <2>8. AtWork(k, x, b, s, d)
      BY <1>4, <2>2, <2>3, <2>4, <2>5, <2>6, <2>7 DEF AtWork
    <2>9. Good(k, c, x, b, s, d)
      BY <2>3, <2>8 DEF Good
    <2>10. call' = [call EXCEPT ![k] = x] /\ conn' = [conn EXCEPT ![c] = b]
      BY <1>5, <1>8, <2>1 DEF Over, Ended
    <2> QED BY <1>3, <2>9, <2>10, LocalStep
  <1>9. CASE m.kind = "transaction"
    <2>1. conn' = [conn EXCEPT ![c] = Fresh]
      BY <1>9, BackFresh DEF Over
    <2>2. PICK left : left = Left(end)
      OBVIOUS
    <2>3. left.n = n
      <3>1. left = [pc |-> end.pc, kind |-> end.kind, n |-> end.n, conn |-> Nobody, issued |-> 0,
                    opened |-> 0, scopes |-> end.scopes, doomed |-> end.doomed, cause |-> end.cause]
        BY <1>6, <2>2 DEF Typed, Left
      <3> QED BY <1>1, <1>6, <3>1
    <2>4. CASE call' = [call EXCEPT ![k] = [left EXCEPT !.pc = "done", !.n = 0]]
      <3>1. PICK x : x = At(left, "done", 0)
        OBVIOUS
      <3>2. 0 \in Attempts
        BY SessionAssumption DEF Attempts
      <3>3. /\ Typed(k, x) /\ x.pc = "done" /\ x.kind = m.kind /\ x.n = 0 /\ x.conn = Nobody
            /\ x.scopes = <<>>
        BY <1>6, <2>2, <3>1, <3>2, LeftFacts
      <3>4. Phase(x) /\ x.pc \in Away
        BY <3>3 DEF Phase, Away, Running, Blocked
      <3>5. Once(k, x, TRUE, d)
        BY <1>9, <3>3 DEF Once
      <3>6. AtRest(k, x, s, d)
        BY <1>4, <3>3, <3>4, <3>5 DEF AtRest
      <3>7. Good(k, c, x, Fresh, s, d)
        BY <3>3, <3>6 DEF Good
      <3>8. call' = [call EXCEPT ![k] = x]
        BY <2>4, <3>1 DEF At
      <3> QED BY <1>3, <2>1, <3>7, <3>8, LocalStep
    <2>5. CASE /\ shouldRetry(m, told)
               /\ call' = [call EXCEPT ![k] = [left EXCEPT !.pc = "acquire", !.n = @ + 1]]
      <3>1. PICK x : x = At(left, "acquire", n + 1)
        OBVIOUS
      <3>2. n + 1 \in Attempts /\ told = "retryable"
        BY <1>1, <1>2, <2>5, SessionAssumption DEF Attempts, shouldRetry
      <3>3. /\ Typed(k, x) /\ x.pc = "acquire" /\ x.kind = m.kind /\ x.n = n + 1 /\ x.conn = Nobody
            /\ x.scopes = <<>>
        BY <1>6, <2>2, <3>1, <3>2, LeftFacts
      <3>4. Phase(x) /\ x.pc \in Away
        BY <1>2, <3>3 DEF Phase, Away, Running, Blocked, Attempts
      <3>5. Once(k, x, TRUE, d)
        BY <1>9, <3>2 DEF Once
      <3>6. AtRest(k, x, s, d)
        BY <1>4, <3>3, <3>4, <3>5 DEF AtRest
      <3>7. Good(k, c, x, Fresh, s, d)
        BY <3>3, <3>6 DEF Good
      <3>8. call' = [call EXCEPT ![k] = x]
        BY <2>3, <2>5, <3>1 DEF At
      <3> QED BY <1>3, <2>1, <3>7, <3>8, LocalStep
    <2> QED BY <1>5, <1>9, <2>2, <2>4, <2>5 DEF Over, Ended, Left
  <1> QED BY <1>7, <1>8, <1>9

-----------------------------------------------------------------------------
(* The answer to the command that a call waits for.                        *)

\* The call k waits for the only command of its connection, which is resumed.
Answering(k, c, m, b, e, C, a, tag) ==
    /\ Works(k, c, m, b, res[k]) /\ m.pc \in Blocked
    /\ Head(b.queue).op = OpOf(m.pc) /\ Head(b.queue).by \in {<<k, m.n>>, <<k, 0>>}
    /\ Tail(b.queue) = <<>> /\ Resumed(b, e, C, a)
    /\ a = "ok" => tag = IF b.status = "T" THEN "COMMIT" ELSE "ROLLBACK"

LEMMA AnsweringFacts ==
    ASSUME NEW k \in Callers, NEW c, NEW m, NEW b, NEW e, NEW C, NEW a, NEW tag,
           Answering(k, c, m, b, e, C, a, tag)
    PROVE  /\ call[k] = m /\ call[k].conn = c /\ m.conn = c /\ b.holder = k
           /\ Typed(k, m) /\ Phase(m) /\ Leased(b) /\ Backend(k, m, b) /\ m.n \in Attempts
           /\ History(k, m, b.usable, res[k], db)
           /\ m.pc \in Blocked /\ Head(b.queue).op = OpOf(m.pc) /\ Tail(b.queue) = <<>>
           /\ Resumed(b, e, C, a) /\ b.usable \in BOOLEAN
           /\ m.kind \in {"session", "transaction"}
  BY SessionAssumption DEF Answering, Works, AtWork, Typed, Leased

LEMMA WithFacts ==
    ASSUME NEW b, Leased(b), Tail(b.queue) = <<>>, NEW s \in {"I", "T", "E"}, NEW x,
           NEW l \in Seq(SUBSET Write), s = "I" => x = <<>> /\ l = <<>>, s # "I" => b.usable,
           NEW e, e = With(b, s, x, l)
    PROVE  /\ Leased(e) /\ e.holder = b.holder /\ e.queue = <<>> /\ e.usable = b.usable
           /\ e.status = s /\ e.xact = x /\ e.levels = l
  <1>1. /\ e.holder = b.holder /\ e.queue = <<>> /\ e.usable = b.usable
        /\ e.status = s /\ e.xact = x /\ e.levels = l
        /\ e = [holder |-> e.holder, queue |-> e.queue, usable |-> e.usable,
                status |-> e.status, xact |-> e.xact, levels |-> e.levels]
    BY DEF With
  <1>2. b.usable \in BOOLEAN
    BY DEF Leased
  <1> QED BY <1>1, <1>2 DEF Leased

LEMMA NoWrites ==
    ASSUME NEW k, NEW t
    PROVE  Writes(k, t, <<>>)
  BY DEF Writes

\* The attempt of a call that waits, or runs in a transaction.
LEMMA AttemptFacts ==
    ASSUME NEW k, NEW m, NEW u, NEW r, NEW d, Typed(k, m), Phase(m), History(k, m, u, r, d),
           m.pc \notin Away \cup {"session", "sql"}
    PROVE  /\ m.n \in Attempts \ {0} /\ r[m.n].told = "none" /\ Settled(k, m.n, r, d)
           /\ ~Unanswered(m, u) => d \cap WritesOf(k, m.n) = {}
  <1>1. m.n \in Attempts \ {0}
    BY DEF Typed, Phase, Away
  <1>2. r[m.n].told = "none"
    BY <1>1 DEF History, Pending, Away
  <1>3. ~Unanswered(m, u) => d \cap WritesOf(k, m.n) = {}
    BY <1>1, <1>2 DEF History, Pending
  <1>4. Settled(k, m.n, r, d)
    BY DEF History, Pending, Settled, Away
  <1> QED BY <1>1, <1>2, <1>3, <1>4

\* The scopes of the callbacks are set.
Scoped(m, s) == [m EXCEPT !.scopes = s]

LEMMA ScopesSet ==
    ASSUME NEW k, NEW m, Typed(k, m), NEW s \in Seq(SUBSET Write), NEW x, x = Scoped(m, s)
    PROVE  /\ Typed(k, x) /\ x.pc = m.pc /\ x.kind = m.kind /\ x.n = m.n /\ x.conn = m.conn
           /\ x.scopes = s /\ x.cause = m.cause
  BY DEF Typed, Scoped

\* rollback is sent: the callback threw, or the attempt failed.
LEMMA RollBackStep ==
    ASSUME Invariant, NEW k \in Callers, NEW c \in Conns, call[k].conn = c,
           NEW m, m.conn = c, m.n = call[k].n, NEW b, NEW cause, RollBack(k, m, b, cause),
           UNCHANGED db, Typed(k, m), Phase(m), m.pc \in {"begin", "commit", "body"},
           b.holder = k, Leased(b), Writes(k, Turn(m), b.queue),
           b.status # "I" => Backend(k, m, b),
           m.scopes = <<>> /\ m.kind = "transaction" => b.status = "I" /\ b.queue = <<>>,
           b.status = "I" /\ b.usable /\ m.scopes # <<>> => cause = "error",
           \/ cause \in {"rollback", "retryable", "final"}
           \/ cause = "error" /\ m.kind = "session" /\ b.queue = <<>>,
           NEW u, History(k, m, u, res[k], db),
           Unanswered(m, u) => cause = "error" /\ ~b.usable
    PROVE  Invariant'
  <1>1. PICK x, d : x = [m EXCEPT !.cause = cause] /\ d = db
    OBVIOUS
  <1>2. Typed(k, x) /\ x.pc = m.pc /\ x.cause = cause /\ Same(x, m)
    BY <1>1, CauseSet
  <1>3. PICK y : y = [x EXCEPT !.pc = "rollback"]
    OBVIOUS
  <1>4. Typed(k, y) /\ y.pc = "rollback" /\ y.cause = x.cause /\ Same(y, x)
    BY <1>2, <1>3, PcSet
  <1>5. /\ y.kind = m.kind /\ y.n = m.n /\ y.scopes = m.scopes /\ y.cause = cause
        /\ x.scopes = m.scopes /\ x.n = m.n /\ x.conn = c
    BY <1>2, <1>4 DEF Same
  <1>6. m.n \in Attempts \ {0} /\ res[k][m.n].told = "none"
    BY AttemptFacts DEF Away
  <1>7. Phase(y)
    BY <1>4, <1>5, <1>6 DEF Phase, Away, Blocked, Running
  <1>8. Backend(k, y, b)
    <2>1. CASE b.status # "I"
      BY <1>4, <1>5, <2>1 DEF Backend, Uncommitted
    <2>2. CASE b.status = "I"
      BY <1>4, <1>5, <2>2 DEF Backend
    <2> QED BY <2>1, <2>2
  <1>9. History(k, y, b.usable, res[k], d)
    <2>1. CASE ~Unanswered(m, u)
      BY <1>1, <1>5, <1>6, <2>1, HistoryKept
    <2>2. CASE Unanswered(m, u)
      <3>1. cause = "error" /\ ~b.usable /\ y.kind = "session"
        BY <1>5, <2>2
      <3>2. Unanswered(y, b.usable)
        BY <1>4, <1>5, <3>1 DEF Unanswered
      <3>3. Once(k, y, b.usable, d)
        BY <3>1 DEF Once
      <3>4. Pending(k, y, b.usable, res[k], d)
        BY <1>1, <1>4, <1>5, <1>6, <3>2 DEF History, Pending
      <3> QED BY <1>1, <3>3, <3>4 DEF History
    <2> QED BY <2>1, <2>2
  <1>10. Alone(y) => b.queue = <<>>
    BY <1>4, <1>5 DEF Alone
  <1>11. Await(k, x, b, "rollback", "rollback")
    BY <1>1 DEF RollBack
  <1>12. db \subseteq d /\ (\A w \in d \ db : w[1] = k) /\ db' = d /\ Writes(k, Turn(x), b.queue)
    BY <1>1, <1>5 DEF Turn
  <1>13. "rollback" \in Blocked /\ "rollback" = OpOf("rollback")
    BY DEF Blocked, OpOf
  <1> QED BY <1>2, <1>3, <1>5, <1>7, <1>8, <1>9, <1>10, <1>11, <1>12, <1>13, AwaitStep

LEMMA BeginAnswered ==
    ASSUME Invariant, NEW k \in Callers, NEW c \in Conns, NEW m, NEW b, NEW e, NEW C, NEW a, NEW tag,
           Answering(k, c, m, b, e, C, a, tag), m.pc = "begin",
           db' = db \cup C, Answered(k, m, e, a, tag)
    PROVE  Invariant'
  <1>1. /\ call[k] = m /\ call[k].conn = c /\ m.conn = c /\ b.holder = k
        /\ Typed(k, m) /\ Phase(m) /\ Leased(b) /\ Backend(k, m, b)
        /\ History(k, m, b.usable, res[k], db)
        /\ Head(b.queue).op = "begin" /\ Tail(b.queue) = <<>> /\ Resumed(b, e, C, a)
        /\ m.kind \in {"session", "transaction"}
    BY AnsweringFacts DEF OpOf
  <1>2. m.scopes = <<>> /\ ~Unanswered(m, b.usable)
    BY <1>1 DEF Phase, Unanswered, Away
  <1>3. /\ m.n \in Attempts \ {0} /\ res[k][m.n].told = "none" /\ Settled(k, m.n, res[k], db)
        /\ db \cap WritesOf(k, m.n) = {}
    BY <1>1, <1>2, AttemptFacts DEF Away
  <1>4. PICK d : d = db
    OBVIOUS
  <1>5. C = {}
    BY <1>1, BeginEffect
  <1>6. db' = d /\ UNCHANGED db /\ db \subseteq d /\ \A w \in d \ db : w[1] = k
    BY <1>4, <1>5
  <1>7. Begun(k, m, e, a)
    BY DEF Answered
  <1>8. CASE a = "ok"
    <2>1. Len(<<{}>>) = 1 /\ <<{}>>[1] = {} /\ <<{}>> \in Seq(SUBSET Write) /\ <<{}>> # <<>>
      OBVIOUS
    <2>2. PICK x, s : s = <<{}>> /\ x = Scoped(m, s)
      OBVIOUS
    <2>3. /\ Typed(k, x) /\ x.pc = m.pc /\ x.kind = m.kind /\ x.n = m.n /\ x.conn = m.conn
          /\ x.scopes = <<{}>> /\ x.cause = m.cause
      <3>1. Typed(k, m) /\ s \in Seq(SUBSET Write) /\ x = Scoped(m, s)
        BY <1>1, <2>1, <2>2
      <3>2. /\ Typed(k, x) /\ x.pc = m.pc /\ x.kind = m.kind /\ x.n = m.n /\ x.conn = m.conn
            /\ x.scopes = s /\ x.cause = m.cause
        BY <3>1, ScopesSet
      <3> QED BY <2>2, <3>2
    <2>4. PICK y : y = [x EXCEPT !.pc = "body"]
      OBVIOUS
    <2>5. Typed(k, y) /\ y.pc = "body" /\ Same(y, x)
      BY <2>3, <2>4, PcSet
    <2>6. y.kind = m.kind /\ y.n = m.n /\ y.scopes = <<{}>>
      BY <2>3, <2>5 DEF Same
    <2>7. Phase(y)
      BY <1>3, <2>5, <2>6 DEF Phase, Away, Blocked, Running
    <2>8. PICK l, q : /\ e = With(b, "T", q, l) /\ l \in Seq(SUBSET Write) /\ Len(l) = 1 /\ b.usable
                      /\ l[1] \subseteq WritesOf(k, 0) /\ (l[1] # {} => m.kind = "session") /\ q[1] = k
      <3>1. CASE b.usable /\ b.status = "I" /\ e = With(b, "T", Head(b.queue).by, <<{}>>)
        <4>1. Head(b.queue).by[1] = k
          BY DEF Answering
        <4> QED BY <2>1, <3>1, <4>1
      <3>2. CASE b.status = "T" /\ e = With(b, "T", b.xact, b.levels)
        BY <1>1, <1>2, <3>2 DEF Backend, Leased
      <3> QED BY <1>1, <1>8, <3>1, <3>2, BeginEffect
    <2>9. /\ Leased(e) /\ e.holder = k /\ e.queue = <<>> /\ e.usable = b.usable
          /\ e.status = "T" /\ e.xact = q /\ e.levels = l
      <3>1. PICK t : t = "T"
        OBVIOUS
      <3>2. t \in {"I", "T", "E"} /\ t # "I" /\ e = With(b, t, q, l)
        BY <2>8, <3>1
      <3>3. (t = "I" => q = <<>> /\ l = <<>>) /\ (t # "I" => b.usable)
        BY <2>8, <3>2
      <3>4. Leased(b) /\ Tail(b.queue) = <<>> /\ l \in Seq(SUBSET Write)
        BY <1>1, <2>8
      <3>5. /\ Leased(e) /\ e.holder = b.holder /\ e.queue = <<>> /\ e.usable = b.usable
            /\ e.status = t /\ e.xact = q /\ e.levels = l
        BY <3>2, <3>3, <3>4, WithFacts
      <3> QED BY <1>1, <3>1, <3>5
    <2>10. Backend(k, y, e)
      <3>1. e.levels[1] \cap WritesOf(k, y.n) = {}
        BY <1>3, <2>6, <2>8, <2>9, WritesApart
      <3>2. e.levels[1] \subseteq Uncommitted(k, y)
        BY <2>6, <2>8, <2>9 DEF Uncommitted
      <3>3. Len(e.levels) = 1 /\ Len(y.scopes) = 1 /\ y.scopes[1] = {} /\ y.scopes # <<>>
        BY <2>6, <2>1, <2>8, <2>9
      <3>4. \A i \in 1..Len(e.levels) : i = 1
        BY <3>3
      <3> QED BY <2>5, <2>8, <2>9, <3>1, <3>2, <3>3, <3>4 DEF Backend
    <2>11. History(k, y, e.usable, res[k], d)
      BY <1>1, <1>2, <1>3, <1>4, <2>6, HistoryKept
    <2>12. Writes(k, Turn(y), e.queue) /\ "body" \in Running
      BY <2>9, NoWrites DEF Running
    <2>13. Continue(k, x, e, "body")
      BY <1>7, <1>8, <2>2 DEF Begun, Scoped
    <2> QED BY <1>1, <1>6, <2>3, <2>4, <2>7, <2>9, <2>10, <2>11, <2>12, <2>13, ContinueStep
  <1>9. CASE a # "ok"
    <2>1. PICK s, q, l : /\ e = With(b, s, q, l) /\ s = b.status /\ q = b.xact /\ l = b.levels
                         /\ s \in {"I", "E"} /\ (s = "I" => ~b.usable)
      <3>1. CASE b.status = "E" /\ e = With(b, "E", b.xact, b.levels)
        BY <3>1
      <3>2. CASE ~b.usable /\ e = With(b, "I", <<>>, <<>>)
        BY <1>1, <3>2 DEF Leased
      <3> QED BY <1>1, <1>9, <3>1, <3>2, BeginEffect
    <2>2. /\ Leased(e) /\ e.holder = k /\ e.queue = <<>> /\ e.usable = b.usable
          /\ e.status = b.status /\ e.xact = b.xact /\ e.levels = b.levels
      <3>1. s \in {"I", "T", "E"} /\ l \in Seq(SUBSET Write) /\ (s = "I" => q = <<>> /\ l = <<>>) /\ (s # "I" => b.usable)
        BY <1>1, <2>1 DEF Leased
      <3> QED BY <1>1, <2>1, <3>1, WithFacts
    <2>3. Backend(k, m, e)
      BY <1>1, <2>2 DEF Backend
    <2>4. CASE m.kind = "session"
      <3>1. Over(k, m, e, "error", "none", FALSE)
        BY <1>7, <1>9, <2>4 DEF Begun
      <3>2. Fits(k, m.n, [told |-> "error", kept |-> Kept(m), tag |-> "none"], d)
        BY DEF Fits
      <3>3. e.status # "I" => e.xact[1] = k /\ Len(e.levels) = 1 /\ e.levels[1] \subseteq WritesOf(k, 0)
        BY <1>2, <2>3 DEF Backend
      <3> QED BY <1>1, <1>3, <1>4, <1>6, <2>2, <2>4, <3>1, <3>2, <3>3, OverStep
    <2>5. CASE m.kind = "transaction"
      <3>1. RollBack(k, m, e, "retryable")
        BY <1>7, <1>9, <2>5 DEF Begun
      <3>2. Writes(k, Turn(m), e.queue)
        BY <2>2, NoWrites
      <3>3. e.status = "I" /\ m.pc \in {"begin", "commit", "body"}
        BY <1>1, <1>2, <2>2, <2>5 DEF Backend
      <3> QED BY <1>1, <1>2, <1>6, <2>2, <3>1, <3>2, <3>3, RollBackStep
    <2> QED BY <1>1, <2>4, <2>5
  <1> QED BY <1>8, <1>9

LEMMA UnionOne ==
    ASSUME NEW s \in Seq(SUBSET Write), Len(s) = 1
    PROVE  UNION Range(s) = s[1]
  <1>1. DOMAIN s = {1}
    OBVIOUS
  <1> QED BY <1>1 DEF Range

\* COMMIT or ROLLBACK ended the transaction of the connection.
LEMMA IdleFacts ==
    ASSUME NEW b, Leased(b), Tail(b.queue) = <<>>, NEW e, e = With(b, "I", <<>>, <<>>)
    PROVE  /\ Leased(e) /\ e.holder = b.holder /\ e.queue = <<>> /\ e.usable = b.usable
           /\ e.status = "I"
  <1>1. PICK s, l : s = "I" /\ l = <<>>
    OBVIOUS
  <1>2. s \in {"I", "T", "E"} /\ l \in Seq(SUBSET Write) /\ (s = "I" => l = <<>>) /\ (s # "I" => b.usable)
    BY <1>1
  <1>3. e = With(b, s, l, l)
    BY <1>1
  <1>4. /\ Leased(e) /\ e.holder = b.holder /\ e.queue = <<>> /\ e.usable = b.usable
        /\ e.status = s
    BY <1>2, <1>3, WithFacts
  <1> QED BY <1>1, <1>4

\* What a commit adds to the database: what the outermost scope kept.
LEMMA CommitAdds ==
    ASSUME NEW k \in Callers, NEW m, NEW b, Typed(k, m), Phase(m), m.pc = "commit", Leased(b), Backend(k, m, b),
           b.status = "T"
    PROVE  /\ Open(b) \cap WritesOf(k, m.n) = m.scopes[1] /\ Kept(m) = m.scopes[1]
           /\ Open(b) \subseteq Uncommitted(k, m) /\ \A w \in Open(b) : w[1] = k
  <1>1. m.scopes # <<>> /\ Len(m.scopes) = 1
    BY DEF Phase, Away
  <1>2. Len(b.levels) = 1 /\ b.levels[1] \subseteq Uncommitted(k, m) /\ b.levels[1] \cap WritesOf(k, m.n) = m.scopes[1]
    <2>1. /\ Len(b.levels) = Len(m.scopes)
          /\ \A i \in 1..Len(b.levels) :
                /\ b.levels[i] \subseteq Uncommitted(k, m)
                /\ b.levels[i] \cap WritesOf(k, m.n) = m.scopes[i]
      BY <1>1 DEF Backend
    <2>2. 1 \in 1..Len(b.levels)
      BY <1>1, <2>1
    <2> QED BY <1>1, <2>1, <2>2
  <1>3. Open(b) = b.levels[1]
    <2>1. b.levels \in Seq(SUBSET Write)
      BY DEF Leased
    <2> QED BY <1>2, <2>1, UnionOne DEF Open
  <1>4. \A w \in Uncommitted(k, m) : w[1] = k
    BY DEF Uncommitted, WritesOf
  <1> QED BY <1>1, <1>2, <1>3, <1>4 DEF Kept

\* The attempts of k when its current one committed the writes C.
LEMMA SettledMore ==
    ASSUME NEW k \in Callers, NEW m, NEW u, NEW r, NEW d, NEW C, Typed(k, m), Phase(m), m.pc = "commit",
           History(k, m, u, r, d), C \subseteq Uncommitted(k, m)
    PROVE  Settled(k, m.n, r, d \cup C)
  <1>1. /\ m.n \in Attempts \ {0} /\ r[m.n].told = "none" /\ Settled(k, m.n, r, d)
    BY AttemptFacts DEF Away
  <1>2. \A i \in Attempts \ {0} : i # m.n => (d \cup C) \cap WritesOf(k, i) = d \cap WritesOf(k, i)
    BY DEF Uncommitted, WritesOf
  <1>3. Truth(k, r, d \cup C)
    <2>1. ASSUME NEW i \in Attempts
          PROVE  LET there == (d \cup C) \cap WritesOf(k, i)
                 IN  /\ r[i].told = "commit" /\ r[i].tag = "COMMIT" => there = r[i].kept
                     /\ r[i].told \in {"rollback", "retryable", "final"} => there = {}
                     /\ r[i].told = "indeterminate" => there \in {{}, r[i].kept}
      <3>1. CASE i = m.n \/ i = 0
        BY <1>1, <3>1 DEF Settled
      <3>2. CASE i # m.n /\ i # 0
        BY <1>1, <1>2, <3>2 DEF Settled, Truth
      <3> QED BY <3>1, <3>2
    <2> QED BY <2>1 DEF Truth
  <1> QED BY <1>1, <1>2, <1>3 DEF Settled

LEMMA CommitAnswered ==
    ASSUME Invariant, NEW k \in Callers, NEW c \in Conns, NEW m, NEW b, NEW e, NEW C, NEW a, NEW tag,
           Answering(k, c, m, b, e, C, a, tag), m.pc = "commit",
           db' = db \cup C, Answered(k, m, e, a, tag)
    PROVE  Invariant'
  <1>1. /\ call[k] = m /\ call[k].conn = c /\ m.conn = c /\ b.holder = k
        /\ Typed(k, m) /\ Phase(m) /\ Leased(b) /\ Backend(k, m, b)
        /\ History(k, m, b.usable, res[k], db)
        /\ Head(b.queue).op = "commit" /\ Tail(b.queue) = <<>> /\ Resumed(b, e, C, a)
        /\ m.kind \in {"session", "transaction"}
    BY AnsweringFacts DEF OpOf
  <1>2. /\ m.n \in Attempts \ {0} /\ res[k][m.n].told = "none" /\ Settled(k, m.n, res[k], db)
        /\ b.usable => db \cap WritesOf(k, m.n) = {}
    BY <1>1, AttemptFacts DEF Away, Unanswered
  <1>3. m.scopes # <<>> /\ Kept(m) = m.scopes[1]
    BY <1>1 DEF Phase, Away, Kept
  <1>4. Leased(e) /\ e.holder = k /\ e.queue = <<>> /\ e.usable = b.usable /\ e.status = "I"
    BY <1>1, CommitEffect, IdleFacts
  <1>5. Committed(k, m, e, a, tag)
    BY DEF Answered
  <1>6. PICK d : d = db \cup C
    OBVIOUS
  <1>7. CASE a = "ok"
    <2>1. b.usable /\ C = (IF b.status = "T" THEN Open(b) ELSE {})
      BY <1>1, <1>7, CommitEffect
    <2>2. C \subseteq Uncommitted(k, m) /\ \A w \in C : w[1] = k
      BY <1>1, <2>1, CommitAdds
    <2>3. Settled(k, m.n, res[k], d)
      BY <1>1, <1>6, <2>2, SettledMore
    <2>4. Fits(k, m.n, [told |-> "commit", kept |-> Kept(m), tag |-> tag], d)
      <3>1. tag = "COMMIT" => b.status = "T"
        BY <1>7 DEF Answering
      <3>2. b.status = "T" => d \cap WritesOf(k, m.n) = m.scopes[1]
        <4> SUFFICES ASSUME b.status = "T"
                     PROVE  d \cap WritesOf(k, m.n) = m.scopes[1]
          OBVIOUS
        <4>1. Open(b) \cap WritesOf(k, m.n) = m.scopes[1]
          BY <1>1, CommitAdds
        <4> QED BY <1>2, <1>6, <2>1, <4>1
      <3> QED BY <1>3, <3>1, <3>2 DEF Fits
    <2>5. m.kind = "transaction" =>
             \A i, j \in Attempts : d \cap WritesOf(k, i) # {} /\ d \cap WritesOf(k, j) # {} => i = j
      <3> SUFFICES ASSUME m.kind = "transaction", NEW i \in Attempts, d \cap WritesOf(k, i) # {}
                   PROVE  i = m.n
        OBVIOUS
      <3>1. db \cap WritesOf(k, i) = {}
        BY <1>1, <2>1 DEF History, Once
      <3>2. C \subseteq WritesOf(k, m.n)
        BY <2>2 DEF Uncommitted
      <3> QED BY <1>6, <3>1, <3>2, WritesApart
    <2>6. Over(k, m, e, "commit", tag, FALSE)
      BY <1>5, <1>7 DEF Committed
    <2>7. db' = d /\ db \subseteq d /\ \A w \in d \ db : w[1] = k
      BY <1>6, <2>2
    <2> QED BY <1>1, <1>2, <1>4, <2>3, <2>4, <2>5, <2>6, <2>7, OverStep
  <1>8. CASE a # "ok"
    <2>1. C = {} /\ (a = "server" \/ a = "conn") /\ (a = "server" <=> b.usable)
      BY <1>1, <1>8, CommitEffect
    <2>2. db' = d /\ UNCHANGED db /\ d = db /\ db \subseteq d /\ \A w \in d \ db : w[1] = k
      BY <1>6, <2>1
    <2>3. CASE m.kind = "session"
      <3>1. RollBack(k, m, e, "error")
        BY <1>5, <1>8, <2>3 DEF Committed
      <3>2. Writes(k, Turn(m), e.queue)
        BY <1>4, NoWrites
      <3>3. Unanswered(m, b.usable) => ~e.usable
        BY <1>4 DEF Unanswered
      <3> QED BY <1>1, <1>3, <1>4, <2>2, <2>3, <3>1, <3>2, <3>3, RollBackStep
    <2>4. CASE m.kind = "transaction" /\ a = "conn"
      <3>1. Over(k, m, e, "indeterminate", tag, TRUE)
        BY <1>5, <1>8, <2>4 DEF Committed
      <3>2. Fits(k, m.n, [told |-> "indeterminate", kept |-> Kept(m), tag |-> tag], d)
        <4>1. d \cap WritesOf(k, m.n) \in {{}, Kept(m)}
          BY <1>1, <1>2, <1>3, <2>2 DEF History, Pending
        <4> QED BY <4>1 DEF Fits
      <3>3. \A i, j \in Attempts : d \cap WritesOf(k, i) # {} /\ d \cap WritesOf(k, j) # {} => i = j
        BY <1>1, <2>2, <2>4 DEF History, Once
      <3> QED BY <1>1, <1>2, <1>4, <2>2, <2>4, <3>1, <3>2, <3>3, OverStep
    <2>5. CASE m.kind = "transaction" /\ a = "server"
      <3>1. Over(k, m, e, "retryable", tag, FALSE)
        BY <1>5, <1>8, <2>5 DEF Committed
      <3>2. \A i \in Attempts : d \cap WritesOf(k, i) = {}
        BY <1>1, <2>1, <2>2, <2>5 DEF History, Once
      <3>3. Fits(k, m.n, [told |-> "retryable", kept |-> Kept(m), tag |-> tag], d)
        BY <1>2, <3>2 DEF Fits
      <3> QED BY <1>1, <1>2, <1>4, <2>2, <2>5, <3>1, <3>2, <3>3, OverStep
    <2> QED BY <1>1, <2>1, <2>3, <2>4, <2>5
  <1> QED BY <1>7, <1>8

LEMMA RollbackAnswered ==
    ASSUME Invariant, NEW k \in Callers, NEW c \in Conns, NEW m, NEW b, NEW e, NEW C, NEW a, NEW tag,
           Answering(k, c, m, b, e, C, a, tag), m.pc = "rollback",
           db' = db \cup C, Answered(k, m, e, a, tag)
    PROVE  Invariant'
  <1>1. /\ call[k] = m /\ call[k].conn = c /\ m.conn = c /\ b.holder = k
        /\ Typed(k, m) /\ Phase(m) /\ Leased(b)
        /\ History(k, m, b.usable, res[k], db)
        /\ Head(b.queue).op = "rollback" /\ Tail(b.queue) = <<>> /\ Resumed(b, e, C, a)
        /\ m.kind \in {"session", "transaction"}
    BY AnsweringFacts DEF OpOf
  <1>2. /\ m.n \in Attempts \ {0} /\ Settled(k, m.n, res[k], db)
        /\ m.cause # "error" => db \cap WritesOf(k, m.n) = {}
    BY <1>1, AttemptFacts DEF Away, Unanswered
  <1>3. C = {} /\ Leased(e) /\ e.holder = k /\ e.queue = <<>> /\ e.usable = b.usable /\ e.status = "I"
    BY <1>1, RollbackEffect, IdleFacts
  <1>4. PICK d : d = db
    OBVIOUS
  <1>5. db' = d /\ db \subseteq d /\ \A w \in d \ db : w[1] = k
    BY <1>3, <1>4
  <1>6. PICK dispose : Over(k, m, e, m.cause, "none", dispose)
    BY DEF Answered
  <1>7. \/ m.cause \in {"rollback", "retryable", "final"}
        \/ m.cause = "error" /\ m.kind = "session"
    BY <1>1 DEF Phase
  <1>8. Fits(k, m.n, [told |-> m.cause, kept |-> Kept(m), tag |-> "none"], d)
    BY <1>2, <1>4, <1>7 DEF Fits
  <1>9. m.kind = "transaction" => \A i \in Attempts : d \cap WritesOf(k, i) = {}
    BY <1>1, <1>4 DEF History, Once
  <1>10. m.kind = "transaction" =>
            /\ e.status = "I"
            /\ \A i, j \in Attempts : d \cap WritesOf(k, i) # {} /\ d \cap WritesOf(k, j) # {} => i = j
            /\ m.cause = "retryable" => \A i \in Attempts : d \cap WritesOf(k, i) = {}
    BY <1>3, <1>9
  <1> QED BY <1>1, <1>2, <1>3, <1>4, <1>5, <1>6, <1>8, <1>10, OverStep

-----------------------------------------------------------------------------
(* Savepoints.                                                             *)

\* The connection and its transaction are as before.
LEMMA SameFacts ==
    ASSUME NEW b, Leased(b), Tail(b.queue) = <<>>, NEW e, e = With(b, b.status, b.xact, b.levels)
    PROVE  /\ Leased(e) /\ e.holder = b.holder /\ e.queue = <<>> /\ e.usable = b.usable
           /\ e.status = b.status /\ e.xact = b.xact /\ e.levels = b.levels
  <1>1. PICK s, q, l : s = b.status /\ q = b.xact /\ l = b.levels
    OBVIOUS
  <1>2. s \in {"I", "T", "E"} /\ l \in Seq(SUBSET Write) /\ (s = "I" => q = <<>> /\ l = <<>>) /\ (s # "I" => b.usable)
    BY <1>1 DEF Leased
  <1>3. e = With(b, s, q, l)
    BY <1>1
  <1>4. /\ Leased(e) /\ e.holder = b.holder /\ e.queue = <<>> /\ e.usable = b.usable
        /\ e.status = s /\ e.xact = q /\ e.levels = l
    BY <1>2, <1>3, WithFacts
  <1> QED BY <1>1, <1>4

\* The transaction has other levels, and no error.
Levelled(b, l) == With(b, "T", b.xact, l)

LEMMA LevelFacts ==
    ASSUME NEW b, Leased(b), Tail(b.queue) = <<>>, b.status # "I", NEW l \in Seq(SUBSET Write),
           NEW e, e = Levelled(b, l)
    PROVE  /\ Leased(e) /\ e.holder = b.holder /\ e.queue = <<>> /\ e.usable = b.usable
           /\ e.status = "T" /\ e.xact = b.xact /\ e.levels = l
  <1>1. PICK s, q : s = "T" /\ q = b.xact
    OBVIOUS
  <1>2. s \in {"I", "T", "E"} /\ e = With(b, s, q, l)
    BY <1>1 DEF Levelled
  <1>3. (s = "I" => q = <<>> /\ l = <<>>) /\ (s # "I" => b.usable)
    BY <1>1 DEF Leased
  <1>4. /\ Leased(e) /\ e.holder = b.holder /\ e.queue = <<>> /\ e.usable = b.usable
        /\ e.status = s /\ e.xact = q /\ e.levels = l
    BY <1>2, <1>3, WithFacts
  <1> QED BY <1>1, <1>4

\* The levels l of a transaction of k against the scopes s of attempt n, when
\* the innermost scope lost what it wrote and when it did not.
Match(k, m, l, s, lost) ==
    /\ Len(l) = Len(s)
    /\ \A i \in 1..Len(l) :
          /\ l[i] \subseteq Uncommitted(k, m)
          /\ l[i] \cap WritesOf(k, m.n) = IF lost /\ i = Len(l) THEN {} ELSE s[i]

LEMMA BackendMatch ==
    ASSUME NEW k, NEW m, NEW b, Backend(k, m, b), m.scopes # <<>>, b.status # "I"
    PROVE  Match(k, m, b.levels, m.scopes, m.pc = "undone")
  BY DEF Backend, Match

LEMMA MatchBackend ==
    ASSUME NEW k, NEW m, NEW x, NEW b, x.n = m.n, x.kind = m.kind, x.scopes # <<>>,
           b.status = "I" => ~b.usable, b.status # "I" => b.xact[1] = k,
           b.status # "I" => Match(k, m, b.levels, x.scopes, x.pc = "undone"),
           x.pc = "undone" /\ b.status # "I" => b.status = "T"
    PROVE  Backend(k, x, b)
  BY DEF Backend, Match, Uncommitted

LEMMA AppendFacts ==
    ASSUME NEW s \in Seq(SUBSET Write), NEW x \in SUBSET Write
    PROVE  /\ Append(s, x) \in Seq(SUBSET Write) /\ Len(Append(s, x)) = Len(s) + 1 /\ Append(s, x) # <<>>
           /\ Len(s) \in Nat /\ Append(s, x)[Len(s) + 1] = x
           /\ \A i \in 1..Len(s) : Append(s, x)[i] = s[i]
  OBVIOUS

LEMMA FrontFacts ==
    ASSUME NEW S, NEW s \in Seq(S), Len(s) > 0
    PROVE  /\ Front(s) \in Seq(S) /\ Len(Front(s)) = Len(s) - 1
           /\ \A i \in 1..(Len(s) - 1) : Front(s)[i] = s[i]
  <1>1. PICK n : n = Len(s) - 1
    OBVIOUS
  <1>2. n \in Nat /\ n <= Len(s)
    BY <1>1
  <1>3. SubSeq(s, 1, n) \in Seq(S)
    BY <1>2
  <1>4. Len(SubSeq(s, 1, n)) = n
    BY <1>2
  <1>5. \A i \in 1..n : SubSeq(s, 1, n)[i] = s[i]
    BY <1>2
  <1> QED BY <1>1, <1>3, <1>4, <1>5 DEF Front

LEMMA MergedFacts ==
    ASSUME NEW s \in Seq(SUBSET Write), Len(s) > 1, NEW x \in SUBSET Write
    PROVE  /\ Merged(s, x) \in Seq(SUBSET Write) /\ Len(Merged(s, x)) = Len(s) - 1 /\ Merged(s, x) # <<>>
           /\ \A i \in 1..(Len(s) - 2) : Merged(s, x)[i] = s[i]
           /\ Merged(s, x)[Len(s) - 1] = x \cup s[Len(s) - 1]
  <1>1. PICK f, t : f = Front(s) /\ t = Front(f)
    OBVIOUS
  <1>2. /\ f \in Seq(SUBSET Write) /\ Len(f) = Len(s) - 1
        /\ \A i \in 1..(Len(s) - 1) : f[i] = s[i]
    <2>1. Len(s) > 0
      OBVIOUS
    <2> QED BY <1>1, <2>1, FrontFacts
  <1>3. /\ t \in Seq(SUBSET Write) /\ Len(t) = Len(s) - 2
        /\ \A i \in 1..(Len(s) - 2) : t[i] = s[i]
    <2>1. f \in Seq(SUBSET Write) /\ Len(f) > 0
      BY <1>2
    <2>2. /\ t \in Seq(SUBSET Write) /\ Len(t) = Len(f) - 1
          /\ \A i \in 1..(Len(f) - 1) : t[i] = f[i]
      BY <1>1, <2>1, FrontFacts
    <2> QED BY <1>2, <2>2
  <1>4. PICK y : y = x \cup s[Len(s) - 1]
    OBVIOUS
  <1>5. y \in SUBSET Write
    BY <1>4
  <1>6. /\ Append(t, y) \in Seq(SUBSET Write) /\ Len(Append(t, y)) = Len(t) + 1 /\ Append(t, y) # <<>>
        /\ Append(t, y)[Len(t) + 1] = y /\ \A i \in 1..Len(t) : Append(t, y)[i] = t[i]
    BY <1>3, <1>5, AppendFacts
  <1>7. Merged(s, x) = Append(t, y)
    BY <1>1, <1>4 DEF Merged
  <1> QED BY <1>3, <1>4, <1>6, <1>7

\* A released savepoint gives its level to the enclosing one, and its scope.
LEMMA MatchMerged ==
    ASSUME NEW k, NEW m, NEW l \in Seq(SUBSET Write), NEW s \in Seq(SUBSET Write), NEW lost \in BOOLEAN,
           Match(k, m, l, s, lost), Len(l) > 1
    PROVE  Match(k, m, Merged(l, l[Len(l)]), Merged(s, IF lost THEN {} ELSE s[Len(s)]), FALSE)
  <1>1. PICK v, x, y : v = Len(l) /\ x = l[v] /\ y = IF lost THEN {} ELSE s[v]
    OBVIOUS
  <1>2. /\ v \in Nat /\ v > 1 /\ Len(s) = v
        /\ \A i \in 1..(v - 1) : l[i] \subseteq Uncommitted(k, m) /\ l[i] \cap WritesOf(k, m.n) = s[i]
        /\ x \subseteq Uncommitted(k, m) /\ x \cap WritesOf(k, m.n) = y
    BY <1>1 DEF Match
  <1>3. x \in SUBSET Write /\ y \in SUBSET Write
    BY <1>1, <1>2
  <1>4. PICK p, q : p = Merged(l, x) /\ q = Merged(s, y)
    OBVIOUS
  <1>5. /\ Len(p) = v - 1 /\ Len(q) = v - 1 /\ p[v - 1] = x \cup l[v - 1] /\ q[v - 1] = y \cup s[v - 1]
        /\ \A i \in 1..(v - 2) : p[i] = l[i] /\ q[i] = s[i]
    <2>1. /\ Len(p) = Len(l) - 1 /\ p[Len(l) - 1] = x \cup l[Len(l) - 1]
          /\ \A i \in 1..(Len(l) - 2) : p[i] = l[i]
      BY <1>3, <1>4, MergedFacts
    <2>2. Len(s) > 1
      BY <1>2
    <2>3. /\ Len(q) = Len(s) - 1 /\ q[Len(s) - 1] = y \cup s[Len(s) - 1]
          /\ \A i \in 1..(Len(s) - 2) : q[i] = s[i]
      BY <1>3, <1>4, <2>2, MergedFacts
    <2> QED BY <1>1, <1>2, <2>1, <2>3
  <1>6. ASSUME NEW i \in 1..(v - 1)
        PROVE  p[i] \subseteq Uncommitted(k, m) /\ p[i] \cap WritesOf(k, m.n) = q[i]
    <2>1. CASE i = v - 1
      BY <1>2, <1>5, <2>1
    <2>2. CASE i # v - 1
      <3>1. i \in 1..(v - 2)
        BY <1>2, <2>2
      <3> QED BY <1>2, <1>5, <3>1
    <2> QED BY <2>1, <2>2
  <1>7. Match(k, m, p, q, FALSE)
    BY <1>5, <1>6 DEF Match
  <1> QED BY <1>1, <1>2, <1>4, <1>7

LEMMA PopFacts ==
    ASSUME NEW k, NEW m, Typed(k, m), Len(m.scopes) > 1, NEW keeps \in BOOLEAN, NEW x, x = Pop(m, keeps),
           NEW s, s = Merged(m.scopes, IF keeps THEN m.scopes[Len(m.scopes)] ELSE {})
    PROVE  /\ Typed(k, x) /\ x.pc = m.pc /\ x.kind = m.kind /\ x.n = m.n /\ x.conn = m.conn
           /\ x.scopes = s /\ s \in Seq(SUBSET Write) /\ s # <<>>
  <1>1. m.scopes \in Seq(SUBSET Write) /\ Len(m.scopes) \in Nat
    BY DEF Typed
  <1>2. PICK kept, v : v = Len(m.scopes) /\ kept = IF keeps THEN m.scopes[v] ELSE {}
    OBVIOUS
  <1>3. kept \in SUBSET Write
    BY <1>1, <1>2
  <1>4. s = Merged(m.scopes, kept)
    BY <1>2
  <1>5. s \in Seq(SUBSET Write) /\ s # <<>>
    BY <1>1, <1>3, <1>4, MergedFacts
  <1>6. s = Append(Front(Front(m.scopes)), m.scopes[v - 1] \cup kept)
    BY <1>2, <1>4 DEF Merged
  <1>7. PICK z : z = m.doomed \ {v - 1}
    OBVIOUS
  <1>8. x = [m EXCEPT !.scopes = s, !.doomed = z]
    BY <1>2, <1>6, <1>7 DEF Pop
  <1>9. x = [pc |-> m.pc, kind |-> m.kind, n |-> m.n, conn |-> m.conn, issued |-> m.issued,
             opened |-> m.opened, scopes |-> s, doomed |-> z, cause |-> m.cause]
    BY <1>8 DEF Typed
  <1>10. /\ x.pc = m.pc /\ x.kind = m.kind /\ x.n = m.n /\ x.conn = m.conn /\ x.issued = m.issued
         /\ x.scopes = s
         /\ x = [pc |-> x.pc, kind |-> x.kind, n |-> x.n, conn |-> x.conn, issued |-> x.issued,
                 opened |-> x.opened, scopes |-> x.scopes, doomed |-> x.doomed, cause |-> x.cause]
    BY <1>9
  <1>11. m.kind = KindOf[k] /\ m.n \in Attempts /\ m.issued \in Nat
    BY DEF Typed
  <1>12. Typed(k, x)
    BY <1>5, <1>10, <1>11 DEF Typed
  <1> QED BY <1>5, <1>10, <1>12

\* The callback goes on in its transaction, after the answer to a savepoint
\* command: y has the scopes that match the levels of the connection.
LEMMA BodyStep ==
    ASSUME Invariant, NEW k \in Callers, NEW c \in Conns, NEW m, m = call[k], m.conn = c,
           NEW x, NEW e, Continue(k, x, e, "body"),
           Typed(k, m), Phase(m), m.pc \notin Away \cup {"session", "sql"},
           Typed(k, x), x.kind = m.kind, x.n = m.n, x.conn = m.conn, x.scopes # <<>>,
           e.holder = k, Leased(e), e.queue = <<>>, UNCHANGED db,
           e.status = "I" => ~e.usable, e.status # "I" => e.xact[1] = k,
           e.status # "I" => Match(k, m, e.levels, x.scopes, FALSE),
           NEW u, History(k, m, u, res[k], db), ~Unanswered(m, u)
    PROVE  Invariant'
  <1>1. m.n \in Attempts \ {0} /\ res[k][m.n].told = "none"
    BY AttemptFacts
  <1>2. PICK y, d : y = [x EXCEPT !.pc = "body"] /\ d = db
    OBVIOUS
  <1>3. Typed(k, y) /\ y.pc = "body" /\ Same(y, x)
    BY <1>2, PcSet
  <1>4. y.kind = m.kind /\ y.n = m.n /\ y.scopes = x.scopes /\ y.scopes # <<>>
    BY <1>3 DEF Same
  <1>5. Phase(y)
    BY <1>1, <1>3, <1>4 DEF Phase, Away, Blocked, Running
  <1>6. Backend(k, y, e)
    <2>1. y.pc # "undone" /\ (e.status # "I" => Match(k, m, e.levels, y.scopes, y.pc = "undone"))
      BY <1>3, <1>4
    <2> QED BY <1>4, <2>1, MatchBackend
  <1>7. History(k, y, e.usable, res[k], d)
    <2>1. m.pc # "done" /\ m.n \in Attempts
      BY <1>1 DEF Away
    <2>2. History(k, y, e.usable, res[k], db)
      BY <1>1, <1>4, <2>1, HistoryKept
    <2> QED BY <1>2, <2>2
  <1>8. Writes(k, Turn(y), e.queue) /\ "body" \in Running
    BY NoWrites DEF Running
  <1>9. db' = d /\ db \subseteq d /\ \A w \in d \ db : w[1] = k
    BY <1>2
  <1> QED BY <1>2, <1>5, <1>6, <1>7, <1>8, <1>9, ContinueStep

\* The call waits for the next command that ends a savepoint.
LEMMA UndoStep ==
    ASSUME Invariant, NEW k \in Callers, NEW c \in Conns, call[k].conn = c,
           NEW m, m.conn = c, m.n = call[k].n,
           NEW e, NEW op, NEW pc \in {"release", "undo", "undone"}, op = OpOf(pc), Await(k, m, e, op, pc),
           Typed(k, m), Phase(m), m.pc \notin Away \cup {"session", "sql"}, Len(m.scopes) > 1,
           e.holder = k, Leased(e), Writes(k, m.n, e.queue), pc = "undone" => e.queue = <<>>, UNCHANGED db,
           e.status = "I" => ~e.usable, e.status # "I" => e.xact[1] = k,
           e.status # "I" => Match(k, m, e.levels, m.scopes, pc = "undone"),
           pc = "undone" /\ e.status # "I" => e.status = "T",
           NEW u, History(k, m, u, res[k], db), ~Unanswered(m, u)
    PROVE  Invariant'
  <1>1. m.n \in Attempts \ {0} /\ res[k][m.n].told = "none"
    BY AttemptFacts
  <1>2. PICK y, d : y = [m EXCEPT !.pc = pc] /\ d = db
    OBVIOUS
  <1>3. Typed(k, y) /\ y.pc = pc /\ y.cause = m.cause /\ Same(y, m)
    BY <1>2, PcSet
  <1>4. y.kind = m.kind /\ y.n = m.n /\ y.scopes = m.scopes
    BY <1>3 DEF Same
  <1>5. m.scopes # <<>>
    BY DEF Typed
  <1>6. Phase(y)
    BY <1>1, <1>3, <1>4, <1>5 DEF Phase, Away, Blocked, Running
  <1>7. Backend(k, y, e)
    <2>1. e.status # "I" => Match(k, m, e.levels, y.scopes, y.pc = "undone")
      BY <1>3, <1>4
    <2>2. y.pc = "undone" /\ e.status # "I" => e.status = "T"
      BY <1>3
    <2> QED BY <1>4, <1>5, <2>1, <2>2, MatchBackend
  <1>8. History(k, y, e.usable, res[k], d)
    <2>1. m.pc # "done" /\ m.n \in Attempts
      BY <1>1 DEF Away
    <2>2. History(k, y, e.usable, res[k], db)
      BY <1>1, <1>4, <2>1, HistoryKept
    <2> QED BY <1>2, <2>2
  <1>9. Turn(m) = m.n
    BY <1>5 DEF Turn
  <1>10. pc \in Blocked
    BY DEF Blocked
  <1>11. Alone(y) => e.queue = <<>>
    BY <1>3, <1>4, <1>5 DEF Alone
  <1>12. db' = d /\ db \subseteq d /\ (\A w \in d \ db : w[1] = k) /\ Writes(k, Turn(m), e.queue)
    BY <1>2, <1>9
  <1> QED BY <1>2, <1>6, <1>7, <1>8, <1>10, <1>11, <1>12, AwaitStep

LEMMA SavepointAnswered ==
    ASSUME Invariant, NEW k \in Callers, NEW c \in Conns, NEW m, NEW b, NEW e, NEW C, NEW a, NEW tag,
           Answering(k, c, m, b, e, C, a, tag), m.pc = "savepoint",
           db' = db \cup C, Answered(k, m, e, a, tag)
    PROVE  Invariant'
  <1>1. /\ call[k] = m /\ call[k].conn = c /\ m.conn = c /\ b.holder = k
        /\ Typed(k, m) /\ Phase(m) /\ Leased(b) /\ Backend(k, m, b)
        /\ History(k, m, b.usable, res[k], db)
        /\ Head(b.queue).op = "savepoint" /\ Tail(b.queue) = <<>> /\ Resumed(b, e, C, a)
    BY AnsweringFacts DEF OpOf
  <1>2. /\ m.scopes # <<>> /\ m.scopes \in Seq(SUBSET Write) /\ ~Unanswered(m, b.usable)
        /\ b.status = "I" => ~b.usable
        /\ b.status # "I" => b.xact[1] = k /\ Match(k, m, b.levels, m.scopes, FALSE)
    <2>1. m.scopes # <<>> /\ m.pc # "undone"
      BY <1>1 DEF Phase, Away
    <2>2. b.status # "I" => Match(k, m, b.levels, m.scopes, FALSE)
      BY <1>1, <2>1, BackendMatch
    <2> QED BY <1>1, <2>1, <2>2 DEF Backend, Typed, Unanswered
  <1>3. C = {}
    BY <1>1, SavepointEffect
  <1>4. UNCHANGED db /\ m.pc \notin Away \cup {"session", "sql"}
    BY <1>3 DEF Away
  <1>5. Continue(k, IF a = "ok" THEN [m EXCEPT !.scopes = Append(@, {})] ELSE m, e, "body")
    BY DEF Answered
  <1>6. CASE b.status = "T" /\ a = "ok" /\ e = With(b, "T", b.xact, Append(b.levels, {}))
    <2>1. PICK s, l : s = Append(m.scopes, {}) /\ l = Append(b.levels, {})
      OBVIOUS
    <2>2. b.levels \in Seq(SUBSET Write) /\ {} \in SUBSET Write
      BY <1>1 DEF Leased
    <2>3. /\ s \in Seq(SUBSET Write) /\ Len(s) = Len(m.scopes) + 1 /\ s # <<>> /\ Len(m.scopes) \in Nat
          /\ s[Len(m.scopes) + 1] = {} /\ \A i \in 1..Len(m.scopes) : s[i] = m.scopes[i]
      BY <1>2, <2>1, <2>2, AppendFacts
    <2>4. /\ l \in Seq(SUBSET Write) /\ Len(l) = Len(b.levels) + 1
          /\ l[Len(b.levels) + 1] = {} /\ \A i \in 1..Len(b.levels) : l[i] = b.levels[i]
      BY <2>1, <2>2, AppendFacts
    <2>5. Match(k, m, l, s, FALSE)
      <3>1. /\ Len(b.levels) = Len(m.scopes)
            /\ \A i \in 1..Len(m.scopes) : /\ b.levels[i] \subseteq Uncommitted(k, m)
                                           /\ b.levels[i] \cap WritesOf(k, m.n) = m.scopes[i]
        BY <1>2, <1>6 DEF Match
      <3>2. ASSUME NEW i \in 1..Len(l)
            PROVE  l[i] \subseteq Uncommitted(k, m) /\ l[i] \cap WritesOf(k, m.n) = s[i]
        <4>1. CASE i = Len(m.scopes) + 1
          BY <2>3, <2>4, <3>1, <4>1
        <4>2. CASE i # Len(m.scopes) + 1
          <5>1. i \in 1..Len(m.scopes)
            BY <2>3, <2>4, <3>1, <4>2
          <5> QED BY <2>3, <2>4, <3>1, <5>1
        <4> QED BY <4>1, <4>2
      <3> QED BY <2>3, <2>4, <3>1, <3>2 DEF Match
    <2>6. /\ Leased(e) /\ e.holder = k /\ e.queue = <<>> /\ e.usable = b.usable
          /\ e.status = "T" /\ e.xact = b.xact /\ e.levels = l
      <3>1. /\ Leased(b) /\ Tail(b.queue) = <<>> /\ b.status # "I"
            /\ l \in Seq(SUBSET Write) /\ e = Levelled(b, l)
        BY <1>1, <1>6, <2>1, <2>4 DEF Levelled
      <3>2. /\ Leased(e) /\ e.holder = b.holder /\ e.queue = <<>> /\ e.usable = b.usable
            /\ e.status = "T" /\ e.xact = b.xact /\ e.levels = l
        BY <3>1, LevelFacts
      <3> QED BY <1>1, <3>2
    <2>7. PICK x : x = Scoped(m, s)
      OBVIOUS
    <2>8. /\ Typed(k, x) /\ x.kind = m.kind /\ x.n = m.n /\ x.conn = m.conn /\ x.scopes = s
      BY <1>1, <2>3, <2>7, ScopesSet
    <2>9. Continue(k, x, e, "body")
      BY <1>5, <1>6, <2>1, <2>7 DEF Scoped
    <2>10. /\ x.scopes # <<>> /\ (e.status = "I" => ~e.usable) /\ (e.status # "I" => e.xact[1] = k)
           /\ e.status # "I" => Match(k, m, e.levels, x.scopes, FALSE)
      BY <1>2, <1>6, <2>3, <2>5, <2>6, <2>8
    <2> QED BY <1>1, <1>2, <1>4, <2>6, <2>8, <2>9, <2>10, BodyStep
  <1>7. CASE b.status # "T" /\ a # "ok" /\ e = With(b, b.status, b.xact, b.levels)
    <2>1. /\ Leased(e) /\ e.holder = k /\ e.queue = <<>> /\ e.usable = b.usable
          /\ e.status = b.status /\ e.xact = b.xact /\ e.levels = b.levels
      BY <1>1, <1>7, SameFacts
    <2>2. Continue(k, m, e, "body")
      BY <1>5, <1>7
    <2> QED BY <1>1, <1>2, <1>4, <2>1, <2>2, BodyStep
  <1> QED BY <1>1, <1>6, <1>7, SavepointEffect

\* What the answers to the commands that end a savepoint have in common.
LEMMA ScopeFacts ==
    ASSUME NEW k \in Callers, NEW c, NEW m, NEW b, NEW e, NEW C, NEW a, NEW tag,
           Answering(k, c, m, b, e, C, a, tag), m.pc \in {"release", "undo", "undone"}
    PROVE  /\ m.scopes \in Seq(SUBSET Write) /\ Len(m.scopes) > 1 /\ m.scopes # <<>>
           /\ ~Unanswered(m, b.usable) /\ m.pc \notin Away \cup {"session", "sql"}
           /\ b.status = "I" => ~b.usable
           /\ b.status # "I" => /\ b.xact[1] = k /\ Len(b.levels) = Len(m.scopes)
                                /\ Match(k, m, b.levels, m.scopes, m.pc = "undone")
                                /\ m.pc = "undone" => b.status = "T"
           /\ b.levels \in Seq(SUBSET Write) /\ (b.status = "T" => Len(b.levels) > 1)
  <1>1. Typed(k, m) /\ Phase(m) /\ Leased(b) /\ Backend(k, m, b)
    BY AnsweringFacts
  <1>2. Len(m.scopes) > 1 /\ m.scopes # <<>>
    BY <1>1 DEF Phase, Away
  <1>3. b.status # "I" => Match(k, m, b.levels, m.scopes, m.pc = "undone")
    BY <1>1, <1>2, BackendMatch
  <1> QED BY <1>1, <1>2, <1>3 DEF Backend, Typed, Unanswered, Away, Leased, Match

LEMMA ReleaseAnswered ==
    ASSUME Invariant, NEW k \in Callers, NEW c \in Conns, NEW m, NEW b, NEW e, NEW C, NEW a, NEW tag,
           Answering(k, c, m, b, e, C, a, tag), m.pc = "release",
           db' = db \cup C, Answered(k, m, e, a, tag)
    PROVE  Invariant'
  <1>1. /\ call[k] = m /\ call[k].conn = c /\ m.conn = c /\ b.holder = k /\ m.n = call[k].n
        /\ Typed(k, m) /\ Phase(m) /\ Leased(b)
        /\ History(k, m, b.usable, res[k], db)
        /\ Head(b.queue).op = "release" /\ Tail(b.queue) = <<>> /\ Resumed(b, e, C, a)
    BY AnsweringFacts DEF OpOf
  <1>2. /\ m.scopes \in Seq(SUBSET Write) /\ Len(m.scopes) > 1
        /\ ~Unanswered(m, b.usable) /\ m.pc \notin Away \cup {"session", "sql"}
        /\ b.status = "I" => ~b.usable
        /\ b.status # "I" => b.xact[1] = k /\ Match(k, m, b.levels, m.scopes, FALSE)
        /\ b.levels \in Seq(SUBSET Write) /\ (b.status = "T" => Len(b.levels) > 1)
    <2>1. m.pc \in {"release", "undo", "undone"}
      OBVIOUS
    <2>2. /\ m.scopes \in Seq(SUBSET Write) /\ Len(m.scopes) > 1 /\ m.scopes # <<>>
          /\ ~Unanswered(m, b.usable) /\ m.pc \notin Away \cup {"session", "sql"}
          /\ b.status = "I" => ~b.usable
          /\ b.status # "I" => /\ b.xact[1] = k /\ Len(b.levels) = Len(m.scopes)
                               /\ Match(k, m, b.levels, m.scopes, m.pc = "undone")
                               /\ m.pc = "undone" => b.status = "T"
          /\ b.levels \in Seq(SUBSET Write) /\ (b.status = "T" => Len(b.levels) > 1)
      BY <2>1, ScopeFacts
    <2>3. (m.pc = "undone") = FALSE
      OBVIOUS
    <2> QED BY <2>2, <2>3
  <1>3. C = {} /\ UNCHANGED db
    BY <1>1, <1>2, ReleaseEffect
  <1>4. IF a = "ok" THEN Continue(k, Pop(m, TRUE), e, "body") ELSE Undo(k, m, e)
    BY DEF Answered
  <1>5. CASE /\ b.status = "T" /\ a = "ok"
             /\ e = With(b, "T", b.xact, Merged(b.levels, b.levels[Len(b.levels)]))
    <2>1. PICK l, s, x : /\ l = Merged(b.levels, b.levels[Len(b.levels)])
                         /\ s = Merged(m.scopes, m.scopes[Len(m.scopes)]) /\ x = Pop(m, TRUE)
      OBVIOUS
    <2>2. l \in Seq(SUBSET Write)
      <3>1. b.levels[Len(b.levels)] \in SUBSET Write
        BY <1>2, <1>5
      <3> QED BY <1>2, <1>5, <2>1, <3>1, MergedFacts
    <2>3. Match(k, m, l, s, FALSE)
      BY <1>2, <1>5, <2>1, MatchMerged
    <2>4. /\ Typed(k, x) /\ x.kind = m.kind /\ x.n = m.n /\ x.conn = m.conn
          /\ x.scopes = s /\ s # <<>>
      <3>1. PICK keeps : keeps = TRUE
        OBVIOUS
      <3>2. keeps \in BOOLEAN /\ x = Pop(m, keeps) /\ s = Merged(m.scopes, IF keeps THEN m.scopes[Len(m.scopes)] ELSE {})
        BY <2>1, <3>1
      <3> QED BY <1>1, <1>2, <3>2, PopFacts
    <2>5. /\ Leased(b) /\ Tail(b.queue) = <<>> /\ b.status # "I" /\ e = Levelled(b, l)
      BY <1>1, <1>5, <2>1 DEF Levelled
    <2>6. /\ Leased(e) /\ e.holder = k /\ e.queue = <<>>
          /\ e.status = "T" /\ e.xact = b.xact /\ e.levels = l
      BY <1>1, <2>2, <2>5, LevelFacts
    <2>7. Continue(k, x, e, "body")
      BY <1>4, <1>5, <2>1
    <2>8. /\ x.scopes # <<>> /\ (e.status = "I" => ~e.usable) /\ (e.status # "I" => e.xact[1] = k)
          /\ e.status # "I" => Match(k, m, e.levels, x.scopes, FALSE)
      BY <1>2, <1>5, <2>3, <2>4, <2>6
    <2> QED BY <1>1, <1>2, <1>3, <2>4, <2>6, <2>7, <2>8, BodyStep
  <1>6. CASE b.status # "T" /\ a # "ok" /\ e = With(b, b.status, b.xact, b.levels)
    <2>1. /\ Leased(e) /\ e.holder = k /\ e.queue = <<>> /\ e.usable = b.usable
          /\ e.status = b.status /\ e.xact = b.xact /\ e.levels = b.levels
      BY <1>1, <1>6, SameFacts
    <2>2. PICK op, pc : op = "rollbackTo" /\ pc = "undo"
      OBVIOUS
    <2>3. Await(k, m, e, op, pc) /\ pc \in {"release", "undo", "undone"} /\ op = OpOf(pc) /\ pc # "undone"
      BY <1>4, <1>6, <2>2 DEF Undo, OpOf
    <2>4. Writes(k, m.n, e.queue)
      BY <2>1, NoWrites
    <2>5. e.status # "I" => Match(k, m, e.levels, m.scopes, pc = "undone")
      BY <1>2, <2>1, <2>3
    <2>6. (e.status = "I" => ~e.usable) /\ (e.status # "I" => e.xact[1] = k)
      BY <1>2, <2>1
    <2> QED BY <1>1, <1>2, <1>3, <2>1, <2>3, <2>4, <2>5, <2>6, UndoStep
  <1> QED BY <1>1, <1>2, <1>5, <1>6, ReleaseEffect

\* A level that was rolled back is empty.
LEMMA MatchEmptied ==
    ASSUME NEW k, NEW m, NEW l \in Seq(SUBSET Write), NEW s, Match(k, m, l, s, FALSE), Len(l) > 1,
           NEW e, e = [l EXCEPT ![Len(l)] = {}]
    PROVE  e \in Seq(SUBSET Write) /\ Match(k, m, e, s, TRUE)
  <1>1. PICK v : v = Len(l) /\ v \in Nat
    OBVIOUS
  <1>2. /\ e \in Seq(SUBSET Write) /\ Len(e) = v /\ e[v] = {}
        /\ \A i \in 1..v : i # v => e[i] = l[i]
    <2>1. {} \in SUBSET Write
      OBVIOUS
    <2> QED BY <1>1, <2>1
  <1>3. Len(l) = Len(s)
    BY DEF Match
  <1>4. ASSUME NEW i \in 1..v
        PROVE  /\ e[i] \subseteq Uncommitted(k, m)
               /\ e[i] \cap WritesOf(k, m.n) = IF i = v THEN {} ELSE s[i]
    <2>1. CASE i = v
      BY <1>2, <2>1
    <2>2. CASE i # v
      BY <1>1, <1>2, <2>2 DEF Match
    <2> QED BY <2>1, <2>2
  <1> QED BY <1>1, <1>2, <1>3, <1>4 DEF Match

LEMMA UndoAnswered ==
    ASSUME Invariant, NEW k \in Callers, NEW c \in Conns, NEW m, NEW b, NEW e, NEW C, NEW a, NEW tag,
           Answering(k, c, m, b, e, C, a, tag), m.pc = "undo",
           db' = db \cup C, Answered(k, m, e, a, tag)
    PROVE  Invariant'
  <1>1. /\ call[k] = m /\ call[k].conn = c /\ m.conn = c /\ b.holder = k /\ m.n = call[k].n
        /\ Typed(k, m) /\ Phase(m) /\ Leased(b)
        /\ History(k, m, b.usable, res[k], db)
        /\ Head(b.queue).op = "rollbackTo" /\ Tail(b.queue) = <<>> /\ Resumed(b, e, C, a)
    BY AnsweringFacts DEF OpOf
  <1>2. /\ m.scopes \in Seq(SUBSET Write) /\ Len(m.scopes) > 1
        /\ ~Unanswered(m, b.usable) /\ m.pc \notin Away \cup {"session", "sql"}
        /\ b.status = "I" => ~b.usable
        /\ b.status # "I" => b.xact[1] = k /\ Match(k, m, b.levels, m.scopes, FALSE)
        /\ b.levels \in Seq(SUBSET Write) /\ (b.status # "I" => Len(b.levels) > 1)
    <2>1. m.pc \in {"release", "undo", "undone"}
      OBVIOUS
    <2>2. /\ m.scopes \in Seq(SUBSET Write) /\ Len(m.scopes) > 1 /\ m.scopes # <<>>
          /\ ~Unanswered(m, b.usable) /\ m.pc \notin Away \cup {"session", "sql"}
          /\ b.status = "I" => ~b.usable
          /\ b.status # "I" => /\ b.xact[1] = k /\ Len(b.levels) = Len(m.scopes)
                               /\ Match(k, m, b.levels, m.scopes, m.pc = "undone")
                               /\ m.pc = "undone" => b.status = "T"
          /\ b.levels \in Seq(SUBSET Write) /\ (b.status = "T" => Len(b.levels) > 1)
      BY <2>1, ScopeFacts
    <2>3. (m.pc = "undone") = FALSE
      OBVIOUS
    <2> QED BY <2>2, <2>3
  <1>3. C = {} /\ UNCHANGED db
    BY <1>1, <1>2, RollbackToEffect
  <1>4. PICK op, pc : op = "release" /\ pc = "undone"
    OBVIOUS
  <1>5. Await(k, m, e, op, pc) /\ pc \in {"release", "undo", "undone"} /\ op = OpOf(pc) /\ pc = "undone"
    BY <1>4 DEF Answered, OpOf
  <1>6. /\ Leased(e) /\ e.holder = k /\ e.queue = <<>> /\ (e.status = "I" => ~e.usable)
        /\ e.status # "I" => /\ e.xact[1] = k /\ e.status = "T"
                             /\ Match(k, m, e.levels, m.scopes, TRUE)
    <2>1. CASE b.status # "I" /\ e = With(b, "T", b.xact, [b.levels EXCEPT ![Len(b.levels)] = {}])
      <3>1. PICK l : l = [b.levels EXCEPT ![Len(b.levels)] = {}]
        OBVIOUS
      <3>2. l \in Seq(SUBSET Write) /\ Match(k, m, l, m.scopes, TRUE)
        BY <1>2, <2>1, <3>1, MatchEmptied
      <3>3. Leased(b) /\ Tail(b.queue) = <<>> /\ b.status # "I" /\ e = Levelled(b, l)
        BY <1>1, <2>1, <3>1 DEF Levelled
      <3>4. /\ Leased(e) /\ e.holder = k /\ e.queue = <<>>
            /\ e.status = "T" /\ e.xact = b.xact /\ e.levels = l
        BY <1>1, <3>2, <3>3, LevelFacts
      <3> QED BY <1>2, <2>1, <3>2, <3>4
    <2>2. CASE b.status = "I" /\ e = With(b, b.status, b.xact, b.levels)
      <3>1. /\ Leased(e) /\ e.holder = b.holder /\ e.queue = <<>> /\ e.usable = b.usable
            /\ e.status = b.status /\ e.xact = b.xact /\ e.levels = b.levels
        BY <1>1, <2>2, SameFacts
      <3> QED BY <1>1, <1>2, <2>2, <3>1
    <2> QED BY <1>1, <1>2, <2>1, <2>2, RollbackToEffect
  <1>7. Writes(k, m.n, e.queue)
    BY <1>6, NoWrites
  <1>8. e.status # "I" => Match(k, m, e.levels, m.scopes, pc = "undone")
    BY <1>5, <1>6
  <1> QED BY <1>1, <1>2, <1>3, <1>5, <1>6, <1>7, <1>8, UndoStep

LEMMA UndoneAnswered ==
    ASSUME Invariant, NEW k \in Callers, NEW c \in Conns, NEW m, NEW b, NEW e, NEW C, NEW a, NEW tag,
           Answering(k, c, m, b, e, C, a, tag), m.pc = "undone",
           db' = db \cup C, Answered(k, m, e, a, tag)
    PROVE  Invariant'
  <1>1. /\ call[k] = m /\ call[k].conn = c /\ m.conn = c /\ b.holder = k /\ m.n = call[k].n
        /\ Typed(k, m) /\ Phase(m) /\ Leased(b)
        /\ History(k, m, b.usable, res[k], db)
        /\ Head(b.queue).op = "release" /\ Tail(b.queue) = <<>> /\ Resumed(b, e, C, a)
    BY AnsweringFacts DEF OpOf
  <1>2. /\ m.scopes \in Seq(SUBSET Write) /\ Len(m.scopes) > 1
        /\ ~Unanswered(m, b.usable) /\ m.pc \notin Away \cup {"session", "sql"}
        /\ b.status = "I" => ~b.usable
        /\ b.status # "I" => /\ b.xact[1] = k /\ b.status = "T"
                             /\ Match(k, m, b.levels, m.scopes, TRUE)
        /\ b.levels \in Seq(SUBSET Write) /\ (b.status = "T" => Len(b.levels) > 1)
    <2>1. m.pc \in {"release", "undo", "undone"}
      OBVIOUS
    <2>2. /\ m.scopes \in Seq(SUBSET Write) /\ Len(m.scopes) > 1 /\ m.scopes # <<>>
          /\ ~Unanswered(m, b.usable) /\ m.pc \notin Away \cup {"session", "sql"}
          /\ b.status = "I" => ~b.usable
          /\ b.status # "I" => /\ b.xact[1] = k /\ Len(b.levels) = Len(m.scopes)
                               /\ Match(k, m, b.levels, m.scopes, m.pc = "undone")
                               /\ m.pc = "undone" => b.status = "T"
          /\ b.levels \in Seq(SUBSET Write) /\ (b.status = "T" => Len(b.levels) > 1)
      BY <2>1, ScopeFacts
    <2>3. (m.pc = "undone") = TRUE
      OBVIOUS
    <2> QED BY <2>2, <2>3
  <1>3. C = {} /\ UNCHANGED db
    BY <1>1, <1>2, ReleaseEffect
  <1>4. PICK s, x : s = Merged(m.scopes, {}) /\ x = Pop(m, FALSE)
    OBVIOUS
  <1>5. /\ Typed(k, x) /\ x.kind = m.kind /\ x.n = m.n /\ x.conn = m.conn
        /\ x.scopes = s /\ x.scopes # <<>>
    <2>1. PICK keeps : keeps = FALSE
      OBVIOUS
    <2>2. keeps \in BOOLEAN /\ x = Pop(m, keeps) /\ s = Merged(m.scopes, IF keeps THEN m.scopes[Len(m.scopes)] ELSE {})
      BY <1>4, <2>1
    <2> QED BY <1>1, <1>2, <2>2, PopFacts
  <1>6. Continue(k, x, e, "body")
    BY <1>4 DEF Answered
  <1>7. /\ Leased(e) /\ e.holder = k /\ e.queue = <<>> /\ (e.status = "I" => ~e.usable)
        /\ e.status # "I" => e.xact[1] = k /\ Match(k, m, e.levels, s, FALSE)
    <2>1. CASE /\ b.status = "T"
               /\ e = With(b, "T", b.xact, Merged(b.levels, b.levels[Len(b.levels)]))
      <3>1. PICK l : l = Merged(b.levels, b.levels[Len(b.levels)])
        OBVIOUS
      <3>2. l \in Seq(SUBSET Write)
        <4>1. b.levels[Len(b.levels)] \in SUBSET Write
          BY <1>2, <2>1
        <4> QED BY <1>2, <2>1, <3>1, <4>1, MergedFacts
      <3>3. Match(k, m, l, s, FALSE)
        BY <1>2, <1>4, <2>1, <3>1, MatchMerged
      <3>4. Leased(b) /\ Tail(b.queue) = <<>> /\ b.status # "I" /\ e = Levelled(b, l)
        BY <1>1, <2>1, <3>1 DEF Levelled
      <3>5. /\ Leased(e) /\ e.holder = k /\ e.queue = <<>>
            /\ e.status = "T" /\ e.xact = b.xact /\ e.levels = l
        BY <1>1, <3>2, <3>4, LevelFacts
      <3> QED BY <1>2, <2>1, <3>3, <3>5
    <2>2. CASE b.status # "T" /\ e = With(b, b.status, b.xact, b.levels)
      <3>1. /\ Leased(e) /\ e.holder = b.holder /\ e.queue = <<>> /\ e.usable = b.usable
            /\ e.status = b.status /\ e.xact = b.xact /\ e.levels = b.levels
        BY <1>1, <2>2, SameFacts
      <3> QED BY <1>1, <1>2, <2>2, <3>1
    <2> QED BY <1>1, <1>2, <2>1, <2>2, ReleaseEffect
  <1>8. e.status # "I" => Match(k, m, e.levels, x.scopes, FALSE)
    BY <1>5, <1>7
  <1> QED BY <1>1, <1>2, <1>3, <1>5, <1>6, <1>7, <1>8, BodyStep

\* The BEGIN that a session wrote by hand.
LEMMA SqlAnswered ==
    ASSUME Invariant, NEW k \in Callers, NEW c \in Conns, NEW m, NEW b, NEW e, NEW C, NEW a, NEW tag,
           Answering(k, c, m, b, e, C, a, tag), m.pc = "sql",
           db' = db \cup C, Answered(k, m, e, a, tag)
    PROVE  Invariant'
  <1>1. /\ call[k] = m /\ call[k].conn = c /\ m.conn = c /\ b.holder = k
        /\ Typed(k, m) /\ Phase(m) /\ Leased(b) /\ Backend(k, m, b) /\ m.n \in Attempts
        /\ History(k, m, b.usable, res[k], db)
        /\ Head(b.queue).op = "begin" /\ Tail(b.queue) = <<>> /\ Resumed(b, e, C, a)
    BY AnsweringFacts DEF OpOf
  <1>2. m.scopes = <<>> /\ m.kind = "session" /\ ~Unanswered(m, b.usable)
    BY <1>1 DEF Phase, Unanswered, Away
  <1>3. PICK d : d = db
    OBVIOUS
  <1>4. C = {}
    BY <1>1, BeginEffect
  <1>5. db' = d /\ db \subseteq d /\ \A w \in d \ db : w[1] = k
    BY <1>3, <1>4
  <1>6. Continue(k, m, e, "session")
    BY DEF Answered
  <1>7. PICK y : y = [m EXCEPT !.pc = "session"]
    OBVIOUS
  <1>8. Typed(k, y) /\ y.pc = "session" /\ Same(y, m)
    BY <1>1, <1>7, PcSet
  <1>9. y.kind = "session" /\ y.n = m.n /\ y.scopes = <<>>
    BY <1>2, <1>8 DEF Same
  <1>10. Phase(y)
    BY <1>8, <1>9 DEF Phase, Away, Blocked, Running
  <1>11. /\ Leased(e) /\ e.holder = k /\ e.queue = <<>> /\ e.usable = b.usable
         /\ e.status # "I" => e.xact[1] = k /\ Len(e.levels) = 1 /\ e.levels[1] \subseteq WritesOf(k, 0)
    <2>1. CASE b.usable /\ b.status = "I" /\ a = "ok" /\ e = With(b, "T", Head(b.queue).by, <<{}>>)
      <3>1. Len(<<{}>>) = 1 /\ <<{}>>[1] = {} /\ <<{}>> \in Seq(SUBSET Write)
        OBVIOUS
      <3>2. PICK t, q, l : t = "T" /\ q = Head(b.queue).by /\ l = <<{}>>
        OBVIOUS
      <3>3. t \in {"I", "T", "E"} /\ t # "I" /\ e = With(b, t, q, l)
        BY <2>1, <3>2
      <3>4. (t = "I" => q = <<>> /\ l = <<>>) /\ (t # "I" => b.usable)
        BY <2>1, <3>3
      <3>5. Leased(b) /\ Tail(b.queue) = <<>> /\ l \in Seq(SUBSET Write)
        BY <1>1, <3>1, <3>2
      <3>6. /\ Leased(e) /\ e.holder = b.holder /\ e.queue = <<>> /\ e.usable = b.usable
            /\ e.status = t /\ e.xact = q /\ e.levels = l
        BY <3>3, <3>4, <3>5, WithFacts
      <3>7. q[1] = k /\ Len(l) = 1 /\ l[1] = {}
        BY <3>1, <3>2 DEF Answering
      <3> QED BY <1>1, <3>6, <3>7
    <2>2. CASE e = With(b, b.status, b.xact, b.levels)
      <3>1. /\ Leased(e) /\ e.holder = b.holder /\ e.queue = <<>> /\ e.usable = b.usable
            /\ e.status = b.status /\ e.xact = b.xact /\ e.levels = b.levels
        BY <1>1, <2>2, SameFacts
      <3> QED BY <1>1, <1>2, <3>1 DEF Backend
    <2>3. ~b.usable => b.status = "I" /\ b.xact = <<>> /\ b.levels = <<>>
      BY <1>1 DEF Leased
    <2> QED BY <1>1, <2>1, <2>2, <2>3, BeginEffect
  <1>12. Backend(k, y, e)
    BY <1>9, <1>11 DEF Backend
  <1>13. History(k, y, e.usable, res[k], d)
    <2>1. m.pc # "done"
      OBVIOUS
    <2>2. History(k, y, e.usable, res[k], db)
      BY <1>1, <1>2, <1>8, <1>9, <2>1, HistoryKept
    <2> QED BY <1>3, <2>2
  <1>14. Writes(k, Turn(y), e.queue) /\ "session" \in Running
    BY <1>11, NoWrites DEF Running
  <1> QED BY <1>1, <1>5, <1>6, <1>7, <1>10, <1>11, <1>12, <1>13, <1>14, ContinueStep

LEMMA AnsweredStep ==
    ASSUME Invariant, NEW k \in Callers, NEW c \in Conns, NEW m, NEW b, NEW e, NEW C, NEW a, NEW tag,
           Answering(k, c, m, b, e, C, a, tag), db' = db \cup C, Answered(k, m, e, a, tag)
    PROVE  Invariant'
  <1>1. m.pc \in Blocked
    BY DEF Answering
  <1> QED BY <1>1, BeginAnswered, CommitAnswered, RollbackAnswered, SavepointAnswered, ReleaseAnswered,
             UndoAnswered, UndoneAnswered, SqlAnswered DEF Blocked

-----------------------------------------------------------------------------
(* The answer to a write.                                                  *)

\* One element of a sequence has one write more.
Added(l, i, w) == [l EXCEPT ![i] = @ \cup {w}]

LEMMA AddFacts ==
    ASSUME NEW l \in Seq(SUBSET Write), NEW i \in 1..Len(l), NEW w \in Write,
           NEW e, e = Added(l, i, w)
    PROVE  /\ e \in Seq(SUBSET Write) /\ Len(e) = Len(l) /\ e[i] = l[i] \cup {w}
           /\ \A j \in 1..Len(l) : j # i => e[j] = l[j]
  <1>1. PICK x : x = l[i] \cup {w}
    OBVIOUS
  <1>2. x \in SUBSET Write
    BY <1>1
  <1>3. e = [l EXCEPT ![i] = x]
    BY <1>1 DEF Added
  <1> QED BY <1>1, <1>2, <1>3

LEMMA WriteHead ==
    ASSUME NEW k \in Callers, NEW m, NEW q, Outstanding(k, m, q), Phase(m), m.pc \notin Away, q # <<>>,
           Head(q).op = "write"
    PROVE  /\ Head(q).by = <<k, Turn(m)>> /\ Head(q).w \in WritesOf(k, Turn(m))
           /\ ~Alone(m) /\ Outstanding(k, m, Tail(q))
  <1>1. q \in Seq(Command) /\ Len(q) \in Nat /\ Len(q) > 0 /\ Head(q) = q[1]
    BY DEF Outstanding
  <1>2. m.pc \in Blocked => OpOf(m.pc) # "write"
    BY DEF Blocked, OpOf
  <1>3. ~Alone(m)
    <2>1. CASE m.pc \in Blocked
      BY <1>1, <1>2, <2>1 DEF Outstanding
    <2>2. CASE m.pc \in Running
      BY <2>2 DEF Running, Away, Blocked, Phase, Alone
    <2> QED BY <2>1, <2>2 DEF Phase
  <1> QED BY <1>2, <1>3, HeadOfQueue

\* The call k has a write at the head of its connection, which is resumed.
Writing(k, c, m, b, e, C, a) ==
    /\ Works(k, c, m, b, res[k]) /\ b.queue # <<>> /\ Head(b.queue).op = "write"
    /\ Resumed(b, e, C, a)

LEMMA WritingFacts ==
    ASSUME NEW k \in Callers, NEW c, NEW m, NEW b, NEW e, NEW C, NEW a, Writing(k, c, m, b, e, C, a),
           NEW w, w = Head(b.queue).w
    PROVE  /\ call[k] = m /\ call[k].conn = c /\ m.conn = c /\ b.holder = k
           /\ Typed(k, m) /\ Phase(m) /\ m.pc \notin Away /\ Leased(b) /\ Backend(k, m, b) /\ m.n \in Attempts
           /\ History(k, m, b.usable, res[k], db)
           /\ Head(b.queue).op = "write" /\ Head(b.queue).by = <<k, Turn(m)>>
           /\ w \in WritesOf(k, Turn(m)) /\ w \in Write /\ w[1] = k
           /\ ~Alone(m) /\ Outstanding(k, m, Tail(b.queue)) /\ Resumed(b, e, C, a)
           /\ m.kind \in {"session", "transaction"}
  <1>1. /\ Typed(k, m) /\ Phase(m) /\ m.pc \notin Away /\ Outstanding(k, m, b.queue) /\ b.queue # <<>>
        /\ Head(b.queue).op = "write"
    BY DEF Writing, Works, AtWork
  <1>2. /\ Head(b.queue).by = <<k, Turn(m)>> /\ Head(b.queue).w \in WritesOf(k, Turn(m))
        /\ ~Alone(m) /\ Outstanding(k, m, Tail(b.queue))
    BY <1>1, WriteHead
  <1>3. w \in Write /\ w[1] = k
    BY <1>2 DEF WritesOf
  <1> QED BY <1>1, <1>2, <1>3, SessionAssumption DEF Writing, Works, AtWork, Typed

LEMMA WithTail ==
    ASSUME NEW b, Leased(b), NEW s \in {"I", "T", "E"}, NEW x,
           NEW l \in Seq(SUBSET Write), s = "I" => x = <<>> /\ l = <<>>, s # "I" => b.usable,
           NEW e, e = With(b, s, x, l)
    PROVE  /\ Leased(e) /\ e.holder = b.holder /\ e.queue = Tail(b.queue) /\ e.usable = b.usable
           /\ e.status = s /\ e.xact = x /\ e.levels = l
  <1>1. /\ e.holder = b.holder /\ e.queue = Tail(b.queue) /\ e.usable = b.usable
        /\ e.status = s /\ e.xact = x /\ e.levels = l
        /\ e = [holder |-> e.holder, queue |-> e.queue, usable |-> e.usable,
                status |-> e.status, xact |-> e.xact, levels |-> e.levels]
    BY DEF With
  <1>2. b.usable \in BOOLEAN
    BY DEF Leased
  <1> QED BY <1>1, <1>2 DEF Leased

\* A write outside of transactions is of no attempt.
LEMMA HistoryOutside ==
    ASSUME NEW k, NEW m, NEW u, NEW r, NEW d, History(k, m, u, r, d), m.kind # "transaction",
           NEW w \in WritesOf(k, 0)
    PROVE  History(k, m, u, r, d \cup {w})
  <1>1. PICK e : e = d \cup {w}
    OBVIOUS
  <1>2. \A n \in Attempts \ {0} : e \cap WritesOf(k, n) = d \cap WritesOf(k, n)
    BY <1>1 DEF WritesOf
  <1>3. Truth(k, r, e)
    <2>1. ASSUME NEW i \in Attempts
          PROVE  LET there == e \cap WritesOf(k, i)
                 IN  /\ r[i].told = "commit" /\ r[i].tag = "COMMIT" => there = r[i].kept
                     /\ r[i].told \in {"rollback", "retryable", "final"} => there = {}
                     /\ r[i].told = "indeterminate" => there \in {{}, r[i].kept}
      <3>1. CASE i = 0
        BY <3>1 DEF History, Pending
      <3>2. CASE i # 0
        BY <1>2, <3>2 DEF History, Truth
      <3> QED BY <3>1, <3>2
    <2> QED BY <2>1 DEF Truth
  <1>4. Pending(k, m, u, r, e)
    <2> DEFINE D(n) == d \cap WritesOf(k, n)
               E(n) == e \cap WritesOf(k, n)
    <2>1. \A n \in Attempts \ {0} : E(n) = D(n)
      BY <1>2
    <2>2. \A n \in Attempts \ {0} :
             r[n].told = "none" /\ D(n) # {} =>
                 /\ n = m.n /\ Unanswered(m, u)
                 /\ m.pc = "commit" => D(n) = m.scopes[1]
      BY DEF History, Pending
    <2>3. \A n \in Attempts \ {0} :
             r[n].told = "none" /\ E(n) # {} =>
                 /\ n = m.n /\ Unanswered(m, u)
                 /\ m.pc = "commit" => E(n) = m.scopes[1]
      <3> HIDE DEF D, E
      <3> QED BY <2>1, <2>2
    <2> QED BY <2>3 DEF History, Pending
  <1>5. Once(k, m, u, e)
    BY DEF Once
  <1> QED BY <1>1, <1>3, <1>4, <1>5 DEF History

\* The caller k and its connection c are m and b, it was told r, and d is there.
Stepped(k, c, m, b, r, d) ==
    /\ call' = [call EXCEPT ![k] = m] /\ conn' = [conn EXCEPT ![c] = b]
    /\ res' = [res EXCEPT ![k] = r] /\ db' = d

LEMMA GoodStep ==
    ASSUME Invariant, NEW k \in Callers, NEW c \in Conns, call[k].conn = c,
           NEW m, NEW b, NEW r, NEW d, Stepped(k, c, m, b, r, d),
           db \subseteq d, \A w \in d \ db : w[1] = k, Good(k, c, m, b, r, d)
    PROVE  Invariant'
  <1>1. /\ call' = [call EXCEPT ![k] = m] /\ conn' = [conn EXCEPT ![c] = b]
        /\ res' = [res EXCEPT ![k] = r] /\ db' = d
    BY DEF Stepped
  <1> QED BY <1>1, LocalStep

\* The memory of the caller is not touched.
LEMMA StayStep ==
    ASSUME Invariant, NEW k \in Callers, NEW c \in Conns, NEW m, call[k] = m, m.conn = c,
           call' = call, NEW e, conn' = [conn EXCEPT ![c] = e], UNCHANGED res,
           NEW d, db' = d, db \subseteq d, \A w \in d \ db : w[1] = k,
           e.holder = k, AtWork(k, m, e, res[k], d)
    PROVE  Invariant'
  <1>1. PICK r : r = res[k]
    OBVIOUS
  <1>2. call' = [call EXCEPT ![k] = m]
    BY DEF Invariant
  <1>3. res' = [res EXCEPT ![k] = r]
    BY <1>1, Unchanged
  <1>4. Good(k, c, m, e, r, d)
    BY <1>1 DEF Good
  <1>5. Stepped(k, c, m, e, r, d)
    BY <1>2, <1>3 DEF Stepped
  <1>6. call[k].conn = c
    OBVIOUS
  <1> QED BY <1>4, <1>5, <1>6, GoodStep

\* The write was refused, or it is in a transaction that the call did not open.
LEMMA WriteStays ==
    ASSUME Invariant, NEW k \in Callers, NEW c \in Conns, NEW m, NEW b, NEW e, NEW C, NEW a,
           Writing(k, c, m, b, e, C, a), C = {}, call' = call, conn' = [conn EXCEPT ![c] = e],
           UNCHANGED <<db, res>>,
           Leased(e), e.holder = b.holder, e.queue = Tail(b.queue), e.usable = b.usable,
           e.status = "I" <=> b.status = "I", e.xact = b.xact,
           \/ e.levels = b.levels
           \/ m.scopes = <<>> /\ Len(e.levels) = 1 /\ e.levels[1] \subseteq b.levels[1] \cup WritesOf(k, 0)
    PROVE  Invariant'
  <1>1. PICK w, d : w = Head(b.queue).w /\ d = db
    OBVIOUS
  <1>2. /\ call[k] = m /\ call[k].conn = c /\ m.conn = c /\ b.holder = k
        /\ Typed(k, m) /\ Phase(m) /\ m.pc \notin Away /\ Leased(b) /\ Backend(k, m, b)
        /\ History(k, m, b.usable, res[k], db)
        /\ ~Alone(m) /\ Outstanding(k, m, Tail(b.queue))
    BY <1>1, WritingFacts
  <1>3. Backend(k, m, e)
    <2>1. m.pc # "undone"
      BY <1>2 DEF Alone
    <2>2. CASE e.levels = b.levels
      BY <1>2, <2>1, <2>2 DEF Backend
    <2>3. CASE m.scopes = <<>> /\ Len(e.levels) = 1 /\ e.levels[1] \subseteq b.levels[1] \cup WritesOf(k, 0)
      BY <1>2, <2>3 DEF Backend
    <2> QED BY <2>2, <2>3
  <1>4. AtWork(k, m, e, res[k], d)
    BY <1>1, <1>2, <1>3 DEF AtWork
  <1>5. db' = d /\ db \subseteq d /\ \A x \in d \ db : x[1] = k
    BY <1>1
  <1> QED BY <1>2, <1>4, <1>5, StayStep

\* The write is in the transaction of the callback.
LEMMA WriteScoped ==
    ASSUME Invariant, NEW k \in Callers, NEW c \in Conns, NEW m, NEW b, NEW e, NEW C, NEW a,
           Writing(k, c, m, b, e, C, a), NEW w, w = Head(b.queue).w, b.status = "T", m.scopes # <<>>,
           NEW l, l = Added(b.levels, Len(b.levels), w), NEW s, s = Added(m.scopes, Len(m.scopes), w),
           e = With(b, "T", b.xact, l),
           call' = [call EXCEPT ![k] = Scoped(m, s)], conn' = [conn EXCEPT ![c] = e],
           UNCHANGED <<db, res>>
    PROVE  Invariant'
  <1>1. /\ call[k] = m /\ call[k].conn = c /\ m.conn = c /\ b.holder = k
        /\ Typed(k, m) /\ Phase(m) /\ m.pc \notin Away /\ Leased(b) /\ Backend(k, m, b) /\ m.n \in Attempts
        /\ History(k, m, b.usable, res[k], db)
        /\ w \in WritesOf(k, Turn(m)) /\ w \in Write
        /\ ~Alone(m) /\ Outstanding(k, m, Tail(b.queue))
    BY WritingFacts
  <1>2. m.pc # "undone" /\ b.usable
    BY <1>1 DEF Alone, Leased
  <1>3. /\ b.levels \in Seq(SUBSET Write) /\ m.scopes \in Seq(SUBSET Write)
    BY <1>1 DEF Leased, Typed
  <1>4. PICK v : v = Len(b.levels) /\ v = Len(m.scopes) /\ v \in Nat /\ v > 0
    BY <1>1, <1>3 DEF Backend
  <1>5. /\ v \in 1..Len(b.levels) /\ v \in 1..Len(m.scopes)
        /\ l = Added(b.levels, v, w) /\ s = Added(m.scopes, v, w)
    BY <1>4
  <1>6. /\ l \in Seq(SUBSET Write) /\ Len(l) = v /\ l[v] = b.levels[v] \cup {w}
        /\ \A j \in 1..v : j # v => l[j] = b.levels[j]
    <2>1. b.levels \in Seq(SUBSET Write) /\ v \in 1..Len(b.levels) /\ w \in Write /\ l = Added(b.levels, v, w)
      BY <1>1, <1>3, <1>5
    <2>2. /\ l \in Seq(SUBSET Write) /\ Len(l) = Len(b.levels) /\ l[v] = b.levels[v] \cup {w}
          /\ \A j \in 1..Len(b.levels) : j # v => l[j] = b.levels[j]
      BY <2>1, AddFacts
    <2> QED BY <1>4, <2>2
  <1>7. /\ s \in Seq(SUBSET Write) /\ Len(s) = v /\ s[v] = m.scopes[v] \cup {w}
        /\ \A j \in 1..v : j # v => s[j] = m.scopes[j]
    <2>1. PICK p : p = m.scopes
      OBVIOUS
    <2>2. p \in Seq(SUBSET Write) /\ v \in 1..Len(p) /\ w \in Write /\ s = Added(p, v, w)
      BY <1>1, <1>3, <1>5, <2>1
    <2>3. /\ s \in Seq(SUBSET Write) /\ Len(s) = Len(p) /\ s[v] = p[v] \cup {w}
          /\ \A j \in 1..Len(p) : j # v => s[j] = p[j]
      BY <2>2, AddFacts
    <2> QED BY <1>4, <2>1, <2>3
  <1>8. PICK x, d : x = Scoped(m, s) /\ d = db
    OBVIOUS
  <1>9. /\ Typed(k, x) /\ x.pc = m.pc /\ x.kind = m.kind /\ x.n = m.n /\ x.conn = m.conn
        /\ x.scopes = s /\ x.cause = m.cause
    <2>1. Typed(k, m) /\ s \in Seq(SUBSET Write) /\ x = Scoped(m, s)
      BY <1>1, <1>7, <1>8
    <2> QED BY <2>1, ScopesSet
  <1>10. s # <<>>
    BY <1>4, <1>7
  <1>11. Phase(x)
    <2>1. m.pc \notin Away \cup {"begin", "session", "sql"}
      BY <1>1 DEF Phase
    <2> QED BY <1>1, <1>4, <1>7, <1>9, <1>10, <2>1 DEF Phase
  <1>12. /\ Leased(e) /\ e.holder = b.holder /\ e.queue = Tail(b.queue) /\ e.usable = b.usable
         /\ e.status = "T" /\ e.xact = b.xact /\ e.levels = l
    <2>1. PICK t, q : t = "T" /\ q = b.xact
      OBVIOUS
    <2>2. t \in {"I", "T", "E"} /\ e = With(b, t, q, l)
      BY <2>1
    <2>3. (t = "I" => q = <<>> /\ l = <<>>) /\ (t # "I" => b.usable)
      BY <1>2, <2>1
    <2>4. /\ Leased(e) /\ e.holder = b.holder /\ e.queue = Tail(b.queue) /\ e.usable = b.usable
          /\ e.status = t /\ e.xact = q /\ e.levels = l
      <3>1. Leased(b) /\ l \in Seq(SUBSET Write)
        BY <1>1, <1>6
      <3> QED BY <2>2, <2>3, <3>1, WithTail
    <2> QED BY <2>1, <2>4
  <1>13. Backend(k, x, e)
    <2>1. w \in WritesOf(k, m.n)
      BY <1>1 DEF Turn
    <2>2. /\ \A i \in 1..v : b.levels[i] \subseteq Uncommitted(k, m) /\ b.levels[i] \cap WritesOf(k, m.n) = m.scopes[i]
          /\ b.xact[1] = k
      BY <1>1, <1>2, <1>4 DEF Backend
    <2>3. ASSUME NEW i \in 1..v
          PROVE  l[i] \subseteq Uncommitted(k, m) /\ l[i] \cap WritesOf(k, m.n) = s[i]
      <3>1. CASE i = v
        BY <1>6, <1>7, <2>1, <2>2, <3>1 DEF Uncommitted
      <3>2. CASE i # v
        BY <1>6, <1>7, <2>2, <3>2
      <3> QED BY <3>1, <3>2
    <2>4. Match(k, m, e.levels, x.scopes, FALSE)
      <3>1. Match(k, m, l, s, FALSE)
        BY <1>6, <1>7, <2>3 DEF Match
      <3> QED BY <1>9, <1>12, <3>1
    <2>5. (x.pc = "undone") = FALSE
      BY <1>2, <1>9
    <2>6. e.status # "I" => Match(k, m, e.levels, x.scopes, x.pc = "undone")
      BY <2>4, <2>5
    <2>7. (e.status = "I" => ~e.usable) /\ (e.status # "I" => e.xact[1] = k)
      BY <1>12, <2>2
    <2> QED BY <1>9, <1>10, <2>5, <2>6, <2>7, MatchBackend
  <1>14. Outstanding(k, x, e.queue)
    <2>1. Turn(x) = Turn(m) /\ ~Alone(x)
      BY <1>1, <1>9, <1>10 DEF Turn, Alone
    <2>2. PICK p : p = Tail(b.queue)
      OBVIOUS
    <2>3. Outstanding(k, m, p) /\ e.queue = p
      BY <1>1, <1>12, <2>2
    <2>4. x.pc = m.pc /\ x.n = m.n /\ ~Alone(m)
      BY <1>1, <1>9
    <2>5. Outstanding(k, x, p)
      BY <2>1, <2>3, <2>4 DEF Outstanding
    <2> QED BY <2>3, <2>5
  <1>15. History(k, x, e.usable, res[k], d)
    <2>1. m.pc \notin Away \cup {"session", "sql"}
      BY <1>1 DEF Phase
    <2>2. res[k][m.n].told = "none" /\ m.pc # "done" /\ ~Unanswered(m, b.usable)
      <3>1. Typed(k, m) /\ Phase(m) /\ History(k, m, b.usable, res[k], db)
        BY <1>1
      <3>2. res[k][m.n].told = "none"
        BY <2>1, <3>1, AttemptFacts
      <3> QED BY <1>2, <2>1, <3>2 DEF Away, Unanswered
    <2>3. History(k, x, e.usable, res[k], db)
      BY <1>1, <1>9, <2>2, HistoryKept
    <2> QED BY <1>8, <2>3
  <1>16. AtWork(k, x, e, res[k], d)
    BY <1>1, <1>9, <1>11, <1>12, <1>13, <1>14, <1>15 DEF AtWork
  <1>17. PICK r : r = res[k]
    OBVIOUS
  <1>18. Good(k, c, x, e, r, d)
    BY <1>1, <1>9, <1>12, <1>16, <1>17 DEF Good
  <1>19. call' = [call EXCEPT ![k] = x] /\ res' = [res EXCEPT ![k] = r]
    BY <1>8, <1>17, Unchanged
  <1>20. db' = d /\ db \subseteq d /\ \A y \in d \ db : y[1] = k
    BY <1>8
  <1>21. Stepped(k, c, x, e, r, d)
    BY <1>19, <1>20 DEF Stepped
  <1> QED BY <1>1, <1>18, <1>20, <1>21, GoodStep

LEMMA WriteStep ==
    ASSUME Invariant, NEW k \in Callers, NEW c \in Conns, NEW m, NEW b, NEW e, NEW C, NEW a,
           Writing(k, c, m, b, e, C, a), db' = db \cup C,
           Noted(k, m, e, Head(b.queue), a), conn' = [conn EXCEPT ![c] = e]
    PROVE  Invariant'
  <1>1. PICK w, l : w = Head(b.queue).w /\ l = Added(b.levels, Len(b.levels), w)
    OBVIOUS
  <1>2. /\ call[k] = m /\ call[k].conn = c /\ m.conn = c /\ b.holder = k
        /\ Typed(k, m) /\ Phase(m) /\ m.pc \notin Away /\ Leased(b) /\ Backend(k, m, b) /\ m.n \in Attempts
        /\ History(k, m, b.usable, res[k], db)
        /\ Head(b.queue).op = "write" /\ Head(b.queue).by = <<k, Turn(m)>>
        /\ w \in WritesOf(k, Turn(m)) /\ w \in Write /\ w[1] = k
        /\ ~Alone(m) /\ Outstanding(k, m, Tail(b.queue)) /\ Resumed(b, e, C, a)
        /\ m.kind \in {"session", "transaction"}
    BY <1>1, WritingFacts
  <1>3. UNCHANGED res
    BY DEF Noted
  <1>4. a # "ok" \/ m.scopes = <<>> => call' = call
    BY DEF Noted
  <1>5. a = "ok" /\ m.scopes # <<>> =>
           call' = [call EXCEPT ![k] = Scoped(m, Added(m.scopes, Len(m.scopes), w))]
    <2> SUFFICES ASSUME a = "ok", m.scopes # <<>>
                 PROVE  call' = [call EXCEPT ![k] = Scoped(m, Added(m.scopes, Len(m.scopes), w))]
      OBVIOUS
    <2>1. Head(b.queue).by = Attempt(k)
      BY <1>2 DEF Attempt, Turn
    <2> QED BY <1>1, <1>2, <2>1 DEF Noted, Scoped, Added
  <1>6. b.levels \in Seq(SUBSET Write) /\ b.status \in {"I", "T", "E"}
        /\ (b.status = "I" => b.xact = <<>> /\ b.levels = <<>>) /\ (b.status # "I" => b.usable)
    BY <1>2 DEF Leased
  <1>7. CASE b.status = "T" /\ a = "ok" /\ C = {} /\ e = With(b, "T", b.xact, l)
    <2>1. UNCHANGED db
      BY <1>7
    <2>2. CASE m.scopes # <<>>
      <3>1. PICK s : s = Added(m.scopes, Len(m.scopes), w)
        OBVIOUS
      <3>2. call' = [call EXCEPT ![k] = Scoped(m, s)]
        BY <1>5, <1>7, <2>2, <3>1
      <3> QED BY <1>1, <1>3, <1>7, <2>1, <2>2, <3>1, <3>2, WriteScoped
    <2>3. CASE m.scopes = <<>>
      <3>1. Len(b.levels) = 1 /\ w \in WritesOf(k, 0)
        BY <1>2, <1>7, <2>3 DEF Backend, Turn
      <3>2. PICK v : v = 1
        OBVIOUS
      <3>3. v \in 1..Len(b.levels) /\ l = Added(b.levels, v, w)
        BY <1>1, <3>1, <3>2
      <3>4. l \in Seq(SUBSET Write) /\ Len(l) = Len(b.levels) /\ l[v] = b.levels[v] \cup {w}
        BY <1>2, <1>6, <3>3, AddFacts
      <3>5. PICK t, q : t = "T" /\ q = b.xact
        OBVIOUS
      <3>6. t \in {"I", "T", "E"} /\ e = With(b, t, q, l) /\ (t = "I" => q = <<>> /\ l = <<>>) /\ (t # "I" => b.usable)
        BY <1>6, <1>7, <3>5
      <3>7. /\ Leased(e) /\ e.holder = b.holder /\ e.queue = Tail(b.queue) /\ e.usable = b.usable
            /\ e.status = t /\ e.xact = q /\ e.levels = l
        BY <1>2, <3>4, <3>6, WithTail
      <3>8. e.status = "I" <=> b.status = "I"
        BY <1>7, <3>5, <3>7
      <3>9. \/ e.levels = b.levels
            \/ m.scopes = <<>> /\ Len(e.levels) = 1 /\ e.levels[1] \subseteq b.levels[1] \cup WritesOf(k, 0)
        BY <2>3, <3>1, <3>2, <3>4, <3>7
      <3>10. e.xact = b.xact /\ UNCHANGED <<db, res>> /\ C = {} /\ call' = call
        BY <1>3, <1>4, <1>7, <2>1, <2>3, <3>5, <3>7
      <3>11. Leased(e) /\ e.holder = b.holder /\ e.queue = Tail(b.queue) /\ e.usable = b.usable
        BY <3>7
      <3> QED BY <3>8, <3>9, <3>10, <3>11, WriteStays
    <2> QED BY <2>2, <2>3
  <1>8. CASE /\ a # "ok" /\ C = {}
             /\ \/ b.status = "T" /\ e = With(b, "E", b.xact, b.levels)
                \/ b.status # "T" /\ e = With(b, b.status, b.xact, b.levels)
    <2>1. PICK t, q, n : /\ q = b.xact /\ n = b.levels /\ e = With(b, t, q, n) /\ t \in {"I", "T", "E"}
                         /\ (t = "I" <=> b.status = "I")
      <3>1. CASE b.status = "T" /\ e = With(b, "E", b.xact, b.levels)
        BY <3>1
      <3>2. CASE b.status # "T" /\ e = With(b, b.status, b.xact, b.levels)
        BY <1>6, <3>2
      <3> QED BY <1>8, <3>1, <3>2
    <2>2. n \in Seq(SUBSET Write) /\ (t = "I" => q = <<>> /\ n = <<>>) /\ (t # "I" => b.usable)
      BY <1>6, <2>1
    <2>3. /\ Leased(e) /\ e.holder = b.holder /\ e.queue = Tail(b.queue) /\ e.usable = b.usable
          /\ e.status = t /\ e.xact = q /\ e.levels = n
      BY <1>2, <2>1, <2>2, WithTail
    <2>4. UNCHANGED db
      BY <1>8
    <2>5. (e.status = "I" <=> b.status = "I") /\ e.xact = b.xact /\ e.levels = b.levels
      BY <2>1, <2>3
    <2> QED BY <1>3, <1>4, <1>8, <2>3, <2>4, <2>5, WriteStays
  <1>9. CASE b.status = "I" /\ b.usable /\ a = "ok" /\ C = {w} /\ e = With(b, "I", <<>>, <<>>)
    <2>1. m.scopes = <<>>
      BY <1>2, <1>9 DEF Backend, Alone
    <2>2. w \in WritesOf(k, 0) /\ m.kind # "transaction"
      BY <1>2, <2>1 DEF Turn, Alone
    <2>3. PICK t, q : t = "I" /\ q = <<>>
      OBVIOUS
    <2>4. t \in {"I", "T", "E"} /\ e = With(b, t, q, q) /\ (t = "I" => q = <<>>) /\ (t # "I" => b.usable)
      BY <1>9, <2>3
    <2>5. q \in Seq(SUBSET Write)
      BY <2>3
    <2>6. /\ Leased(e) /\ e.holder = b.holder /\ e.queue = Tail(b.queue) /\ e.usable = b.usable
          /\ e.status = t
      BY <1>2, <2>4, <2>5, WithTail
    <2>7. PICK d : d = db \cup {w}
      OBVIOUS
    <2>8. History(k, m, e.usable, res[k], d)
      BY <1>2, <2>2, <2>6, <2>7, HistoryOutside
    <2>9. Backend(k, m, e)
      BY <2>1, <2>3, <2>6 DEF Backend
    <2>10. AtWork(k, m, e, res[k], d)
      BY <1>2, <2>6, <2>8, <2>9 DEF AtWork
    <2>11. db' = d /\ db \subseteq d /\ \A x \in d \ db : x[1] = k
      BY <1>2, <1>9, <2>7
    <2>12. call' = call /\ e.holder = k
      BY <1>2, <1>4, <2>1, <2>6
    <2> QED BY <1>2, <1>3, <2>10, <2>11, <2>12, StayStep
  <1>10. \/ /\ b.status = "T" /\ a = "ok" /\ C = {}
            /\ e = With(b, "T", b.xact, [b.levels EXCEPT ![Len(b.levels)] = @ \cup {Head(b.queue).w}])
         \/ /\ b.status = "T" /\ a = "server" /\ C = {}
            /\ e = With(b, "E", b.xact, b.levels)
         \/ /\ b.status = "I" /\ b.usable /\ a = "ok" /\ C = {Head(b.queue).w}
            /\ e = With(b, "I", <<>>, <<>>)
         \/ /\ b.status # "T" /\ a # "ok" /\ C = {}
            /\ e = With(b, b.status, b.xact, b.levels)
    BY <1>2, WriteEffect
  <1> QED BY <1>1, <1>7, <1>8, <1>9, <1>10 DEF Added

-----------------------------------------------------------------------------
(* The steps of a connection.                                              *)

\* The head of the queue of c was resumed.
LEMMA ResumeStep ==
    ASSUME Invariant, NEW c \in Conns, NEW b, b = conn[c], b.queue # <<>>,
           NEW e, NEW C, NEW a, NEW tag, Resumed(b, e, C, a), db' = db \cup C,
           Resume(c, e, Head(b.queue), a, tag),
           a = "ok" => tag = IF b.status = "T" THEN "COMMIT" ELSE "ROLLBACK"
    PROVE  Invariant'
  <1>1. conn[c] # Fresh
    BY DEF Fresh
  <1>2. PICK k, m : k = b.holder /\ m = call[k]
    OBVIOUS
  <1>3. k \in Callers /\ m.conn = c /\ Works(k, c, m, b, res[k])
    BY <1>1, <1>2, HolderWorks
  <1>4. Outstanding(k, m, b.queue) /\ m.pc \notin Away /\ Phase(m)
    BY <1>3 DEF Works, AtWork
  <1>5. \/ Head(b.queue).op = "write" /\ Head(b.queue).by = <<k, Turn(m)>>
        \/ /\ m.pc \in Blocked /\ Head(b.queue).op = OpOf(m.pc)
           /\ Head(b.queue).by \in {<<k, m.n>>, <<k, 0>>} /\ Tail(b.queue) = <<>>
    BY <1>4, HeadOfQueue
  <1>6. Head(b.queue).by[1] = k
    BY <1>5
  <1>7. CASE Head(b.queue).op = "write"
    <2>1. Noted(k, m, e, Head(b.queue), a) /\ conn' = [conn EXCEPT ![c] = e]
      BY <1>2, <1>6, <1>7 DEF Resume
    <2>2. Writing(k, c, m, b, e, C, a)
      BY <1>3, <1>7 DEF Writing
    <2> QED BY <1>3, <2>1, <2>2, WriteStep
  <1>8. CASE Head(b.queue).op # "write"
    <2>1. Answered(k, m, e, a, tag)
      BY <1>2, <1>6, <1>8 DEF Resume
    <2>2. Answering(k, c, m, b, e, C, a, tag)
      BY <1>3, <1>5, <1>8 DEF Answering
    <2> QED BY <1>3, <2>1, <2>2, AnsweredStep
  <1> QED BY <1>7, <1>8

LEMMA AnswerStep ==
    ASSUME Invariant, NEW c \in Conns, Answer(c)
    PROVE  Invariant'
  <1>1. PICK b, out : b = conn[c] /\ out = Executed(Popped(c), Head(b.queue))
    OBVIOUS
  <1>2. PICK e, C, a, tag : e = out.b /\ C = out.commits /\ a = (IF out.ok THEN "ok" ELSE "server") /\ tag = Tag(c)
    OBVIOUS
  <1>3. b.queue # <<>> /\ b.usable /\ db' = db \cup C /\ Resume(c, e, Head(b.queue), a, tag)
    BY <1>1, <1>2 DEF Answer, Waiting
  <1>4. Resumed(b, e, C, a)
    BY <1>1, <1>2, <1>3 DEF Resumed, Popped
  <1>5. tag = IF b.status = "T" THEN "COMMIT" ELSE "ROLLBACK"
    BY <1>1, <1>2 DEF Tag
  <1> QED BY <1>1, <1>3, <1>4, <1>5, ResumeStep

LEMMA RejectStep ==
    ASSUME Invariant, NEW c \in Conns, Reject(c)
    PROVE  Invariant'
  <1>1. PICK b, e, C, a, tag : /\ b = conn[c] /\ e = Rejected(Popped(c), Head(b.queue)).b
                               /\ C = {} /\ a = "server" /\ tag = "none"
    OBVIOUS
  <1>2. b.queue # <<>> /\ b.usable /\ db' = db \cup C /\ Resume(c, e, Head(b.queue), a, tag) /\ a # "ok"
    BY <1>1 DEF Reject, Waiting
  <1>3. Resumed(b, e, C, a)
    BY <1>1, <1>2 DEF Resumed, Popped, Reject
  <1> QED BY <1>1, <1>2, <1>3, ResumeStep

LEMMA DeadStep ==
    ASSUME Invariant, NEW c \in Conns, Dead(c)
    PROVE  Invariant'
  <1>1. PICK b, e, C, a, tag : /\ b = conn[c] /\ e = Popped(c)
                               /\ C = {} /\ a = "conn" /\ tag = "none"
    OBVIOUS
  <1>2. b.queue # <<>> /\ ~b.usable /\ db' = db \cup C /\ Resume(c, e, Head(b.queue), a, tag) /\ a # "ok"
    BY <1>1 DEF Dead, Waiting
  <1>3. Resumed(b, e, C, a)
    BY <1>1, <1>2 DEF Resumed, Popped
  <1> QED BY <1>1, <1>2, <1>3, ResumeStep

\* What a command commits.
LEMMA CommitsOf ==
    ASSUME NEW b, Leased(b), NEW cmd
    PROVE  Executed(b, cmd).commits =
              IF cmd.op = "commit" /\ b.status = "T" THEN Open(b)
              ELSE IF cmd.op = "write" /\ b.status = "I" THEN {cmd.w} ELSE {}
  <1>1. \A x : Done(x).commits = {} /\ Refused(x).commits = {}
    BY DEF Done, Refused
  <1>2. \A x, C : [Done(x) EXCEPT !.commits = C].commits = C
    BY DEF Done
  <1>3. b.status \in {"I", "T", "E"}
    BY DEF Leased
  <1> QED BY <1>1, <1>2, <1>3 DEF Executed

\* The socket of a connection died.
Broken(b) == [Idle(b) EXCEPT !.usable = FALSE]

LEMMA BrokenFacts ==
    ASSUME NEW b, Leased(b), NEW e, e = Broken(b)
    PROVE  Leased(e) /\ e.holder = b.holder /\ e.queue = b.queue /\ ~e.usable /\ e.status = "I"
  <1>1. PICK x : x = Idle(b)
    OBVIOUS
  <1>2. x = [holder |-> b.holder, queue |-> b.queue, usable |-> b.usable,
             status |-> "I", xact |-> <<>>, levels |-> <<>>]
    BY <1>1 DEF Idle, Leased
  <1>3. e = [x EXCEPT !.usable = FALSE]
    BY <1>1 DEF Broken
  <1>4. e = [holder |-> b.holder, queue |-> b.queue, usable |-> FALSE,
             status |-> "I", xact |-> <<>>, levels |-> <<>>]
    BY <1>2, <1>3
  <1>5. <<>> \in Seq(SUBSET Write)
    OBVIOUS
  <1>6. /\ e = [holder |-> e.holder, queue |-> e.queue, usable |-> e.usable,
                status |-> e.status, xact |-> e.xact, levels |-> e.levels]
        /\ e.holder = b.holder /\ e.queue = b.queue /\ e.usable = FALSE /\ e.status = "I"
        /\ e.xact = <<>> /\ e.levels = <<>>
    BY <1>4
  <1> QED BY <1>5, <1>6 DEF Leased

\* A connection dies: what was committed before is still there.
LEMMA HistoryBroken ==
    ASSUME NEW k, NEW m, NEW r, NEW d, History(k, m, TRUE, r, d)
    PROVE  History(k, m, FALSE, r, d)
  BY DEF History, Pending, Once, Unanswered

\* A connection dies after the server committed.
LEMMA HistoryLost ==
    ASSUME NEW k \in Callers, NEW m, NEW b, NEW r, NEW d, History(k, m, TRUE, r, d), Typed(k, m), Phase(m),
           m.pc = "commit", Leased(b), Backend(k, m, b), b.status = "T"
    PROVE  History(k, m, FALSE, r, d \cup Open(b))
  <1>1. PICK C, e : C = Open(b) /\ e = d \cup C
    OBVIOUS
  <1>2. C \cap WritesOf(k, m.n) = m.scopes[1] /\ C \subseteq Uncommitted(k, m)
    BY <1>1, CommitAdds
  <1>3. Settled(k, m.n, r, e)
    BY <1>1, <1>2, SettledMore
  <1>4. /\ m.n \in Attempts \ {0} /\ r[m.n].told = "none" /\ d \cap WritesOf(k, m.n) = {}
    BY AttemptFacts DEF Away, Unanswered
  <1>5. e \cap WritesOf(k, m.n) = m.scopes[1]
    BY <1>1, <1>2, <1>4
  <1>6. Pending(k, m, FALSE, r, e)
    <2>1. \A n \in Attempts \ {0} :
             r[n].told = "none" /\ e \cap WritesOf(k, n) # {} => n = m.n
      BY <1>3 DEF Settled
    <2>2. Unanswered(m, FALSE)
      BY DEF Unanswered
    <2> QED BY <1>5, <2>1, <2>2 DEF History, Pending
  <1>7. Once(k, m, FALSE, e)
    <2> SUFFICES ASSUME m.kind = "transaction", NEW i \in Attempts, e \cap WritesOf(k, i) # {}
                 PROVE  i = m.n
      BY DEF Once
    <2>1. d \cap WritesOf(k, i) = {}
      BY DEF History, Once
    <2>2. C \subseteq WritesOf(k, m.n)
      BY <1>2 DEF Uncommitted
    <2> QED BY <1>1, <2>1, <2>2, WritesApart
  <1> QED BY <1>1, <1>3, <1>6, <1>7 DEF History, Settled

LEMMA LoseStep ==
    ASSUME Invariant, NEW c \in Conns, Lose(c)
    PROVE  Invariant'
  <1>1. conn[c] # Fresh
    BY DEF Lose, Fresh
  <1>2. PICK b, k, m, e, r : b = conn[c] /\ k = b.holder /\ m = call[k] /\ e = Broken(b) /\ r = res[k]
    OBVIOUS
  <1>3. k \in Callers /\ m.conn = c /\ Works(k, c, m, b, res[k])
    BY <1>1, <1>2, HolderWorks
  <1>4. /\ Outstanding(k, m, b.queue) /\ m.pc \notin Away /\ Phase(m) /\ Typed(k, m) /\ Leased(b)
        /\ Backend(k, m, b) /\ b.usable /\ b.usable \in BOOLEAN /\ History(k, m, b.usable, r, db)
    BY <1>2, <1>3 DEF Works, AtWork, Lose, Leased
  <1>5. History(k, m, TRUE, r, db)
    <2>1. b.usable = TRUE
      BY <1>4
    <2> QED BY <1>4, <2>1
  <1>6. Leased(e) /\ e.holder = b.holder /\ e.queue = b.queue /\ ~e.usable /\ e.status = "I" /\ e.usable = FALSE
    <2>1. Leased(e) /\ e.holder = b.holder /\ e.queue = b.queue /\ ~e.usable /\ e.status = "I"
      BY <1>2, <1>4, BrokenFacts
    <2>2. e.usable \in BOOLEAN
      BY <2>1 DEF Leased
    <2> QED BY <2>1, <2>2
  <1>7. PICK d : d = db'
    OBVIOUS
  <1>8. /\ db \subseteq d /\ (\A w \in d \ db : w[1] = k) /\ History(k, m, FALSE, r, d)
    <2>1. CASE d = db
      BY <1>5, <2>1, HistoryBroken
    <2>2. CASE b.queue # <<>> /\ d = db \cup Executed(b, Head(b.queue)).commits
      <3>1. PICK cmd : cmd = Head(b.queue)
        OBVIOUS
      <3>2. CASE cmd.op = "commit" /\ b.status = "T"
        <4>1. m.pc = "commit"
          BY <1>4, <2>2, <3>1, <3>2, HeadOfQueue DEF Blocked, OpOf
        <4>2. d = db \cup Open(b)
          BY <1>4, <2>2, <3>1, <3>2, CommitsOf
        <4>3. \A w \in Open(b) : w[1] = k
          BY <1>3, <1>4, <3>2, <4>1, CommitAdds
        <4>4. History(k, m, FALSE, r, db \cup Open(b))
          BY <1>3, <1>4, <1>5, <3>2, <4>1, HistoryLost
        <4> QED BY <4>2, <4>3, <4>4
      <3>3. CASE cmd.op = "write" /\ b.status = "I"
        <4>1. ~Alone(m) /\ cmd.w \in WritesOf(k, Turn(m))
          BY <1>3, <1>4, <2>2, <3>1, <3>3, WriteHead
        <4>2. m.scopes = <<>>
          BY <1>4, <3>3, <4>1 DEF Backend, Alone
        <4>3. cmd.w \in WritesOf(k, 0) /\ m.kind # "transaction" /\ cmd.w[1] = k
          BY <4>1, <4>2 DEF Turn, Alone, WritesOf
        <4>4. d = db \cup {cmd.w}
          BY <1>4, <2>2, <3>1, <3>3, CommitsOf
        <4>5. History(k, m, FALSE, r, db)
          BY <1>5, HistoryBroken
        <4> QED BY <4>3, <4>4, <4>5, HistoryOutside
      <3>4. CASE ~(cmd.op = "commit" /\ b.status = "T") /\ ~(cmd.op = "write" /\ b.status = "I")
        <4>1. Executed(b, cmd).commits = {}
          BY <1>4, <3>4, CommitsOf
        <4>2. d = db
          BY <2>2, <3>1, <4>1
        <4> QED BY <1>5, <4>2, HistoryBroken
      <3> QED BY <3>2, <3>3, <3>4
    <2> QED BY <1>2, <1>7, <2>1, <2>2 DEF Lose, Waiting
  <1>9. Backend(k, m, e)
    BY <1>6 DEF Backend
  <1>10. AtWork(k, m, e, r, d)
    BY <1>4, <1>6, <1>8, <1>9 DEF AtWork
  <1>11. conn' = [conn EXCEPT ![c] = e] /\ call' = call /\ UNCHANGED res
    BY <1>2 DEF Lose, Broken
  <1>12. call[k] = m /\ db' = d /\ e.holder = k /\ AtWork(k, m, e, res[k], d)
    BY <1>2, <1>6, <1>7, <1>10
  <1> QED BY <1>3, <1>8, <1>11, <1>12, StayStep

-----------------------------------------------------------------------------
(* The steps of the application.                                           *)

\* A caller goes on to its next attempt, or ends.
LEMMA HistoryMoves ==
    ASSUME NEW k, NEW m, NEW u, NEW r, NEW d, History(k, m, u, r, d), m.n \in Attempts,
           ~Unanswered(m, u), m.pc # "done",
           NEW x, NEW v, x.kind = m.kind, x.n \in Attempts, x.pc = "done" \/ x.n > m.n
    PROVE  History(k, x, v, r, d)
  <1>1. Once(k, x, v, d)
    BY DEF History, Once, Unanswered
  <1>2. Pending(k, x, v, r, d)
    <2>1. x.pc # "done" => \A n \in Attempts :
             n > x.n \/ (n = x.n /\ x.pc \notin {"session", "sql"}) => r[n].told = "none"
      BY SessionAssumption DEF History, Pending, Attempts
    <2> QED BY <2>1 DEF History, Pending
  <1> QED BY <1>1, <1>2 DEF History

\* The program of a call, and the number of its attempt.
LEMMA AtSet ==
    ASSUME NEW k, NEW m, Typed(k, m), NEW pc, NEW n \in Attempts, NEW x, x = At(m, pc, n)
    PROVE  /\ Typed(k, x) /\ x.pc = pc /\ x.n = n /\ x.kind = m.kind /\ x.conn = m.conn
           /\ x.scopes = m.scopes /\ x.cause = m.cause
  <1>1. x = [pc |-> pc, kind |-> m.kind, n |-> n, conn |-> m.conn, issued |-> m.issued,
             opened |-> m.opened, scopes |-> m.scopes, doomed |-> m.doomed, cause |-> m.cause]
    BY DEF Typed, At
  <1> QED BY <1>1 DEF Typed

LEMMA RestingFacts ==
    ASSUME Invariant, NEW k \in Callers, NEW m, m = call[k], m.pc \in Away
    PROVE  /\ m.conn = Nobody /\ Typed(k, m) /\ Phase(m) /\ History(k, m, TRUE, res[k], db)
           /\ m.n \in Attempts /\ m.scopes = <<>> /\ ~Unanswered(m, TRUE)
           /\ m.kind \in {"session", "transaction"}
  <1>1. m.conn = Nobody /\ AtRest(k, m, res[k], db)
    BY DEF Invariant, AtWork
  <1> QED BY <1>1, SessionAssumption DEF AtRest, Typed, Phase, Unanswered

LEMMA StartStep ==
    ASSUME Invariant, NEW k \in Callers, Start(k)
    PROVE  Invariant'
  <1>1. PICK m, n, r : m = call[k] /\ n = (IF m.kind = "session" THEN 0 ELSE 1) /\ r = res[k]
    OBVIOUS
  <1>2. m.pc = "idle" /\ m.pc \in Away
    BY <1>1 DEF Start, Away
  <1>3. /\ m.conn = Nobody /\ Typed(k, m) /\ Phase(m) /\ History(k, m, TRUE, r, db)
        /\ m.n \in Attempts /\ m.scopes = <<>> /\ ~Unanswered(m, TRUE)
        /\ m.kind \in {"session", "transaction"}
    BY <1>1, <1>2, RestingFacts
  <1>4. n \in Attempts
    BY <1>1, SessionAssumption DEF Attempts
  <1>5. PICK x : x = At(m, "acquire", n)
    OBVIOUS
  <1>6. /\ Typed(k, x) /\ x.pc = "acquire" /\ x.n = n /\ x.kind = m.kind /\ x.conn = Nobody
        /\ x.scopes = <<>>
    BY <1>3, <1>4, <1>5, AtSet
  <1>7. Phase(x) /\ x.pc \in Away
    BY <1>1, <1>3, <1>6 DEF Phase, Away, Running, Blocked
  <1>8. m.n = 0
    BY <1>2, <1>3 DEF Phase
  <1>9. History(k, x, TRUE, r, db)
    <2>1. CASE n = 0
      <3>1. r[m.n].told = "none"
        BY <1>2, <1>3 DEF History, Pending
      <3> QED BY <1>2, <1>3, <1>6, <1>8, <2>1, <3>1, HistoryKept
    <2>2. CASE n = 1
      <3>1. x.n \in Attempts /\ x.n > m.n /\ m.pc # "done"
        BY <1>2, <1>4, <1>6, <1>8, <2>2
      <3> QED BY <1>3, <1>6, <3>1, HistoryMoves
    <2> QED BY <1>1, <2>1, <2>2
  <1>10. AtRest(k, x, r, db)
    BY <1>6, <1>7, <1>9 DEF AtRest
  <1>11. call' = [call EXCEPT ![k] = x] /\ UNCHANGED <<conn, db, res>>
    BY <1>1, <1>5 DEF Start, At
  <1> QED BY <1>1, <1>3, <1>6, <1>10, <1>11, AwayStep

LEMMA AcquireFailsStep ==
    ASSUME Invariant, NEW k \in Callers, AcquireFails(k)
    PROVE  Invariant'
  <1>1. PICK m, r : m = call[k] /\ r = res[k]
    OBVIOUS
  <1>2. m.pc = "acquire" /\ m.pc \in Away /\ m.pc # "done"
    BY <1>1 DEF AcquireFails, Away
  <1>3. /\ m.conn = Nobody /\ Typed(k, m) /\ Phase(m) /\ History(k, m, TRUE, r, db)
        /\ m.n \in Attempts /\ m.scopes = <<>> /\ ~Unanswered(m, TRUE)
        /\ m.kind \in {"session", "transaction"}
    BY <1>1, <1>2, RestingFacts
  <1>4. ASSUME NEW pc \in {"acquire", "done"}, NEW n \in Attempts, NEW x, x = At(m, pc, n),
               call' = [call EXCEPT ![k] = x], pc = "done" \/ n = m.n + 1
        PROVE  Invariant'
    <2>1. /\ Typed(k, x) /\ x.pc = pc /\ x.n = n /\ x.kind = m.kind /\ x.conn = Nobody
          /\ x.scopes = <<>>
      BY <1>3, <1>4, AtSet
    <2>2. Phase(x) /\ x.pc \in Away
      BY <1>3, <1>4, <2>1, SessionAssumption DEF Phase, Away, Running, Blocked, Attempts
    <2>3. x.n \in Attempts /\ (x.pc = "done" \/ x.n > m.n)
      BY <1>3, <1>4, <2>1, SessionAssumption DEF Attempts
    <2>4. History(k, x, TRUE, r, db)
      BY <1>2, <1>3, <2>1, <2>3, HistoryMoves
    <2>5. AtRest(k, x, res[k], db)
      BY <1>1, <2>1, <2>2, <2>4 DEF AtRest
    <2>6. UNCHANGED <<conn, db, res>>
      BY DEF AcquireFails
    <2> QED BY <1>1, <1>3, <1>4, <2>1, <2>5, <2>6, AwayStep
  <1>5. call = [j \in Callers |-> call[j]] /\ m = [pc |-> m.pc, kind |-> m.kind, n |-> m.n, conn |-> m.conn,
               issued |-> m.issued, opened |-> m.opened, scopes |-> m.scopes, doomed |-> m.doomed, cause |-> m.cause]
    BY <1>3 DEF Invariant, Typed
  <1>6. CASE call' = [call EXCEPT ![k].pc = "done"]
    <2>1. PICK x : x = At(m, "done", m.n)
      OBVIOUS
    <2>2. [m EXCEPT !.pc = "done"] = x
      BY <1>5, <2>1 DEF At
    <2>3. call' = [call EXCEPT ![k] = x]
      BY <1>1, <1>6, <2>2
    <2> QED BY <1>3, <1>4, <2>1, <2>3
  <1>7. CASE m.n < MaxAttempts /\ call' = [call EXCEPT ![k].n = @ + 1]
    <2>1. PICK n : n = m.n + 1
      OBVIOUS
    <2>2. n \in Attempts
      BY <1>3, <1>7, <2>1, SessionAssumption DEF Attempts
    <2>3. PICK x : x = At(m, "acquire", n)
      OBVIOUS
    <2>4. [m EXCEPT !.n = m.n + 1] = x
      BY <1>2, <1>5, <2>1, <2>3 DEF At
    <2>5. call' = [call EXCEPT ![k] = x]
      BY <1>1, <1>7, <2>4
    <2> QED BY <1>4, <2>1, <2>2, <2>3, <2>5
  <1> QED BY <1>1, <1>6, <1>7 DEF AcquireFails, shouldRetry

\* The pool gives the call a connection.
Taken(m, c) == [m EXCEPT !.conn = c]
Lent(b, k) == [b EXCEPT !.holder = k]

LEMMA TakenFacts ==
    ASSUME NEW k, NEW m, Typed(k, m), NEW c, NEW x, x = Taken(m, c)
    PROVE  /\ Typed(k, x) /\ x.pc = m.pc /\ x.n = m.n /\ x.kind = m.kind /\ x.conn = c
           /\ x.scopes = m.scopes /\ x.cause = m.cause
  <1>1. x = [pc |-> m.pc, kind |-> m.kind, n |-> m.n, conn |-> c, issued |-> m.issued,
             opened |-> m.opened, scopes |-> m.scopes, doomed |-> m.doomed, cause |-> m.cause]
    BY DEF Typed, Taken
  <1> QED BY <1>1 DEF Typed

LEMMA LentFacts ==
    ASSUME NEW k, NEW e, e = Lent(Fresh, k)
    PROVE  Leased(e) /\ e.holder = k /\ e.queue = <<>> /\ e.usable /\ e.status = "I"
  <1>1. e = [holder |-> k, queue |-> <<>>, usable |-> TRUE,
             status |-> "I", xact |-> <<>>, levels |-> <<>>]
    BY DEF Lent, Fresh
  <1>2. <<>> \in Seq(SUBSET Write)
    OBVIOUS
  <1>3. /\ e = [holder |-> e.holder, queue |-> e.queue, usable |-> e.usable,
                status |-> e.status, xact |-> e.xact, levels |-> e.levels]
        /\ e.holder = k /\ e.queue = <<>> /\ e.usable = TRUE /\ e.status = "I"
        /\ e.xact = <<>> /\ e.levels = <<>>
    BY <1>1
  <1> QED BY <1>2, <1>3 DEF Leased

LEMMA AcquireStep ==
    ASSUME Invariant, NEW k \in Callers, Acquire(k)
    PROVE  Invariant'
  <1>1. PICK m, r, d : m = call[k] /\ r = res[k] /\ d = db
    OBVIOUS
  <1>2. m.pc = "acquire" /\ m.pc \in Away /\ m.pc # "done"
    BY <1>1 DEF Acquire, Away
  <1>3. /\ m.conn = Nobody /\ Typed(k, m) /\ Phase(m) /\ History(k, m, TRUE, r, d)
        /\ m.n \in Attempts /\ m.scopes = <<>> /\ ~Unanswered(m, TRUE)
        /\ m.kind \in {"session", "transaction"}
    BY <1>1, <1>2, RestingFacts
  <1>4. PICK c \in Conns :
           /\ conn[c].holder = Nobody
           /\ IF m.kind = "session" THEN Continue(k, Taken(m, c), Lent(conn[c], k), "session")
                                    ELSE Await(k, Taken(m, c), Lent(conn[c], k), "begin", "begin")
    <2>1. \A c \in Conns : (Taken(m, c)).kind = m.kind
      BY <1>3, TakenFacts
    <2> QED BY <1>1, <2>1 DEF Acquire, Taken, Lent
  <1>5. conn[c] = Fresh
    BY <1>4, NobodyAssumption DEF Invariant
  <1>6. PICK x, e : x = Taken(m, c) /\ e = Lent(Fresh, k)
    OBVIOUS
  <1>7. /\ Typed(k, x) /\ x.pc = m.pc /\ x.n = m.n /\ x.kind = m.kind /\ x.conn = c
        /\ x.scopes = <<>>
    BY <1>3, <1>6, TakenFacts
  <1>8. Leased(e) /\ e.holder = k /\ e.queue = <<>> /\ e.usable /\ e.status = "I"
    BY <1>6, LentFacts
  <1>9. r[m.n].told = "none"
    BY <1>2, <1>3 DEF History, Pending
  <1>10. Writes(k, Turn(x), e.queue)
    BY <1>8, NoWrites
  <1>11. db' = d /\ db \subseteq d /\ \A w \in d \ db : w[1] = k
    BY <1>1 DEF Acquire
  <1>12. call[k].conn = Nobody /\ conn[c] = Fresh /\ x.n = call[k].n
    BY <1>1, <1>3, <1>5, <1>7
  <1>13. ASSUME NEW pc \in {"begin", "session"}, NEW y, y = [x EXCEPT !.pc = pc],
                pc = "session" <=> m.kind = "session"
         PROVE  Phase(y) /\ Backend(k, y, e) /\ History(k, y, e.usable, res[k], d) /\ y.pc = pc /\ y.kind = m.kind
    <2>1. Typed(k, y) /\ y.pc = pc /\ y.cause = x.cause /\ Same(y, x)
      BY <1>7, <1>13, PcSet
    <2>2. y.n = m.n /\ y.kind = m.kind /\ y.scopes = <<>>
      BY <1>7, <2>1 DEF Same
    <2>3. Phase(y)
      BY <1>2, <1>3, <1>13, <2>1, <2>2 DEF Phase, Away, Running, Blocked
    <2>4. Backend(k, y, e)
      BY <1>8, <2>2 DEF Backend
    <2>5. History(k, y, e.usable, r, d)
      BY <1>2, <1>3, <1>9, <2>2, HistoryKept
    <2> QED BY <1>1, <2>1, <2>2, <2>3, <2>4, <2>5
  <1>14. CASE m.kind = "session"
    <2>1. PICK pc, y : pc = "session" /\ y = [x EXCEPT !.pc = pc]
      OBVIOUS
    <2>2. Phase(y) /\ Backend(k, y, e) /\ History(k, y, e.usable, res[k], d) /\ y.kind = m.kind
      BY <1>13, <1>14, <2>1
    <2>3. Continue(k, x, e, pc)
      BY <1>4, <1>5, <1>6, <1>14, <2>1
    <2>4. Writes(k, Turn(y), e.queue) /\ pc \in Running
      BY <1>8, <2>1, NoWrites DEF Running
    <2> QED BY <1>7, <1>8, <1>11, <1>12, <2>1, <2>2, <2>3, <2>4, ContinueStep
  <1>15. CASE m.kind # "session"
    <2>1. PICK pc, y, op : pc = "begin" /\ y = [x EXCEPT !.pc = pc] /\ op = "begin"
      OBVIOUS
    <2>2. Phase(y) /\ Backend(k, y, e) /\ History(k, y, e.usable, res[k], d) /\ y.kind = m.kind
      BY <1>13, <1>15, <2>1
    <2>3. Await(k, x, e, op, pc)
      BY <1>4, <1>5, <1>6, <1>15, <2>1
    <2>4. pc \in Blocked /\ op = OpOf(pc)
      BY <2>1 DEF Blocked, OpOf
    <2> QED BY <1>7, <1>8, <1>10, <1>11, <1>12, <2>1, <2>2, <2>3, <2>4, AwaitStep
  <1> QED BY <1>14, <1>15

\* A call whose program runs.
LEMMA RunningFacts ==
    ASSUME Invariant, NEW k \in Callers, NEW m, m = call[k], m.pc \in Running, NEW b, b = conn[m.conn]
    PROVE  /\ m.conn \in Conns /\ call[k].conn = m.conn /\ b.holder = k /\ Works(k, m.conn, m, b, res[k])
           /\ Typed(k, m) /\ Phase(m) /\ Leased(b) /\ Backend(k, m, b) /\ m.n \in Attempts
           /\ Writes(k, Turn(m), b.queue) /\ History(k, m, b.usable, res[k], db) /\ ~Unanswered(m, b.usable)
           /\ m.kind \in {"session", "transaction"} /\ m.pc \notin Away /\ m.pc # "done"
  <1>1. call[k].conn # Nobody
    BY NobodyAssumption DEF Invariant, AtRest, Running, Away
  <1>2. m.conn \in Conns /\ Works(k, m.conn, m, b, res[k])
    BY <1>1, WorksFacts
  <1>3. /\ b.holder = k /\ Typed(k, m) /\ Phase(m) /\ Leased(b) /\ Backend(k, m, b)
        /\ History(k, m, b.usable, res[k], db) /\ Outstanding(k, m, b.queue)
    BY <1>2 DEF Works, AtWork
  <1>4. Writes(k, Turn(m), b.queue)
    BY <1>3, RunningWrites
  <1> QED BY <1>2, <1>3, <1>4, SessionAssumption DEF Typed, Unanswered, Running, Away

\* A callback in a transaction: its connection is in the transaction or dead.
Inside(k, m, b) ==
    /\ m.scopes # <<>> /\ Turn(m) = m.n
    /\ m.n \in Attempts \ {0} /\ res[k][m.n].told = "none"
    /\ b.status = "I" => ~b.usable
    /\ b.status # "I" => b.xact[1] = k /\ Match(k, m, b.levels, m.scopes, FALSE)

LEMMA BodyFacts ==
    ASSUME Invariant, NEW k \in Callers, NEW m, m = call[k], m.pc = "body", NEW b, b = conn[m.conn]
    PROVE  Inside(k, m, b) /\ Len(m.scopes) \in Nat /\ Len(m.scopes) > 0
  <1>1. m.pc \in Running
    BY DEF Running
  <1>2. Typed(k, m) /\ Phase(m) /\ Backend(k, m, b) /\ History(k, m, b.usable, res[k], db)
    BY <1>1, RunningFacts
  <1>3. m.scopes # <<>> /\ m.scopes \in Seq(SUBSET Write)
    BY <1>2 DEF Phase, Away, Typed
  <1>4. m.n \in Attempts \ {0} /\ res[k][m.n].told = "none"
    BY <1>2, AttemptFacts DEF Away
  <1>5. b.status # "I" => Match(k, m, b.levels, m.scopes, FALSE)
    <2>1. (m.pc = "undone") = FALSE
      OBVIOUS
    <2> QED BY <1>2, <1>3, <2>1, BackendMatch
  <1>6. Len(m.scopes) \in Nat /\ Len(m.scopes) > 0
    BY <1>3
  <1>7. Turn(m) = m.n
    BY <1>3 DEF Turn
  <1>8. (b.status = "I" => ~b.usable) /\ (b.status # "I" => b.xact[1] = k)
    BY <1>2, <1>3 DEF Backend
  <1> QED BY <1>3, <1>4, <1>5, <1>6, <1>7, <1>8 DEF Inside

\* z is m but for what the library counts and dooms.
Alike(z, m) ==
    /\ z.pc = m.pc /\ z.kind = m.kind /\ z.n = m.n /\ z.conn = m.conn
    /\ z.scopes = m.scopes /\ z.cause = m.cause

LEMMA AlikeFacts ==
    ASSUME Invariant, NEW k \in Callers, NEW m, m = call[k], m.pc = "body", NEW b, b = conn[m.conn],
           NEW z, Typed(k, z), Alike(z, m)
    PROVE  /\ Phase(z) /\ Backend(k, z, b) /\ History(k, z, b.usable, res[k], db)
           /\ Writes(k, Turn(z), b.queue) /\ Turn(z) = z.n /\ ~Unanswered(z, b.usable)
           /\ b.status # "I" => Match(k, z, b.levels, z.scopes, FALSE)
  <1>1. m.pc \in Running
    BY DEF Running
  <1>2. /\ Phase(m) /\ Backend(k, m, b) /\ Writes(k, Turn(m), b.queue) /\ m.n \in Attempts
        /\ History(k, m, b.usable, res[k], db) /\ ~Unanswered(m, b.usable) /\ m.pc # "done"
    BY <1>1, RunningFacts
  <1>3. /\ Turn(m) = m.n /\ res[k][m.n].told = "none"
        /\ b.status # "I" => Match(k, m, b.levels, m.scopes, FALSE)
    <2>1. Inside(k, m, b)
      BY BodyFacts
    <2> QED BY <2>1 DEF Inside
  <1>4. History(k, z, b.usable, res[k], db)
    BY <1>2, <1>3, HistoryKept DEF Alike
  <1>5. Phase(z) /\ Turn(z) = Turn(m) /\ ~Unanswered(z, b.usable)
    BY <1>2 DEF Phase, Turn, Alike, Unanswered
  <1>6. Backend(k, z, b)
    BY <1>2 DEF Backend, Alike, Uncommitted
  <1>7. b.status # "I" => Match(k, z, b.levels, z.scopes, FALSE)
    BY <1>3 DEF Match, Alike, Uncommitted
  <1> QED BY <1>2, <1>3, <1>4, <1>5, <1>6, <1>7 DEF Alike

\* The callback sends SAVEPOINT, or it returned and COMMIT is sent.
LEMMA BodySends ==
    ASSUME Invariant, NEW k \in Callers, NEW m, m = call[k], m.pc = "body", NEW b, b = conn[m.conn],
           NEW z, Typed(k, z), Alike(z, m), NEW pc \in {"savepoint", "commit"}, NEW op, op = pc,
           Await(k, z, b, op, pc), pc = "commit" => Len(m.scopes) = 1, UNCHANGED db
    PROVE  Invariant'
  <1>1. m.pc \in Running
    BY DEF Running
  <1>2. PICK c, d : c = m.conn /\ d = db
    OBVIOUS
  <1>3. c \in Conns /\ call[k].conn = c /\ b.holder = k /\ Leased(b)
    BY <1>1, <1>2, RunningFacts
  <1>4. /\ m.scopes # <<>> /\ m.n \in Attempts \ {0} /\ res[k][m.n].told = "none"
        /\ b.status = "I" => ~b.usable
        /\ b.status # "I" => b.xact[1] = k
    <2>1. Inside(k, m, b)
      BY BodyFacts
    <2> QED BY <2>1 DEF Inside
  <1>5. /\ Phase(z) /\ History(k, z, b.usable, res[k], db)
        /\ Writes(k, Turn(z), b.queue) /\ z.n = call[k].n
        /\ z.conn = c /\ z.pc = "body" /\ z.scopes = m.scopes /\ ~Unanswered(z, b.usable)
        /\ b.status # "I" => Match(k, z, b.levels, z.scopes, FALSE)
    <2>1. /\ Phase(z) /\ Backend(k, z, b) /\ History(k, z, b.usable, res[k], db)
          /\ Writes(k, Turn(z), b.queue) /\ Turn(z) = z.n /\ ~Unanswered(z, b.usable)
          /\ b.status # "I" => Match(k, z, b.levels, z.scopes, FALSE)
      BY AlikeFacts
    <2>2. z.n = call[k].n /\ z.conn = c /\ z.pc = "body" /\ z.scopes = m.scopes
      BY <1>2 DEF Alike
    <2> QED BY <2>1, <2>2
  <1>6. PICK x : x = [z EXCEPT !.pc = pc]
    OBVIOUS
  <1>7. Typed(k, x) /\ x.pc = pc /\ x.cause = z.cause /\ Same(x, z)
    BY <1>6, PcSet
  <1>8. x.kind = z.kind /\ x.n = z.n /\ x.scopes = m.scopes /\ x.n = m.n
    BY <1>5, <1>7 DEF Same, Alike
  <1>9. Phase(x)
    BY <1>4, <1>7, <1>8 DEF Phase, Away, Blocked, Running
  <1>10. Backend(k, x, b)
    <2>1. (x.pc = "undone") = FALSE
      BY <1>7
    <2>2. b.status # "I" => Match(k, z, b.levels, x.scopes, x.pc = "undone")
      BY <1>5, <1>8, <2>1
    <2> QED BY <1>4, <1>8, <2>1, <2>2, MatchBackend
  <1>11. History(k, x, b.usable, res[k], d)
    <2>1. z.pc # "done" /\ z.n \in Attempts /\ res[k][z.n].told = "none"
      BY <1>4, <1>5, <1>8
    <2>2. History(k, x, b.usable, res[k], db)
      BY <1>5, <1>8, <2>1, HistoryKept
    <2> QED BY <1>2, <2>2
  <1>12. pc \in Blocked /\ op = OpOf(pc)
    BY DEF Blocked, OpOf
  <1>13. Alone(x) => b.queue = <<>>
    BY <1>4, <1>7, <1>8 DEF Alone
  <1>14. db' = d /\ db \subseteq d /\ \A w \in d \ db : w[1] = k
    BY <1>2
  <1> QED BY <1>3, <1>5, <1>6, <1>9, <1>10, <1>11, <1>12, <1>13, <1>14, AwaitStep

\* The callback of the transaction threw or gave it up.
LEMMA BodyRollsBack ==
    ASSUME Invariant, NEW k \in Callers, NEW m, m = call[k], m.pc = "body", NEW b, b = conn[m.conn],
           NEW z, Typed(k, z), Alike(z, m), NEW cause \in {"rollback", "retryable", "final"},
           RollBack(k, z, b, cause), UNCHANGED db
    PROVE  Invariant'
  <1>1. m.pc \in Running
    BY DEF Running
  <1>2. PICK c : c = m.conn
    OBVIOUS
  <1>3. c \in Conns /\ call[k].conn = c /\ b.holder = k /\ Leased(b)
    BY <1>1, <1>2, RunningFacts
  <1>4. m.scopes # <<>> /\ (b.status = "I" => ~b.usable)
    <2>1. Inside(k, m, b)
      BY BodyFacts
    <2> QED BY <2>1 DEF Inside
  <1>5. /\ Phase(z) /\ Backend(k, z, b) /\ History(k, z, b.usable, res[k], db)
        /\ Writes(k, Turn(z), b.queue) /\ z.n = call[k].n
        /\ z.conn = c /\ z.pc = "body" /\ z.scopes = m.scopes /\ ~Unanswered(z, b.usable)
    <2>1. /\ Phase(z) /\ Backend(k, z, b) /\ History(k, z, b.usable, res[k], db)
          /\ Writes(k, Turn(z), b.queue) /\ Turn(z) = z.n /\ ~Unanswered(z, b.usable)
          /\ b.status # "I" => Match(k, z, b.levels, z.scopes, FALSE)
      BY AlikeFacts
    <2>2. z.n = call[k].n /\ z.conn = c /\ z.pc = "body" /\ z.scopes = m.scopes
      BY <1>2 DEF Alike
    <2> QED BY <2>1, <2>2
  <1>6. z.pc \in {"begin", "commit", "body"} /\ z.scopes # <<>>
    BY <1>4, <1>5
  <1> QED BY <1>3, <1>4, <1>5, <1>6, RollBackStep

\* The callback of a savepoint ended.
LEMMA BodyEnds ==
    ASSUME Invariant, NEW k \in Callers, NEW m, m = call[k], m.pc = "body", NEW b, b = conn[m.conn],
           NEW z, Typed(k, z), Alike(z, m), Len(m.scopes) > 1, NEW pc \in {"release", "undo"},
           NEW op, op = OpOf(pc), Await(k, z, b, op, pc), UNCHANGED db
    PROVE  Invariant'
  <1>1. m.pc \in Running
    BY DEF Running
  <1>2. PICK c : c = m.conn
    OBVIOUS
  <1>3. c \in Conns /\ call[k].conn = c /\ b.holder = k /\ Leased(b)
    BY <1>1, <1>2, RunningFacts
  <1>4. (b.status = "I" => ~b.usable) /\ (b.status # "I" => b.xact[1] = k)
    <2>1. Inside(k, m, b)
      BY BodyFacts
    <2> QED BY <2>1 DEF Inside
  <1>5. /\ Phase(z) /\ History(k, z, b.usable, res[k], db)
        /\ Writes(k, z.n, b.queue) /\ z.n = call[k].n
        /\ z.conn = c /\ z.pc = "body" /\ z.scopes = m.scopes /\ ~Unanswered(z, b.usable)
        /\ b.status # "I" => Match(k, z, b.levels, z.scopes, FALSE)
    <2>1. /\ Phase(z) /\ Backend(k, z, b) /\ History(k, z, b.usable, res[k], db)
          /\ Writes(k, Turn(z), b.queue) /\ Turn(z) = z.n /\ ~Unanswered(z, b.usable)
          /\ b.status # "I" => Match(k, z, b.levels, z.scopes, FALSE)
      BY AlikeFacts
    <2>2. z.n = call[k].n /\ z.conn = c /\ z.pc = "body" /\ z.scopes = m.scopes
      BY <1>2 DEF Alike
    <2> QED BY <2>1, <2>2
  <1>6. z.pc \notin Away \cup {"session", "sql"} /\ Len(z.scopes) > 1
    BY <1>5 DEF Away
  <1>7. pc \in {"release", "undo", "undone"} /\ pc # "undone" /\ (pc = "undone") = FALSE
    OBVIOUS
  <1>8. b.status # "I" => Match(k, z, b.levels, z.scopes, pc = "undone")
    BY <1>5, <1>7
  <1> QED BY <1>3, <1>4, <1>5, <1>6, <1>7, <1>8, UndoStep

LEMMA ThrewStep ==
    ASSUME Invariant, NEW k \in Callers, NEW m, m = call[k], m.pc = "body", NEW b, b = conn[m.conn],
           NEW z, Typed(k, z), Alike(z, m), NEW cause \in {"rollback", "retryable", "final"},
           Threw(k, z, b, cause), UNCHANGED db
    PROVE  Invariant'
  <1>1. Len(m.scopes) \in Nat /\ Len(m.scopes) > 0
    <2>1. Inside(k, m, b) /\ Len(m.scopes) \in Nat /\ Len(m.scopes) > 0
      BY BodyFacts
    <2> QED BY <2>1
  <1>2. CASE Depth(z) = 0
    <2>1. RollBack(k, z, b, cause)
      BY <1>2 DEF Threw
    <2> QED BY <2>1, BodyRollsBack
  <1>3. CASE Depth(z) # 0
    <2>1. PICK op, pc : op = "rollbackTo" /\ pc = "undo"
      OBVIOUS
    <2>2. Await(k, z, b, op, pc) /\ op = OpOf(pc) /\ pc \in {"release", "undo"}
      BY <1>3, <2>1 DEF Threw, Undo, OpOf
    <2>3. Len(m.scopes) > 1
      <3>1. z.scopes = m.scopes
        BY DEF Alike
      <3>2. PICK n : n = Len(m.scopes) /\ n - 1 # 0
        BY <1>3, <3>1 DEF Depth
      <3>3. n \in Nat /\ n > 0
        BY <1>1, <3>2
      <3>4. \A i \in Nat : i > 0 /\ i - 1 # 0 => i > 1
        OBVIOUS
      <3>5. n > 1
        BY <3>2, <3>3, <3>4
      <3> QED BY <3>2, <3>5
    <2> QED BY <2>2, <2>3, BodyEnds
  <1> QED BY <1>2, <1>3

LEMMA ReturnStep ==
    ASSUME Invariant, NEW k \in Callers, Return(k)
    PROVE  Invariant'
  <1>1. PICK m, b : m = call[k] /\ b = conn[m.conn]
    OBVIOUS
  <1>2. m.pc = "body" /\ UNCHANGED db /\ Returned(k, m, b)
    BY <1>1 DEF Return, Body
  <1>3. m.pc \in Running
    BY <1>2 DEF Running
  <1>4. Typed(k, m) /\ Alike(m, m)
    BY <1>1, <1>3, RunningFacts DEF Alike
  <1>5. Len(m.scopes) \in Nat /\ Len(m.scopes) > 0
    <2>1. Inside(k, m, b) /\ Len(m.scopes) \in Nat /\ Len(m.scopes) > 0
      BY <1>1, <1>2, BodyFacts
    <2> QED BY <2>1
  <1>6. \/ Depth(m) = 0 /\ RollBack(k, m, b, "rollback")
        \/ Depth(m) = 0 /\ Await(k, m, b, "commit", "commit")
        \/ Depth(m) # 0 /\ Undo(k, m, b)
        \/ Depth(m) # 0 /\ Await(k, m, b, "release", "release")
    BY <1>2 DEF Returned
  <1>7. CASE Depth(m) = 0 /\ RollBack(k, m, b, "rollback")
    <2>1. PICK cause : cause = "rollback"
      OBVIOUS
    <2>2. cause \in {"rollback", "retryable", "final"} /\ RollBack(k, m, b, cause)
      BY <1>7, <2>1
    <2> QED BY <1>1, <1>2, <1>4, <2>2, BodyRollsBack
  <1>8. CASE Depth(m) = 0 /\ Await(k, m, b, "commit", "commit")
    <2>1. PICK op, pc : op = "commit" /\ pc = "commit"
      OBVIOUS
    <2>2. pc \in {"savepoint", "commit"} /\ op = pc /\ Await(k, m, b, op, pc) /\ Len(m.scopes) = 1
      BY <1>5, <1>8, <2>1 DEF Depth
    <2> QED BY <1>1, <1>2, <1>4, <2>2, BodySends
  <1>9. CASE Depth(m) # 0 /\ Undo(k, m, b)
    <2>1. PICK op, pc : op = "rollbackTo" /\ pc = "undo"
      OBVIOUS
    <2>2. Await(k, m, b, op, pc) /\ op = OpOf(pc) /\ pc \in {"release", "undo"}
      BY <1>9, <2>1 DEF Undo, OpOf
    <2>3. Len(m.scopes) > 1
      <3>1. PICK n : n = Len(m.scopes) /\ n - 1 # 0
        BY <1>9 DEF Depth
      <3>2. n \in Nat /\ n > 0
        BY <1>5, <3>1
      <3>3. \A i \in Nat : i > 0 /\ i - 1 # 0 => i > 1
        OBVIOUS
      <3>4. n > 1
        BY <3>1, <3>2, <3>3
      <3> QED BY <3>1, <3>4
    <2> QED BY <1>1, <1>2, <1>4, <2>2, <2>3, BodyEnds
  <1>10. CASE Depth(m) # 0 /\ Await(k, m, b, "release", "release")
    <2>1. PICK op, pc : op = "release" /\ pc = "release"
      OBVIOUS
    <2>2. Await(k, m, b, op, pc) /\ op = OpOf(pc) /\ pc \in {"release", "undo"}
      BY <1>10, <2>1 DEF OpOf
    <2>3. Len(m.scopes) > 1
      <3>1. PICK n : n = Len(m.scopes) /\ n - 1 # 0
        BY <1>10 DEF Depth
      <3>2. n \in Nat /\ n > 0
        BY <1>5, <3>1
      <3>3. \A i \in Nat : i > 0 /\ i - 1 # 0 => i > 1
        OBVIOUS
      <3>4. n > 1
        BY <3>1, <3>2, <3>3
      <3> QED BY <3>1, <3>4
    <2> QED BY <1>1, <1>2, <1>4, <2>2, <2>3, BodyEnds
  <1> QED BY <1>6, <1>7, <1>8, <1>9, <1>10

LEMMA ThrowStep ==
    ASSUME Invariant, NEW k \in Callers, Throw(k)
    PROVE  Invariant'
  <1>1. PICK m, b : m = call[k] /\ b = conn[m.conn]
    OBVIOUS
  <1>2. m.pc = "body" /\ UNCHANGED db
    BY <1>1 DEF Throw, Body
  <1>3. PICK cause \in {"retryable", "final"} : Threw(k, m, b, cause)
    BY <1>1 DEF Throw
  <1>4. m.pc \in Running
    BY <1>2 DEF Running
  <1>5. Typed(k, m) /\ Alike(m, m)
    BY <1>1, <1>4, RunningFacts DEF Alike
  <1> QED BY <1>1, <1>2, <1>3, <1>5, ThrewStep

\* What the library counts and dooms.
Opened(m) == [m EXCEPT !.opened = @ + 1]
Doomed(m, n) == [m EXCEPT !.doomed = @ \cup {n}]
Issued(m) == [m EXCEPT !.issued = @ + 1]

LEMMA CountedFacts ==
    ASSUME NEW k, NEW m, Typed(k, m), NEW n, NEW x, x = Opened(m) \/ x = Doomed(m, n) \/ x = Issued(m)
    PROVE  Typed(k, x) /\ Alike(x, m)
  <1>1. PICK o, q, i : o = m.opened + 1 /\ q = m.doomed \cup {n} /\ i = m.issued + 1
    OBVIOUS
  <1>2. i \in Nat
    BY <1>1 DEF Typed
  <1>3. \/ x = [pc |-> m.pc, kind |-> m.kind, n |-> m.n, conn |-> m.conn, issued |-> m.issued,
                opened |-> o, scopes |-> m.scopes, doomed |-> m.doomed, cause |-> m.cause]
        \/ x = [pc |-> m.pc, kind |-> m.kind, n |-> m.n, conn |-> m.conn, issued |-> m.issued,
                opened |-> m.opened, scopes |-> m.scopes, doomed |-> q, cause |-> m.cause]
        \/ x = [pc |-> m.pc, kind |-> m.kind, n |-> m.n, conn |-> m.conn, issued |-> i,
                opened |-> m.opened, scopes |-> m.scopes, doomed |-> m.doomed, cause |-> m.cause]
    <2>1. CASE x = Opened(m)
      <3>1. x = [m EXCEPT !.opened = o]
        BY <1>1, <2>1 DEF Opened
      <3> QED BY <3>1 DEF Typed
    <2>2. CASE x = Doomed(m, n)
      <3>1. x = [m EXCEPT !.doomed = q]
        BY <1>1, <2>2 DEF Doomed
      <3> QED BY <3>1 DEF Typed
    <2>3. CASE x = Issued(m)
      <3>1. x = [m EXCEPT !.issued = i]
        BY <1>1, <2>3 DEF Issued
      <3> QED BY <3>1 DEF Typed
    <2> QED BY <2>1, <2>2, <2>3
  <1> QED BY <1>2, <1>3 DEF Typed, Alike

LEMMA SavepointStep ==
    ASSUME Invariant, NEW k \in Callers, Savepoint(k)
    PROVE  Invariant'
  <1>1. PICK m, b, z : m = call[k] /\ b = conn[m.conn] /\ z = Opened(m)
    OBVIOUS
  <1>2. m.pc = "body" /\ UNCHANGED db /\ Await(k, z, b, "savepoint", "savepoint")
    BY <1>1 DEF Savepoint, Body, Opened
  <1>3. m.pc \in Running
    BY <1>2 DEF Running
  <1>4. Typed(k, m)
    BY <1>1, <1>3, RunningFacts
  <1>5. Typed(k, z) /\ Alike(z, m)
    BY <1>1, <1>4, CountedFacts
  <1>6. PICK op, pc : op = "savepoint" /\ pc = "savepoint"
    OBVIOUS
  <1>7. pc \in {"savepoint", "commit"} /\ op = pc /\ Await(k, z, b, op, pc) /\ pc # "commit"
    BY <1>2, <1>6
  <1> QED BY <1>1, <1>2, <1>5, <1>7, BodySends

LEMMA RollbackWithStep ==
    ASSUME Invariant, NEW k \in Callers, RollbackWith(k)
    PROVE  Invariant'
  <1>1. PICK m, b : m = call[k] /\ b = conn[m.conn]
    OBVIOUS
  <1>2. m.pc = "body" /\ UNCHANGED db
    BY <1>1 DEF RollbackWith, Body
  <1>3. m.pc \in Running
    BY <1>2 DEF Running
  <1>4. PICK c, d : c = m.conn /\ d = db
    OBVIOUS
  <1>5. Typed(k, m) /\ c \in Conns /\ call[k].conn = c /\ b.holder = k /\ Leased(b)
    BY <1>1, <1>3, <1>4, RunningFacts
  <1>6. PICK n, z : /\ z = Doomed(m, n)
                    /\ Continue(k, z, conn[z.conn], "body") \/ Threw(k, z, conn[z.conn], "rollback")
    BY <1>1 DEF RollbackWith, Doomed
  <1>7. Typed(k, z) /\ Alike(z, m)
    BY <1>5, <1>6, CountedFacts
  <1>8. z.conn = m.conn
    BY <1>7 DEF Alike
  <1>9. CASE Threw(k, z, b, "rollback")
    <2>1. PICK cause : cause = "rollback"
      OBVIOUS
    <2>2. cause \in {"rollback", "retryable", "final"} /\ Threw(k, z, b, cause)
      BY <1>9, <2>1
    <2> QED BY <1>1, <1>2, <1>7, <2>2, ThrewStep
  <1>10. CASE Continue(k, z, b, "body")
    <2>1. /\ Phase(z) /\ Backend(k, z, b) /\ History(k, z, b.usable, res[k], db)
          /\ Writes(k, Turn(z), b.queue)
      BY <1>1, <1>2, <1>7, AlikeFacts
    <2>2. PICK pc, x : pc = "body" /\ x = [z EXCEPT !.pc = pc]
      OBVIOUS
    <2>3. x = z
      <3>1. z = [pc |-> z.pc, kind |-> z.kind, n |-> z.n, conn |-> z.conn, issued |-> z.issued,
                 opened |-> z.opened, scopes |-> z.scopes, doomed |-> z.doomed, cause |-> z.cause]
        BY <1>7 DEF Typed
      <3>2. z.pc = pc
        BY <1>2, <1>7, <2>2 DEF Alike
      <3> QED BY <2>2, <3>1, <3>2
    <2>4. Continue(k, z, b, pc) /\ pc \in Running /\ db' = d /\ db \subseteq d /\ \A w \in d \ db : w[1] = k
      BY <1>2, <1>4, <1>10, <2>2 DEF Running
    <2>5. History(k, x, b.usable, res[k], d) /\ Phase(x) /\ Backend(k, x, b) /\ Writes(k, Turn(x), b.queue)
      BY <1>4, <2>1, <2>3
    <2>6. z.conn = c
      BY <1>4, <1>8
    <2> QED BY <1>5, <1>7, <2>2, <2>4, <2>5, <2>6, ContinueStep
  <1> QED BY <1>1, <1>6, <1>8, <1>9, <1>10

\* A statement goes behind those on their way.
LEMMA WritesMore ==
    ASSUME NEW k, NEW t, NEW q, Writes(k, t, q), NEW x \in Command,
           x.op = "write", x.by = <<k, t>>, x.w \in WritesOf(k, t)
    PROVE  Writes(k, t, Append(q, x))
  <1>1. q \in Seq(Command)
    BY DEF Writes
  <1> DEFINE p == Append(q, x)
  <1>2. /\ Len(q) \in Nat /\ p \in Seq(Command) /\ Len(p) = Len(q) + 1 /\ p[Len(q) + 1] = x
        /\ \A i \in 1..Len(q) : p[i] = q[i]
    BY <1>1, QueueFacts
  <1> HIDE DEF p
  <1>3. ASSUME NEW i \in 1..Len(p)
        PROVE  p[i].op = "write" /\ p[i].by = <<k, t>> /\ p[i].w \in WritesOf(k, t)
    <2>1. CASE i = Len(q) + 1
      BY <1>2, <2>1
    <2>2. CASE i # Len(q) + 1
      <3>1. i \in 1..Len(q)
        BY <1>2, <2>2
      <3> QED BY <1>2, <3>1 DEF Writes
    <2> QED BY <2>1, <2>2
  <1> QED BY <1>2, <1>3 DEF Writes, p

\* A connection with a statement more.
Queued(b, x) == [b EXCEPT !.queue = Append(@, x)]

LEMMA QueuedFacts ==
    ASSUME NEW b, Leased(b), NEW x, NEW e, e = Queued(b, x)
    PROVE  /\ Leased(e) /\ e.holder = b.holder /\ e.queue = Append(b.queue, x) /\ e.usable = b.usable
           /\ e.status = b.status /\ e.xact = b.xact /\ e.levels = b.levels
  <1>1. PICK q : q = Append(b.queue, x)
    OBVIOUS
  <1>2. e = [b EXCEPT !.queue = q]
    BY <1>1 DEF Queued
  <1>3. e = [holder |-> b.holder, queue |-> q, usable |-> b.usable,
             status |-> b.status, xact |-> b.xact, levels |-> b.levels]
    BY <1>2 DEF Leased
  <1> QED BY <1>1, <1>3 DEF Leased

LEMMA AppendThird ==
    ASSUME NEW a, NEW b, NEW n
    PROVE  Append(<<a, b>>, n) = <<a, b, n>>
  <1>1. PICK s, p : s = Append(<<a, b>>, n) /\ p = <<a, b, n>>
    OBVIOUS
  <1> DEFINE S == {a, b, n}
  <1>2. <<a, b>> \in Seq(S) /\ n \in S
    OBVIOUS
  <1>3. s \in Seq(S) /\ Len(s) = 3 /\ s[1] = a /\ s[2] = b /\ s[3] = n
    BY <1>1, <1>2
  <1>4. p \in Seq(S) /\ Len(p) = 3 /\ p[1] = a /\ p[2] = b /\ p[3] = n
    BY <1>1
  <1>5. ASSUME NEW i \in 1..3 PROVE s[i] = p[i]
    BY <1>3, <1>4
  <1>6. s = [i \in 1..3 |-> s[i]] /\ p = [i \in 1..3 |-> p[i]]
    BY <1>3, <1>4
  <1>7. [i \in 1..3 |-> s[i]] = [i \in 1..3 |-> p[i]]
    BY <1>5
  <1> QED BY <1>1, <1>6, <1>7

LEMMA IssueStep ==
    ASSUME Invariant, ~Late, NEW k \in Callers, Issue(k)
    PROVE  Invariant'
  <1>1. PICK m, b, n, by, c, d : /\ m = call[k] /\ b = conn[m.conn] /\ n = m.issued + 1 /\ c = m.conn /\ d = db
                                 /\ by = IF m.pc = "session" THEN <<k, 0>> ELSE <<k, m.n>>
    OBVIOUS
  <1>2. m.pc \in Running
    BY <1>1 DEF Issue, Usable, Running
  <1>3. /\ c \in Conns /\ call[k].conn = c /\ b.holder = k
        /\ Typed(k, m) /\ Phase(m) /\ Leased(b) /\ Backend(k, m, b) /\ m.n \in Attempts
        /\ Writes(k, Turn(m), b.queue) /\ History(k, m, b.usable, res[k], db)
        /\ m.kind \in {"session", "transaction"} /\ m.pc \notin Away
    BY <1>1, <1>2, RunningFacts
  <1>4. n <= MaxWrites /\ UNCHANGED <<db, res>>
    BY <1>1 DEF Issue
  <1>5. PICK t, w, x, z, e : /\ t = Turn(m) /\ w = <<k, t, n>> /\ x = [op |-> "write", by |-> by, w |-> w]
                             /\ z = Issued(m) /\ e = Queued(b, x)
    OBVIOUS
  <1>6. by = <<k, t>>
    BY <1>1, <1>2, <1>3, <1>5 DEF Running, Phase, Turn, Away
  <1>7. t \in Attempts
    BY <1>3, <1>5, SessionAssumption DEF Turn, Attempts
  <1>8. w \in WritesOf(k, t)
    <2>1. n \in 1..MaxWrites
      BY <1>1, <1>3, <1>4, SessionAssumption DEF Typed
    <2> QED BY <1>5, <1>7, <2>1 DEF WritesOf, Write
  <1>9. x \in Command /\ x.op = "write" /\ x.by = <<k, t>> /\ x.w \in WritesOf(k, t)
    BY <1>5, <1>6, <1>7, <1>8 DEF Command, WritesOf
  <1>10. Typed(k, z) /\ Alike(z, m)
    BY <1>3, <1>5, CountedFacts
  <1>11. /\ Leased(e) /\ e.holder = b.holder /\ e.queue = Append(b.queue, x) /\ e.usable = b.usable
         /\ e.status = b.status /\ e.xact = b.xact /\ e.levels = b.levels
    BY <1>3, <1>5, QueuedFacts
  <1>12. Writes(k, t, e.queue)
    <2>1. Writes(k, t, b.queue)
      BY <1>3, <1>5
    <2>2. Writes(k, t, Append(b.queue, x))
      BY <1>9, <2>1, WritesMore
    <2> QED BY <1>11, <2>2
  <1>13. Phase(z) /\ Turn(z) = t /\ z.pc \in Running /\ z.conn = c /\ z.pc \notin Away
    BY <1>1, <1>2, <1>3, <1>5, <1>10 DEF Alike, Phase, Turn
  <1>14. z.scopes = <<>> => z.kind # "transaction"
    BY <1>2, <1>3, <1>10 DEF Phase, Running, Away, Alike
  <1>15. Outstanding(k, z, e.queue)
    BY <1>12, <1>13, <1>14, WritesRunning
  <1>16. Backend(k, z, e)
    BY <1>3, <1>10, <1>11 DEF Backend, Alike, Uncommitted
  <1>17. History(k, z, e.usable, res[k], d)
    <2>1. Truth(k, res[k], d)
      BY <1>1, <1>3 DEF History
    <2>2. Pending(k, z, e.usable, res[k], d) /\ Once(k, z, e.usable, d)
      BY <1>1, <1>3, <1>10, <1>11 DEF History, Pending, Once, Alike, Unanswered
    <2> QED BY <2>1, <2>2 DEF History
  <1>18. AtWork(k, z, e, res[k], d)
    BY <1>10, <1>11, <1>13, <1>15, <1>16, <1>17 DEF AtWork
  <1>19. PICK r : r = res[k]
    OBVIOUS
  <1>20. Good(k, c, z, e, r, d)
    BY <1>3, <1>11, <1>13, <1>18, <1>19 DEF Good
  <1>21. Append(by, n) = w
    BY <1>5, <1>6, AppendThird
  <1>22. call' = [call EXCEPT ![k] = z]
    <2>1. call' = [call EXCEPT ![k].issued = n]
      BY <1>1 DEF Issue
    <2>2. z = [m EXCEPT !.issued = n]
      BY <1>1, <1>5 DEF Issued
    <2> QED BY <1>1, <2>1, <2>2
  <1>23. conn' = [conn EXCEPT ![c] = e]
    <2>1. conn' = [conn EXCEPT ![c].queue = Append(@, x)]
      BY <1>1, <1>5, <1>21 DEF Issue, Attempt, Outside
    <2>2. e = [conn[c] EXCEPT !.queue = Append(@, x)]
      BY <1>1, <1>5 DEF Queued
    <2> QED BY <2>1, <2>2
  <1>24. res' = [res EXCEPT ![k] = r]
    BY <1>4, <1>19, Unchanged
  <1>25. Stepped(k, c, z, e, r, d)
    BY <1>1, <1>4, <1>22, <1>23, <1>24 DEF Stepped
  <1>26. db \subseteq d /\ \A y \in d \ db : y[1] = k
    BY <1>1
  <1> QED BY <1>3, <1>20, <1>25, <1>26, GoodStep

\* A session waits for a BEGIN, its own or that of a transaction.
LEMMA SessionSends ==
    ASSUME Invariant, NEW k \in Callers, NEW m, m = call[k], m.pc = "session", NEW b, b = conn[m.conn],
           NEW x, Typed(k, x), x.pc \in {"begin", "sql"}, x.kind = m.kind, x.conn = m.conn, x.scopes = <<>>,
           \/ x.pc = "begin" /\ x.n \in Attempts /\ x.n > m.n
           \/ x.pc = "sql" /\ x.n = m.n,
           NEW by \in {<<k, x.n>>, <<k, 0>>}, NEW e, e = Sent(b, "begin", by),
           call' = [call EXCEPT ![k] = x], conn' = [conn EXCEPT ![m.conn] = e], UNCHANGED <<db, res>>
    PROVE  Invariant'
  <1>1. m.pc \in Running
    BY DEF Running
  <1>2. PICK c, d, r : c = m.conn /\ d = db /\ r = res[k]
    OBVIOUS
  <1>3. /\ c \in Conns /\ call[k].conn = c /\ b.holder = k
        /\ Typed(k, m) /\ Phase(m) /\ Leased(b) /\ Backend(k, m, b) /\ m.n \in Attempts
        /\ Writes(k, Turn(m), b.queue) /\ History(k, m, b.usable, r, d) /\ ~Unanswered(m, b.usable)
        /\ m.pc # "done"
    BY <1>1, <1>2, RunningFacts
  <1>4. m.kind = "session" /\ m.scopes = <<>>
    BY <1>3 DEF Phase
  <1>5. Phase(x)
    <2>1. x.pc = "begin" => x.n # 0
      BY <1>3, SessionAssumption DEF Attempts
    <2>2. /\ x.pc \in {"begin", "sql"} /\ x.kind = "session" /\ x.scopes = <<>>
      BY <1>4
    <2> QED BY <2>1, <2>2 DEF Phase, Away, Running, Blocked
  <1>6. Backend(k, x, b)
    BY <1>3, <1>4 DEF Backend
  <1>7. History(k, x, b.usable, r, d)
    <2>1. CASE x.pc = "begin" /\ x.n \in Attempts /\ x.n > m.n
      BY <1>3, <2>1, HistoryMoves
    <2>2. CASE x.pc = "sql" /\ x.n = m.n
      BY <1>3, <2>2, HistoryKept
    <2> QED BY <2>1, <2>2
  <1>8. Turn(x) = Turn(m)
    BY <1>4 DEF Turn
  <1>9. ~Alone(x) /\ x.pc \in Blocked
    BY <1>4 DEF Alone, Blocked
  <1>10. PICK op : op = "begin"
    OBVIOUS
  <1>11. op = OpOf(x.pc) /\ e = Sent(b, op, by)
    BY <1>10 DEF OpOf
  <1>12. Writes(k, Turn(x), b.queue) /\ x.conn = c
    BY <1>2, <1>3, <1>8
  <1>13. Good(k, c, x, Sent(b, op, by), r, d)
    BY <1>3, <1>5, <1>6, <1>7, <1>9, <1>11, <1>12, SentWorks
  <1>14. Good(k, c, x, e, r, d)
    BY <1>11, <1>13
  <1>15. res' = [res EXCEPT ![k] = r]
    BY <1>2, Unchanged
  <1>16. Stepped(k, c, x, e, r, d)
    BY <1>2, <1>15 DEF Stepped
  <1>17. db \subseteq d /\ \A w \in d \ db : w[1] = k
    BY <1>2
  <1> QED BY <1>3, <1>14, <1>16, <1>17, GoodStep

LEMMA SessionTransactionStep ==
    ASSUME Invariant, NEW k \in Callers, SessionTransaction(k)
    PROVE  Invariant'
  <1>1. PICK m, b, n : m = call[k] /\ b = conn[m.conn] /\ n = m.n + 1
    OBVIOUS
  <1>2. m.pc = "session" /\ m.n < MaxNested /\ UNCHANGED <<db, res>>
    BY <1>1 DEF SessionTransaction, SessionBody
  <1>3. m.pc \in Running
    BY <1>2 DEF Running
  <1>4. Typed(k, m) /\ Phase(m) /\ m.n \in Attempts
    BY <1>1, <1>3, RunningFacts
  <1>5. n \in Attempts /\ n > m.n
    BY <1>1, <1>2, <1>4, SessionAssumption DEF Attempts
  <1>6. PICK z : z = [m EXCEPT !.n = n]
    OBVIOUS
  <1>7. PICK x, by, e : x = At(m, "begin", n) /\ by = <<k, n>> /\ e = Sent(b, "begin", by)
    OBVIOUS
  <1>8. z.n = n /\ z.conn = m.conn /\ [z EXCEPT !.pc = "begin"] = x
    <2>1. z = [pc |-> m.pc, kind |-> m.kind, n |-> n, conn |-> m.conn, issued |-> m.issued,
               opened |-> m.opened, scopes |-> m.scopes, doomed |-> m.doomed, cause |-> m.cause]
      BY <1>4, <1>6 DEF Typed
    <2>2. x = [pc |-> "begin", kind |-> m.kind, n |-> n, conn |-> m.conn, issued |-> m.issued,
               opened |-> m.opened, scopes |-> m.scopes, doomed |-> m.doomed, cause |-> m.cause]
      BY <1>4, <1>7 DEF Typed, At
    <2> QED BY <2>1, <2>2
  <1>9. call' = [call EXCEPT ![k] = x]
    BY <1>1, <1>6, <1>8 DEF SessionTransaction
  <1>10. conn' = [conn EXCEPT ![m.conn] = e]
    <2>1. conn' = [conn EXCEPT ![m.conn].queue = Append(@, [op |-> "begin", by |-> <<k, n>>, w |-> <<>>])]
      BY <1>1, <1>6, <1>8 DEF SessionTransaction
    <2> QED BY <1>1, <1>7, <2>1 DEF Sent
  <1>11. /\ Typed(k, x) /\ x.pc = "begin" /\ x.n = n /\ x.kind = m.kind /\ x.conn = m.conn
         /\ x.scopes = <<>>
    <2>1. m.scopes = <<>>
      BY <1>2, <1>4 DEF Phase
    <2> QED BY <1>4, <1>5, <1>7, <2>1, AtSet
  <1>12. by \in {<<k, x.n>>, <<k, 0>>} /\ x.pc \in {"begin", "sql"} /\ x.n \in Attempts /\ x.n > m.n
    BY <1>5, <1>7, <1>11
  <1> QED BY <1>1, <1>2, <1>7, <1>9, <1>10, <1>11, <1>12, SessionSends

LEMMA RawBeginStep ==
    ASSUME Invariant, NEW k \in Callers, RawBegin(k)
    PROVE  Invariant'
  <1>1. PICK m, b : m = call[k] /\ b = conn[m.conn]
    OBVIOUS
  <1>2. m.pc = "session" /\ UNCHANGED <<db, res>>
    BY <1>1 DEF RawBegin, SessionBody
  <1>3. m.pc \in Running
    BY <1>2 DEF Running
  <1>4. Typed(k, m) /\ Phase(m)
    BY <1>1, <1>3, RunningFacts
  <1>5. PICK x, by, e : /\ x = [m EXCEPT !.pc = "sql", !.opened = 1]
                        /\ by = <<k, 0>> /\ e = Sent(b, "begin", by)
    OBVIOUS
  <1>6. x = [pc |-> "sql", kind |-> m.kind, n |-> m.n, conn |-> m.conn, issued |-> m.issued,
             opened |-> 1, scopes |-> m.scopes, doomed |-> m.doomed, cause |-> m.cause]
    BY <1>4, <1>5 DEF Typed
  <1>7. /\ Typed(k, x) /\ x.pc = "sql" /\ x.n = m.n /\ x.kind = m.kind /\ x.conn = m.conn
        /\ x.scopes = m.scopes
    BY <1>4, <1>6 DEF Typed
  <1>8. m.scopes = <<>>
    BY <1>2, <1>4 DEF Phase
  <1>9. call' = [call EXCEPT ![k] = x] /\ conn' = [conn EXCEPT ![m.conn] = e]
    BY <1>1, <1>5 DEF RawBegin, Sent, Outside
  <1>10. by \in {<<k, x.n>>, <<k, 0>>} /\ x.pc \in {"begin", "sql"} /\ x.scopes = <<>>
    BY <1>5, <1>7, <1>8
  <1> QED BY <1>1, <1>2, <1>5, <1>7, <1>9, <1>10, SessionSends

LEMMA EndSessionStep ==
    ASSUME Invariant, ~Late, NEW k \in Callers, EndSession(k)
    PROVE  Invariant'
  <1>1. PICK m, b, c, d, r : m = call[k] /\ b = conn[m.conn] /\ c = m.conn /\ d = db /\ r = res[k]
    OBVIOUS
  <1>2. m.pc = "session" /\ UNCHANGED <<db, res>> /\ b.queue = <<>>
    BY <1>1 DEF EndSession, SessionBody, Waiting
  <1>3. m.pc \in Running
    BY <1>2 DEF Running
  <1>4. /\ c \in Conns /\ call[k].conn = c /\ Typed(k, m) /\ Phase(m) /\ Leased(b)
        /\ History(k, m, b.usable, r, d) /\ ~Unanswered(m, b.usable) /\ m.n \in Attempts /\ m.pc # "done"
    BY <1>1, <1>3, RunningFacts
  <1>5. m.scopes = <<>>
    BY <1>2, <1>4 DEF Phase
  <1>6. PICK threw : conn' = [conn EXCEPT ![c] = Back(b, threw)]
    BY <1>1 DEF EndSession
  <1>7. Back(b, threw) = Fresh
    <2>1. CASE b.status = "I"
      BY <1>2, <1>4, <2>1, BackFresh
    <2>2. CASE b.status # "I"
      BY <2>2 DEF Back
    <2> QED BY <2>1, <2>2
  <1>8. 0 \in Attempts
    BY SessionAssumption DEF Attempts
  <1>9. PICK left, x : left = Left(m) /\ x = At(left, "done", 0)
    OBVIOUS
  <1>10. /\ Typed(k, x) /\ x.pc = "done" /\ x.kind = m.kind /\ x.n = 0 /\ x.conn = Nobody
         /\ x.scopes = <<>>
    BY <1>4, <1>5, <1>8, <1>9, LeftFacts
  <1>11. call' = [call EXCEPT ![k] = x]
    <2>1. PICK y : y = [m EXCEPT !.pc = "done", !.n = 0, !.conn = Nobody, !.issued = 0, !.opened = 0]
      OBVIOUS
    <2>2. y = [pc |-> "done", kind |-> m.kind, n |-> 0, conn |-> Nobody, issued |-> 0,
               opened |-> 0, scopes |-> m.scopes, doomed |-> m.doomed, cause |-> m.cause]
      BY <1>4, <2>1 DEF Typed
    <2>3. left = [pc |-> m.pc, kind |-> m.kind, n |-> m.n, conn |-> Nobody, issued |-> 0,
                  opened |-> 0, scopes |-> m.scopes, doomed |-> m.doomed, cause |-> m.cause]
      BY <1>4, <1>9 DEF Typed, Left
    <2>4. x = [left EXCEPT !.pc = "done", !.n = 0]
      BY <1>9 DEF At
    <2>5. /\ left = [pc |-> left.pc, kind |-> left.kind, n |-> left.n, conn |-> left.conn,
                     issued |-> left.issued, opened |-> left.opened, scopes |-> left.scopes,
                     doomed |-> left.doomed, cause |-> left.cause]
          /\ left.kind = m.kind /\ left.conn = Nobody /\ left.issued = 0 /\ left.opened = 0
          /\ left.scopes = m.scopes /\ left.doomed = m.doomed /\ left.cause = m.cause
      BY <2>3
    <2>6. x = [pc |-> "done", kind |-> left.kind, n |-> 0, conn |-> left.conn, issued |-> left.issued,
               opened |-> left.opened, scopes |-> left.scopes, doomed |-> left.doomed, cause |-> left.cause]
      BY <2>4, <2>5
    <2>7. x = y
      BY <2>2, <2>5, <2>6
    <2>8. call' = [call EXCEPT ![k] = y]
      BY <1>1, <2>1 DEF EndSession
    <2> QED BY <2>7, <2>8
  <1>12. Phase(x) /\ x.pc \in Away
    BY <1>10 DEF Phase, Away, Running, Blocked
  <1>13. History(k, x, TRUE, r, d)
    <2>1. x.n \in Attempts
      BY <1>8, <1>10
    <2> QED BY <1>4, <1>10, <2>1, HistoryMoves
  <1>14. AtRest(k, x, r, d)
    BY <1>10, <1>12, <1>13 DEF AtRest
  <1>15. PICK e : e = Fresh
    OBVIOUS
  <1>16. Good(k, c, x, e, r, d)
    BY <1>10, <1>14, <1>15 DEF Good
  <1>17. res' = [res EXCEPT ![k] = r]
    BY <1>1, <1>2, Unchanged
  <1>18. Stepped(k, c, x, e, r, d)
    BY <1>1, <1>2, <1>6, <1>7, <1>11, <1>15, <1>17 DEF Stepped
  <1>19. db \subseteq d /\ \A w \in d \ db : w[1] = k
    BY <1>1
  <1> QED BY <1>4, <1>16, <1>18, <1>19, GoodStep

-----------------------------------------------------------------------------
(* The invariant.                                                          *)

LEMMA InitInvariant ==
    ASSUME Init
    PROVE  Invariant
  <1>1. ASSUME NEW k \in Callers
        PROVE  call[k].conn = Nobody /\ AtRest(k, call[k], res[k], db)
    <2>1. PICK m, r : m = call[k] /\ r = res[k]
      OBVIOUS
    <2>2. m = [pc |-> "idle", kind |-> KindOf[k], n |-> 0, conn |-> Nobody, issued |-> 0,
               opened |-> 0, scopes |-> <<>>, doomed |-> {}, cause |-> "none"]
      BY <2>1 DEF Init
    <2>3. 0 \in Attempts
      BY SessionAssumption DEF Attempts
    <2>4. <<>> \in Seq(SUBSET Write)
      OBVIOUS
    <2>5. Typed(k, m)
      BY <2>2, <2>3, <2>4 DEF Typed
    <2>6. m.pc = "idle" /\ m.n = 0 /\ m.scopes = <<>> /\ m.conn = Nobody
      BY <2>2
    <2>7. Phase(m) /\ m.pc \in Away
      BY <2>6 DEF Phase, Away, Running, Blocked
    <2>8. r = [n \in Attempts |-> Told] /\ db = {}
      BY <2>1 DEF Init
    <2>9. r = [n \in Attempts |-> r[n]] /\ \A n \in Attempts : r[n].told = "none"
      BY <2>8 DEF Told
    <2>10. Truth(k, r, db)
      BY <2>9 DEF Truth
    <2>11. Pending(k, m, TRUE, r, db)
      BY <2>3, <2>8, <2>9 DEF Pending
    <2>12. Once(k, m, TRUE, db)
      BY <2>8 DEF Once
    <2> QED BY <2>1, <2>5, <2>6, <2>7, <2>10, <2>11, <2>12 DEF AtRest, History
  <1>2. \A c \in Conns : conn[c] = Fresh
    BY DEF Init
  <1>3. /\ call = [k \in Callers |-> call[k]] /\ conn = [c \in Conns |-> conn[c]]
        /\ res = [k \in Callers |-> res[k]]
    BY DEF Init
  <1> QED BY <1>1, <1>2, <1>3 DEF Invariant

LEMMA NextInvariant ==
    ASSUME ~Late, Invariant, Next \/ UNCHANGED vars
    PROVE  Invariant'
  <1>1. CASE \E c \in Conns : Answer(c) \/ Reject(c) \/ Lose(c) \/ Dead(c)
    BY <1>1, AnswerStep, RejectStep, LoseStep, DeadStep
  <1>2. CASE \E k \in Callers : Application(k) \/ Acquire(k) \/ AcquireFails(k)
    <2>1. PICK k \in Callers : Application(k) \/ Acquire(k) \/ AcquireFails(k)
      BY <1>2
    <2>2. CASE Application(k)
      BY <2>2, StartStep, IssueStep, SavepointStep, ReturnStep, ThrowStep, RollbackWithStep,
         SessionTransactionStep, RawBeginStep, EndSessionStep DEF Application
    <2> QED BY <2>1, <2>2, AcquireStep, AcquireFailsStep
  <1>3. CASE UNCHANGED vars
    BY <1>3 DEF vars, Invariant
  <1> QED BY <1>1, <1>2, <1>3 DEF Next

\* The memory of every call, the connection it holds and what it was told fit
\* together, when no handle is used after its callback returned.
THEOREM InvariantHolds ==
    ASSUME ~Late
    PROVE  Spec => []Invariant
  <1>1. Init => Invariant
    BY InitInvariant
  <1>2. Invariant /\ [Next]_vars => Invariant'
    BY NextInvariant
  <1> QED BY <1>1, <1>2, PTL DEF Spec

-----------------------------------------------------------------------------
(* What it means for the callers.                                          *)

\* Nobody runs in another's transaction: what comes back to the pool is idle,
\* and what is leased runs the statements of its holder only.
THEOREM OwnConnectionHolds ==
    ASSUME ~Late
    PROVE  Spec => []OwnConnection
  <1>1. ASSUME Invariant
        PROVE  OwnConnection
    <2> SUFFICES ASSUME NEW c \in Conns, NEW b, b = conn[c]
                 PROVE  /\ b.holder = Nobody => b.status = "I" /\ b.queue = <<>>
                        /\ b.holder # Nobody =>
                              /\ call[b.holder].conn = c
                              /\ b.status # "I" => b.xact[1] = b.holder
                              /\ \A i \in DOMAIN b.queue :
                                    b.queue[i].by \in {Attempt(b.holder), Outside(b.holder)}
      BY DEF OwnConnection
    <2>1. CASE b = Fresh
      BY <2>1 DEF Fresh
    <2>2. CASE b # Fresh
      <3>1. PICK k, m : k = b.holder /\ m = call[k]
        OBVIOUS
      <3>2. k \in Callers /\ m.conn = c /\ Works(k, c, m, b, res[k])
        BY <1>1, <2>2, <3>1, HolderWorks
      <3>3. Outstanding(k, m, b.queue) /\ Backend(k, m, b)
        BY <3>2 DEF Works, AtWork
      <3>4. PICK q : q = b.queue
        OBVIOUS
      <3>5. q \in Seq(Command) /\ \A i \in 1..Len(q) : q[i].by \in {<<k, m.n>>, <<k, 0>>}
        BY <3>3, <3>4 DEF Outstanding, Turn
      <3>6. \A i \in DOMAIN q : q[i].by \in {Attempt(k), Outside(k)}
        BY <3>1, <3>5 DEF Attempt, Outside
      <3>7. b.status # "I" => b.xact[1] = k
        BY <3>3 DEF Backend
      <3> QED BY <3>1, <3>2, <3>4, <3>6, <3>7, NobodyAssumption
    <2> QED BY <2>1, <2>2
  <1> QED BY <1>1, InvariantHolds, PTL

\* What is known of every caller, with or without a connection.
LEMMA HistoryOf ==
    ASSUME Invariant, NEW k \in Callers
    PROVE  /\ Truth(k, res[k], db)
           /\ call[k].kind = "transaction" =>
                 \A i, j \in Attempts : db \cap WritesOf(k, i) # {} /\ db \cap WritesOf(k, j) # {} => i = j
  BY DEF Invariant, AtRest, AtWork, History, Once

\* Whatever is retried, at most one attempt of db.transaction commits.
THEOREM AtMostOneCommitHolds ==
    ASSUME ~Late
    PROVE  Spec => []AtMostOneCommit
  <1>1. Invariant => AtMostOneCommit
    BY HistoryOf DEF AtMostOneCommit
  <1> QED BY <1>1, InvariantHolds, PTL

\* What a caller was told of its transaction is what happened to it: it
\* committed what the callback and its savepoints kept, or left nothing.
THEOREM OutcomeToldHolds ==
    ASSUME ~Late
    PROVE  Spec => []OutcomeTold
  <1>1. Invariant => OutcomeTold
    BY HistoryOf DEF OutcomeTold, Truth
  <1> QED BY <1>1, InvariantHolds, PTL
================================================================================
