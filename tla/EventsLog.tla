------------------------------ MODULE EventsLog ------------------------------
(***************************************************************************)
(* The events log of pg-prime-events: transactions that insert entries and *)
(* commit in any order, one subscription with its lease, cursor and        *)
(* attempt marker, and readers that serve it.                              *)
(*                                                                         *)
(* A statement of PostgreSQL is one step.  A transaction of a handler that *)
(* calls ctx.commit locks the row of the subscription from that statement  *)
(* to its end, so it is one step at its end.  Delays (backoff, polling)    *)
(* are steps that may take any time.                                       *)
(***************************************************************************)
EXTENDS Integers, Sequences, FiniteSetsExt

CONSTANTS
    Readers,           \* processes that call subscription.run
    MaxXid,            \* bound: transactions 1..MaxXid
    MaxEntries,        \* bound: entries 1..MaxEntries
    Unwanted,          \* the ids whose type the subscription does not ask for
    BatchSize,         \* RunOptions.batchSize
    MaxAttempts,       \* SubscriptionDef.retry.maxAttempts
    KeepUntilConsumed, \* topics.keep_until_consumed
    Modes,             \* how the handler takes entries: "entry", "batch"
    MaxFaults,         \* bound: crashes, failed statements, stops, lapses of a live
                       \* lease and resets together
    Resets             \* whether an administrator resets the subscription

ASSUME EventsAssumption ==
    /\ MaxXid \in Nat /\ MaxEntries \in Nat /\ Unwanted \subseteq Nat
    /\ BatchSize \in Nat \ {0} /\ MaxAttempts \in Nat \ {0}
    /\ KeepUntilConsumed \in BOOLEAN
    /\ Modes \subseteq {"entry", "batch"} /\ MaxFaults \in Nat /\ Resets \in BOOLEAN

VARIABLES
    tx,        \* the state of each transaction
    entries,   \* the rows inserted so far, also of running and aborted transactions
    deleted,   \* ids that retention deleted
    sub,       \* the row of the subscription
    parked,    \* ids with a row in parked
    rd,        \* what each reader has in memory
    mode,      \* whether the handler takes entries one by one or in batches
    seeded,    \* what reset('now') has read and not written yet
    settled,   \* ghost: ids handled or parked since the last reset
    passed,    \* ghost: ids the last reset stepped over
    applied,   \* ghost: per id, committed transactions that acknowledged it
    alone,     \* ghost: per id, attempts that were charged to it
    budget     \* faults left

vars == <<tx, entries, deleted, sub, parked, rd, mode, seeded, settled, passed,
          applied, alone, budget>>

Xids == 1..MaxXid
Ids == 1..MaxEntries
Entry == [id : Ids, xid : Xids, wanted : BOOLEAN]

NoReader == "none"
ASSUME NoReaderAssumption == NoReader \notin Readers
NotPending == -1
\* A transaction id or entry id below all others.
Zero == 0

-----------------------------------------------------------------------------
(* Cursors: a position (xid, id) and, for each transaction below it that   *)
(* was running when a read stepped over it, the last id delivered from it. *)

Cursor == [xid : 0..MaxXid + 1, id : 0..MaxEntries,
           pending : [Xids -> {NotPending} \cup 0..MaxEntries]]

NoneSince == [x \in Xids |-> NotPending]
BEGINNING == [xid |-> Zero, id |-> Zero, pending |-> NoneSince]
NoCursor == [xid |-> MaxXid + 1, id |-> MaxEntries, pending |-> NoneSince]
NotSeeded == [cursor |-> NoCursor, over |-> {}]

Before(e, f) == e.xid < f.xid \/ (e.xid = f.xid /\ e.id < f.id)

\* The entry is still to come for the cursor.
Ahead(c, e) ==
    \/ Before(c, e)
    \/ c.pending[e.xid] # NotPending /\ e.id > c.pending[e.xid]

Visible == {e \in entries : tx[e.xid] = "committed" /\ e.id \notin deleted}

\* pg_snapshot_xmax and pg_snapshot_xip.
Ended == {x \in Xids : tx[x] \in {"committed", "aborted"}}
Xmax == 1 + Max(Ended \cup {0})
Running == {x \in Xids : tx[x] = "running" /\ x < Xmax}

\* Mutant: a cursor that starts now forgets what is running.
seedPosition == [xid |-> Xmax, id |-> Zero, pending |-> NoneSince]

seed == [xid |-> Xmax, id |-> Zero,
         pending |-> [x \in Xids |-> IF x \in Running THEN Zero ELSE NotPending]]

\* Mutant: transactions still running are not remembered.
addNoRunning(pending, running, below) == pending

addRunning(pending, running, below) ==
    [x \in Xids |-> IF x \in running /\ x < below /\ pending[x] = NotPending
                    THEN Zero ELSE pending[x]]

\* The cursor right after acknowledging e.
advance(c, view, e) ==
    IF c.pending[e.xid] # NotPending
    THEN [c EXCEPT !.pending[e.xid] = e.id]
    ELSE [xid |-> e.xid, id |-> e.id,
          pending |-> addRunning(c.pending, view.running, e.xid)]

The(S) == CHOOSE e \in S : TRUE

\* The cursor once everything a read delivered is acknowledged.
advanceTo(c, view) ==
    LET pos == The(view.pos)
        late == The(view.late)
        joined == IF view.pos = {} THEN c.pending
                  ELSE addRunning(c.pending, view.running, pos.xid)
        After(x) ==
            IF x \in view.running \/ (view.late # {} /\ x > late.xid) THEN joined[x]
            ELSE IF view.late # {} /\ x = late.xid THEN late.id ELSE NotPending
        pending == [x \in Xids |-> IF joined[x] = NotPending
                                   THEN NotPending ELSE After(x)]
    IN  IF view.pos = {} THEN [xid |-> c.xid, id |-> c.id, pending |-> pending]
        ELSE [xid |-> pos.xid, id |-> pos.id, pending |-> pending]

-----------------------------------------------------------------------------
(* One read: at most n entries, first late ones, then the next ones.       *)

FirstOf(S, n) == {e \in S : Cardinality({f \in S : Before(f, e)}) < n}
LastOf(S) == {e \in S : \A f \in S : ~Before(e, f)}

\* The sequence of the entries of S, as the only member of a set.
InXidOrder(S) ==
    {s \in [1..Cardinality(S) -> S] :
        /\ \A e \in S : \E i \in DOMAIN s : s[i] = e
        /\ \A i, j \in DOMAIN s : i < j => Before(s[i], s[j])}

Late(c, n) ==
    FirstOf({e \in Visible : c.pending[e.xid] # NotPending /\ e.id > c.pending[e.xid]}, n)
NextOnes(c, n) == FirstOf({e \in Visible : Before(c, e)}, n)

\* ReadView and the rows that match the types of the subscription.
ReadOf(c, n) ==
    LET late == Late(c, n)
        next == NextOnes(c, n - Cardinality(late))
    IN  [view |-> [pos |-> LastOf(next),
                   late |-> IF Cardinality(late) = n THEN LastOf(late) ELSE {},
                   running |-> Running],
         rows |-> {e \in late \cup next : e.wanted}]

\* The cursor after each row of an attempt; the last one covers the whole read.
CursorsOf(c, view, rows) ==
    LET after[i \in 0..Len(rows)] ==
            IF i = 0 THEN c ELSE advance(after[i - 1], view, rows[i])
    IN  [i \in 1..Len(rows) |->
            IF i = Len(rows) THEN advanceTo(after[i], view) ELSE after[i]]

-----------------------------------------------------------------------------
Fresh == [pc |-> "idle", cursor |-> NoCursor, isolate |-> 0, rows |-> <<>>,
          cursors |-> <<>>, done |-> 0, committed |-> NoCursor,
          failed |-> FALSE, lost |-> FALSE]

Init ==
    /\ tx = [x \in Xids |-> "new"]
    /\ entries = {} /\ deleted = {} /\ parked = {}
    /\ sub = [cursor |-> BEGINNING, token |-> NoReader, live |-> FALSE,
              headId |-> 0, headSize |-> 0, headAttempts |-> 0]
    /\ rd = [r \in Readers |-> Fresh]
    /\ mode \in Modes
    /\ seeded = NotSeeded
    /\ settled = {} /\ passed = {}
    /\ applied = [i \in Ids |-> 0]
    /\ alone = [i \in Ids |-> 0]
    /\ budget = MaxFaults

table == <<tx, entries, deleted>>
ghosts == <<settled, passed, applied, alone>>

-----------------------------------------------------------------------------
(* Transactions of publishers.                                             *)

\* A transaction gets its id at its first write.
Begin(x) ==
    /\ tx[x] = "new" /\ \A y \in 1..x - 1 : tx[y] # "new"
    /\ tx' = [tx EXCEPT ![x] = "running"]
    /\ UNCHANGED <<entries, deleted, sub, parked, rd, mode, seeded, ghosts, budget>>

Publish(x) ==
    LET id == Cardinality(entries) + 1
    IN  /\ tx[x] = "running" /\ id <= MaxEntries
        /\ entries' = entries \cup {[id |-> id, xid |-> x, wanted |-> id \notin Unwanted]}
        /\ UNCHANGED <<tx, deleted, sub, parked, rd, mode, seeded, ghosts, budget>>

End(x, how) ==
    /\ tx[x] = "running"
    /\ tx' = [tx EXCEPT ![x] = how]
    /\ UNCHANGED <<entries, deleted, sub, parked, rd, mode, seeded, ghosts, budget>>

-----------------------------------------------------------------------------
(* The lease.  A token names a reader: a reader that lost its lease ends   *)
(* its serve before it can lease again, so it never meets its own token.   *)

Mine(r) == sub.token = r

\* Mutant: a lease that ran out is not taken over.
LeaseFree(r) ==
    /\ rd[r].pc = "idle" /\ sub.token = NoReader
    /\ sub' = [sub EXCEPT !.token = r, !.live = TRUE]
    /\ rd' = [rd EXCEPT ![r].pc = "read", ![r].cursor = sub.cursor,
                        ![r].isolate = IF sub.headId = 0 THEN 0 ELSE sub.headSize]
    /\ UNCHANGED <<table, parked, mode, seeded, ghosts, budget>>

Lease(r) ==
    /\ rd[r].pc = "idle"
    /\ sub.token = NoReader \/ ~sub.live
    /\ sub' = [sub EXCEPT !.token = r, !.live = TRUE]
    /\ rd' = [rd EXCEPT ![r].pc = "read", ![r].cursor = sub.cursor,
                        ![r].isolate = IF sub.headId = 0 THEN 0 ELSE sub.headSize]
    /\ UNCHANGED <<table, parked, mode, seeded, ghosts, budget>>

\* A statement found another token: EventsLeaseLostError ends the serve.
GoesIdle(r) == rd' = [rd EXCEPT ![r] = Fresh]

Lost(r) ==
    /\ \/ rd[r].pc \in {"skip", "mark", "park", "stored"} /\ ~Mine(r)
       \/ rd[r].pc = "read" /\ rd[r].lost
    /\ GoesIdle(r)
    /\ UNCHANGED <<table, sub, parked, mode, seeded, ghosts, budget>>

Heartbeat(r) ==
    /\ rd[r].pc \notin {"idle", "release"}
    /\ \/ /\ Mine(r) /\ ~sub.live
          /\ sub' = [sub EXCEPT !.live = TRUE]
          /\ UNCHANGED rd
       \/ /\ ~Mine(r) /\ ~rd[r].lost
          /\ rd' = [rd EXCEPT ![r].lost = TRUE]
          /\ UNCHANGED sub
    /\ UNCHANGED <<table, parked, mode, seeded, ghosts, budget>>

Release(r) ==
    /\ rd[r].pc = "release"
    /\ sub' = IF Mine(r) THEN [sub EXCEPT !.token = NoReader, !.live = FALSE] ELSE sub
    /\ GoesIdle(r)
    /\ UNCHANGED <<table, parked, mode, seeded, ghosts, budget>>

-----------------------------------------------------------------------------
(* Serving.                                                                *)

\* The cursor of the subscription moves and the attempt marker is cleared.
SetCursor(c) == [sub EXCEPT !.cursor = c, !.headId = 0, !.headSize = 0, !.headAttempts = 0]

\* A read that found nothing to do only waits, and is no step.
Read(r) ==
    /\ rd[r].pc = "read" /\ ~rd[r].lost
    /\ \E got \in {ReadOf(rd[r].cursor, IF rd[r].isolate > 0 THEN 1 ELSE BatchSize)} :
           \/ \E c \in {advanceTo(rd[r].cursor, got.view)} :
                  /\ got.rows = {} /\ c # rd[r].cursor
                  /\ rd' = [rd EXCEPT ![r].pc = "skip", ![r].cursors = <<c>>]
           \/ \E rows \in InXidOrder(got.rows) :
                  /\ rows # <<>>
                  /\ rd' = [rd EXCEPT ![r].pc = "mark", ![r].rows = rows,
                                ![r].cursors = CursorsOf(rd[r].cursor, got.view, rows)]
    /\ UNCHANGED <<table, sub, parked, mode, seeded, ghosts, budget>>

\* Back to the top of the loop with a new cursor.
ToRead(r, c, isolate) ==
    rd' = [rd EXCEPT ![r] = [Fresh EXCEPT !.pc = "read", !.cursor = c,
                                          !.isolate = isolate, !.lost = rd[r].lost]]

Less(n, k) == IF n > k THEN n - k ELSE 0

\* Mutant: the cursor is moved without a look at the token.
SkipUnguarded(r) ==
    /\ rd[r].pc = "skip"
    /\ sub' = SetCursor(rd[r].cursors[1])
    /\ ToRead(r, rd[r].cursors[1], rd[r].isolate)
    /\ UNCHANGED <<table, parked, mode, seeded, ghosts, budget>>

\* Nothing matched: the cursor moves past what the types exclude.
Skip(r) ==
    /\ rd[r].pc = "skip" /\ Mine(r)
    /\ sub' = SetCursor(rd[r].cursors[1])
    /\ ToRead(r, rd[r].cursors[1], rd[r].isolate)
    /\ UNCHANGED <<table, parked, mode, seeded, ghosts, budget>>

\* Mutant: an attempt at a batch is charged to its first entry.
AttemptsOfBatch(first, size) ==
    IF sub.headId = first THEN sub.headAttempts + 1 ELSE 1

Attempts(first, size) ==
    IF size > 1 THEN 0
    ELSE IF sub.headId = first /\ sub.headSize = 1 THEN sub.headAttempts + 1 ELSE 1

Mark(r) ==
    LET rows == rd[r].rows
        first == rows[1].id
        attempts == Attempts(first, Len(rows))
    IN  /\ rd[r].pc = "mark" /\ Mine(r)
        /\ sub' = [sub EXCEPT !.headId = first, !.headSize = Len(rows),
                              !.headAttempts = attempts]
        /\ rd' = [rd EXCEPT ![r].pc = IF Len(rows) = 1 /\ attempts > MaxAttempts
                                      THEN "park" ELSE "handle"]
        /\ alone' = IF Len(rows) = 1 /\ alone[first] <= MaxAttempts
                    THEN [alone EXCEPT ![first] = @ + 1] ELSE alone
        /\ UNCHANGED <<table, parked, mode, seeded, settled, passed, applied, budget>>

Park(r) ==
    LET e == rd[r].rows[1]
    IN  /\ rd[r].pc = "park" /\ Mine(r)
        /\ sub' = SetCursor(rd[r].cursors[1])
        /\ parked' = parked \cup {e.id}
        /\ settled' = settled \cup {e.id}
        /\ ToRead(r, rd[r].cursors[1], Less(rd[r].isolate, 1))
        /\ UNCHANGED <<table, mode, seeded, passed, applied, alone, budget>>

\* The rows one call of the handler is about: the next one, or all of them.
Upto(r) == IF mode = "batch" THEN Len(rd[r].rows) ELSE rd[r].done + 1
Covers(r) == {rd[r].rows[i].id : i \in rd[r].done + 1..Upto(r)}
CallCursor(r) == rd[r].cursors[Upto(r)]

\* A handler runs unless a heartbeat found the lease lost before the call.
Calls(r) == rd[r].pc = "handle" /\ (mode = "batch" \/ ~rd[r].lost)

Returned(r, committed, lost) ==
    rd' = [rd EXCEPT ![r].done = Upto(r), ![r].committed = committed, ![r].lost = lost,
                     ![r].pc = IF Upto(r) = Len(rd[r].rows) THEN "settle" ELSE "handle"]
Threw(r, committed, lost) ==
    rd' = [rd EXCEPT ![r].failed = TRUE, ![r].committed = committed, ![r].lost = lost,
                     ![r].pc = IF committed = NoCursor THEN "settle" ELSE "stored"]

\* What `committed` holds after a call that did not commit: the call may have
\* used ctx.commit in a transaction that was rolled back.
Uncommitted(r) == {rd[r].committed} \cup (IF Mine(r) THEN {CallCursor(r)} ELSE {})

HandlerReturns(r) ==
    /\ Calls(r)
    /\ \E c \in Uncommitted(r) : Returned(r, c, rd[r].lost)
    /\ settled' = settled \cup Covers(r)
    /\ UNCHANGED <<table, sub, parked, mode, seeded, passed, applied, alone, budget>>

HandlerThrows(r) ==
    /\ Calls(r)
    /\ \E c \in Uncommitted(r) : Threw(r, c, rd[r].lost)
    /\ UNCHANGED <<table, sub, parked, mode, seeded, ghosts, budget>>

\* ctx.commit in a transaction that commits; the handler may still throw.
HandlerCommits(r) ==
    /\ Calls(r) /\ Mine(r)
    /\ sub' = SetCursor(CallCursor(r))
    /\ settled' = settled \cup Covers(r)
    /\ applied' = [i \in Ids |-> IF i \in Covers(r) THEN applied[i] + 1 ELSE applied[i]]
    /\ Returned(r, CallCursor(r), rd[r].lost) \/ Threw(r, CallCursor(r), rd[r].lost)
    /\ UNCHANGED <<table, parked, mode, seeded, passed, alone, budget>>

\* ctx.commit finds another token: the handler throws, or swallows the error.
HandlerRefused(r) ==
    /\ Calls(r) /\ ~Mine(r)
    /\ \/ Threw(r, rd[r].committed, TRUE) /\ UNCHANGED settled
       \/ /\ Returned(r, rd[r].committed, TRUE)
          /\ settled' = settled \cup Covers(r)
    /\ UNCHANGED <<table, sub, parked, mode, seeded, passed, applied, alone, budget>>

CutShort(r) ==
    /\ rd[r].pc = "handle" /\ ~Calls(r)
    /\ Threw(r, rd[r].committed, TRUE)
    /\ UNCHANGED <<table, sub, parked, mode, seeded, ghosts, budget>>

\* Mutant: what the handler committed is not looked up in the cursors.
StoredIgnored(r) ==
    /\ rd[r].pc = "stored" /\ Mine(r)
    /\ rd' = [rd EXCEPT ![r].pc = "settle", ![r].committed = sub.cursor]
    /\ UNCHANGED <<table, sub, parked, mode, seeded, ghosts, budget>>

\* After a failure the stored cursor says what the handler committed.
Stored(r) ==
    LET at == {i \in DOMAIN rd[r].cursors : rd[r].cursors[i] = sub.cursor}
    IN  /\ rd[r].pc = "stored" /\ Mine(r)
        /\ rd' = [rd EXCEPT ![r].pc = "settle", ![r].committed = sub.cursor,
                            ![r].done = Max(at \cup {@})]
        /\ UNCHANGED <<table, sub, parked, mode, seeded, ghosts, budget>>

\* The rest of an attempt: commit what is done, then decide what comes next.
Settle(r) ==
    LET me == rd[r]
        n == Len(me.rows)
        c == IF me.done = 0 THEN me.cursor ELSE me.cursors[me.done]
        commits == me.done > 0 /\ c # me.committed
        finished == ~me.failed \/ me.done = n
        nacks == ~finished /\ n = 1
    IN  /\ me.pc = "settle"
        /\ IF (commits \/ nacks) /\ ~Mine(r)
           THEN GoesIdle(r) /\ UNCHANGED sub
           ELSE /\ sub' = IF commits THEN SetCursor(c) ELSE sub
                /\ CASE finished -> ToRead(r, c, Less(me.isolate, me.done))
                     [] nacks /\ me.lost -> GoesIdle(r)
                     [] nacks -> ToRead(r, c, IF me.isolate > 1 THEN me.isolate ELSE 1)
                     [] OTHER -> ToRead(r, c, n - me.done)
        /\ UNCHANGED <<table, parked, mode, seeded, ghosts, budget>>

-----------------------------------------------------------------------------
(* Faults, administration and retention.                                   *)

Fault == budget > 0 /\ budget' = budget - 1

\* The process dies; one that restarts begins like a new reader.
Crash(r) ==
    /\ rd[r].pc # "idle" /\ Fault
    /\ GoesIdle(r)
    /\ UNCHANGED <<table, sub, parked, mode, seeded, ghosts>>

\* A statement fails, or close() ends the loop: the lease is released.
Leave(r) ==
    /\ rd[r].pc \in {"read", "skip", "mark", "park", "stored", "settle"} /\ Fault
    /\ IF rd[r].lost THEN GoesIdle(r) ELSE rd' = [rd EXCEPT ![r] = [Fresh EXCEPT !.pc = "release"]]
    /\ UNCHANGED <<table, sub, parked, mode, seeded, ghosts>>

Held == sub.token # NoReader /\ rd[sub.token].pc # "idle"

\* lease_until passes: nobody extends it, or its holder stalls.
Lapses ==
    /\ sub.token # NoReader /\ sub.live
    /\ sub' = [sub EXCEPT !.live = FALSE]
    /\ UNCHANGED <<table, parked, rd, mode, seeded, ghosts>>

LapseUnheld == ~Held /\ Lapses /\ UNCHANGED budget
LapseStalled == Held /\ Lapses /\ Fault

Reset(c, over) ==
    /\ sub' = [SetCursor(c) EXCEPT !.token = NoReader, !.live = FALSE]
    /\ settled' = {} /\ passed' = over
    /\ applied' = [i \in Ids |-> 0]
    /\ seeded' = NotSeeded
    /\ UNCHANGED <<table, parked, rd, mode, alone>>

ResetToBeginning ==
    /\ Resets /\ Fault
    /\ Reset(BEGINNING, deleted)

\* reset('now') reads a snapshot, then writes the cursor.
SeedNow ==
    /\ seeded = NotSeeded
    /\ Resets /\ Fault
    /\ seeded' = [cursor |-> seed, over |-> {e.id : e \in Visible}]
    /\ UNCHANGED <<table, sub, parked, rd, mode, ghosts>>

ResetToNow ==
    /\ seeded # NotSeeded /\ UNCHANGED budget
    /\ Reset(seeded.cursor, seeded.over \cup deleted)

Discard(i) ==
    /\ i \in parked
    /\ parked' = parked \ {i}
    /\ UNCHANGED <<table, sub, rd, mode, seeded, ghosts, budget>>

\* A reader between two rounds deletes what is older than keep_ms: entries up
\* to k.
Retain(k) ==
    LET old == {e \in Visible : e.id <= k /\ e.id \notin parked}
        unread == {e \in old : Before(sub.cursor, e) \/ sub.cursor.pending[e.xid] # NotPending}
        gone == IF KeepUntilConsumed THEN old \ unread ELSE old
    IN  /\ gone # {} /\ \E r \in Readers : rd[r].pc = "read"
        /\ deleted' = deleted \cup {e.id : e \in gone}
        /\ UNCHANGED <<tx, entries, sub, parked, rd, mode, seeded, ghosts, budget>>

-----------------------------------------------------------------------------
Publishers ==
    \E x \in Xids : \/ Begin(x)
                    \/ Publish(x)
                    \/ \E how \in {"committed", "aborted"} : End(x, how)

\* What the loop of a reader does next.
Serve(r) ==
    \/ Read(r) \/ Skip(r) \/ Mark(r) \/ Park(r) \/ Lost(r)
    \/ HandlerReturns(r) \/ HandlerThrows(r) \/ HandlerCommits(r)
    \/ HandlerRefused(r) \/ CutShort(r)
    \/ Stored(r) \/ Settle(r) \/ Release(r)

Admin ==
    \/ ResetToBeginning \/ SeedNow \/ ResetToNow
    \/ \E i \in Ids : Discard(i) \/ Retain(i)

Next ==
    \/ Publishers
    \/ \E r \in Readers : Lease(r) \/ Serve(r) \/ Heartbeat(r) \/ Crash(r) \/ Leave(r)
    \/ LapseUnheld \/ LapseStalled
    \/ Admin

\* Readers run, handlers return or throw, heartbeats tick and time passes.
Fairness ==
    /\ \A r \in Readers : WF_vars(Lease(r)) /\ WF_vars(Serve(r)) /\ WF_vars(Heartbeat(r))
    /\ WF_vars(LapseUnheld)

Spec == Init /\ [][Next]_vars
FairSpec == Spec /\ Fairness

-----------------------------------------------------------------------------
(* Properties.                                                             *)

\* No entry is skipped (concepts/event-cursor): whatever order transactions
\* commit in, whoever serves and whatever fails, an entry the subscription asks
\* for is still ahead of the stored cursor, or it was handled or parked, or an
\* administrator moved the cursor past it, or retention deleted it first, which
\* a topic that keeps entries until they are consumed excludes.  An entry that
\* is not committed yet is ahead of the cursor.
NothingSkipped ==
    \A e \in entries :
        /\ tx[e.xid] = "running" => Ahead(sub.cursor, e)
        /\ tx[e.xid] = "committed" /\ e.wanted /\ e.id \notin settled \cup passed
           => /\ e.id \notin deleted => Ahead(sub.cursor, e)
              /\ KeepUntilConsumed => e.id \notin deleted

\* ctx.commit acknowledges inside the transaction of the handler: however often
\* the entry is delivered, at most one such transaction commits per entry
\* between two resets.
ExactlyOnce == \A i \in Ids : applied[i] <= 1

\* A failing batch is charged to none of its entries: an entry is parked only
\* after MaxAttempts attempts at it alone, crashes and lost leases included.
ParkedAfterAttempts == \A i \in parked : alone[i] > MaxAttempts

\* The log implements the stream of EventStream: late transactions are not
\* missed, the subscription only moves forward, in order within a transaction
\* and past settled entries only, also when a reader that lost its lease
\* writes late; only a reset moves it back.
Stream == INSTANCE EventStream WITH
    Rewinds <- Resets,
    Keeps <- KeepUntilConsumed,
    Entries <- Entry,
    log <- Visible,
    consumed <- {e \in Visible : ~Ahead(sub.cursor, e)},
    settled <- {e \in entries : e.id \in settled \cup passed}
ImplementsStream == Stream!StreamSpec

\* Again and again, every committed entry the subscription asks for is handled
\* or parked, although other transactions may stay open for ever and a reset to
\* the beginning may have brought settled entries back.
EventuallySettled ==
    []<>(\A e \in Visible : e.wanted => e.id \in settled \cup passed \cup deleted)
=============================================================================
