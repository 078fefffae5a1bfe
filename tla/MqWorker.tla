------------------------------ MODULE MqWorker ------------------------------
(***************************************************************************)
(* Worker processes of @pg-prime/mq on the tables of MqMessages: the claim *)
(* loop, handlers, settles over connections that fail, heartbeats, the     *)
(* lease-expiry scan, shutdown and crashes (packages/pg-prime-mq/src/queue *)
(* worker.ts and settle.ts).                                               *)
(*                                                                         *)
(* A run is one call of runOne: the handling of one claim.  Every await in *)
(* it is a point where other steps happen, so a statement that is sent,    *)
(* the server executing it and its answer are separate steps.  A statement *)
(* whose connection failed may still be executed later.                    *)
(***************************************************************************)
EXTENDS MqMessages

CONSTANTS
    Worker,         \* worker processes, one startWorker each
    Concurrency,    \* WorkerOptions.concurrency
    MaxAttempts,    \* retry.maxAttempts
    Deferring,      \* the deferrals handlers return: of "defer", "limit", "wait"
    Transactional,  \* do handlers use ctx.complete({ tx })?
    Graceful,       \* is close() called with a graceMs?
    MaxDefers,      \* bound: deferrals returned in all
    MaxFaults,      \* bound: connection errors, lost answers and crashes in all
    MaxAdmin,       \* bound: cancels and retries in all
    MaxStalls,      \* bound: leases that lapse although their holder beats
    MaxAll          \* bound: deferrals, faults, admin calls and stalls together

ASSUME WorkerAssumption ==
    /\ Concurrency \in Nat \ {0} /\ MaxAttempts \in Nat \ {0}
    /\ Deferring \subseteq {"defer", "limit", "wait"}
    /\ Transactional \in BOOLEAN /\ Graceful \in BOOLEAN
    /\ {MaxDefers, MaxFaults, MaxAdmin, MaxStalls, MaxAll} \subseteq Nat

VARIABLES
    process,    \* process[w]: "up", "closing", "grace", "closed" or "down"
    runs,       \* the calls of runOne that have not returned, and granted rows
    held,       \* held[w][m]: token of the Entry under key m, or NoToken
    wire,       \* statements that may still execute although nobody waits
    scan,       \* scan[w]: ids an expiry scan returned as exhausted
    beats,      \* beats[w]: answers of the heartbeat being processed
    spent       \* spent[b]: how much of each bound is used

local == <<process, runs, held, wire, scan, beats, spent>>
wvars == <<vars, local>>

Moves    == {"retry", "defer", "release", "limit", "wait"}
Finals   == {"complete", "fail", "cancel"}
Stmt     == Moves \cup Finals \cup {"flagged"}
Outcome  == [complete |-> "completed", fail |-> "failed", cancel |-> "cancelled"]

\* What the worker keeps of one claimed message.
Run == [msg : Msg, tok : Nat \ {0}, on : Worker, attempts : Nat,
        phase : {"granted", "running", "tx", "sent", "yes", "no", "asleep",
                 "recheck", "after"},
        plan : Stmt \cup {"none"}, stmt : Stmt \cup {"none"},
        tries : 0..2, safe : BOOLEAN, caught : BOOLEAN, final : BOOLEAN,
        cancelled : BOOLEAN, lost : BOOLEAN, shutdown : BOOLEAN, inTx : BOOLEAN,
        tx : BOOLEAN]

Granted(m, w) ==
    [msg |-> m, tok |-> serial[m] + 1, on |-> w, attempts |-> messages[m].attempts,
     phase |-> "granted", plan |-> "none", stmt |-> "none", tries |-> 0,
     safe |-> TRUE, caught |-> FALSE, final |-> FALSE,
     cancelled |-> FALSE, lost |-> FALSE, shutdown |-> FALSE, inTx |-> FALSE,
     tx |-> FALSE]

WorkerInit ==
    /\ Init
    /\ process = [w \in Worker |-> "up"]
    /\ runs = {}
    /\ held = [w \in Worker |-> [m \in Msg |-> NoToken]]
    /\ wire = {}
    /\ scan = [w \in Worker |-> {}]
    /\ beats = [w \in Worker |-> {}]
    /\ spent = [b \in {"defers", "faults", "admin", "stalls"} |-> 0]

-----------------------------------------------------------------------------
Ours(r)      == Holds(r.msg, r.tok)       \* holder(): still active, our token
Entries(w)   == {m \in Msg : held[w][m] # NoToken}
IsEntry(r)   == held[r.on][r.msg] = r.tok

\* An open transaction that completed its message keeps the row locked, and
\* the row of the parent it reported to.
Locked(m)    == \E r \in runs : /\ r.tx
                               /\ \/ r.msg = m
                                  \/ parentOf[r.msg] = m /\ deps[r.msg] = "pending"

Spend(b, max) ==
    /\ spent[b] < max
    /\ spent["defers"] + spent["faults"] + spent["admin"] + spent["stalls"] < MaxAll
    /\ spent' = [spent EXCEPT ![b] = @ + 1]

Becomes(r, s) == runs' = (runs \ {r}) \cup {s}

\* runOne returned: finally deletes whatever entry the map has under the id.
Ends(r) ==
    /\ runs' = runs \ {r}
    /\ held' = [held EXCEPT ![r.on][r.msg] = NoToken]

-----------------------------------------------------------------------------
(* Statements.                                                              *)

\* The conditions of finishSql and moveSql on the row.
Matches(m, tok, st) ==
    /\ Holds(m, tok)
    /\ st \in Moves => ~messages[m].cancel
    /\ st = "flagged" => messages[m].cancel
    /\ st = "wait" => messages[m].pending > 0 /\ ~messages[m].childFailed

Effect(m, tok, st) ==
    \/ st \in Finals /\ FinishByToken(m, tok, Outcome[st])
    \/ st = "flagged" /\ FinishFlagged(m, tok)
    \/ st = "retry" /\ \E to \in {"ready", "delayed"} : MoveRetry(m, tok, to)
    \/ st = "defer" /\ MoveDefer(m, tok)
    \/ st = "release" /\ MoveRelease(m, tok)
    \/ st = "limit" /\ MoveLimit(m, tok)
    \/ st = "wait" /\ MoveWait(m, tok)

\* A settle begins with the statement it is named for; inside settleSafely it
\* is safe.
Sends(r, plan, safe) ==
    [r EXCEPT !.phase = "sent", !.stmt = plan, !.plan = plan, !.safe = safe]

\* The server executes the statement a run waits for.
Answer(r) ==
    /\ r.phase = "sent" /\ ~Locked(r.msg)
    /\ \/ /\ Effect(r.msg, r.tok, r.stmt)
          /\ Becomes(r, [r EXCEPT !.phase = "yes"])
       \/ /\ ~Matches(r.msg, r.tok, r.stmt)
          /\ Becomes(r, [r EXCEPT !.phase = "no"])
          /\ UNCHANGED vars
    /\ UNCHANGED <<process, held, wire, scan, beats, spent>>

\* It executes one nobody waits for any more.
LateAnswer(x) ==
    /\ ~Locked(x.msg)
    /\ wire' = wire \ {x}
    /\ \/ Effect(x.msg, x.tok, x.stmt)
       \/ ~Matches(x.msg, x.tok, x.stmt) /\ UNCHANGED vars
    /\ UNCHANGED <<process, runs, held, scan, beats, spent>>

NeverArrives(x) ==
    /\ wire' = wire \ {x}
    /\ UNCHANGED <<vars, process, runs, held, scan, beats, spent>>

-----------------------------------------------------------------------------
(* runOne.                                                                  *)

\* failMessage: what a failed attempt is settled with.  shouldRetry and
\* NonRetryableError may make any attempt the last.
FailPlan(r, final, cancelled) ==
    IF cancelled THEN "cancel"
    ELSE IF final \/ r.attempts + 1 >= MaxAttempts THEN "fail" ELSE "retry"

\* The closure settleSafely calls, and calls again: in the catch block it
\* looks at the flags of the entry each time.
CatchPlan(r) == IF r.shutdown /\ ~r.cancelled THEN "release"
                ELSE FailPlan(r, r.final, r.cancelled)
PlanOf(r)    == IF r.caught THEN CatchPlan(r) ELSE r.plan

\* The catch block: whatever the handler or the settle of its result threw.
Caught(r) ==
    IF r.inTx
    THEN /\ Becomes(r, [r EXCEPT !.phase = "after", !.safe = FALSE, !.caught = TRUE])
         /\ UNCHANGED held
    ELSE IF r.lost THEN Ends(r)
    ELSE \E final \in BOOLEAN :
         LET c == [r EXCEPT !.caught = TRUE, !.tries = 0,
                            !.final = final \/ r.attempts + 1 >= MaxAttempts]
         IN Becomes(r, Sends(c, CatchPlan(c), TRUE)) /\ UNCHANGED held

\* A statement or a read raised.  settleSafely sleeps and tries again, three
\* times in all; what it throws goes to the catch block or ends the run.
Raised(r) ==
    IF r.safe /\ r.tries < 2
    THEN /\ Becomes(r, [r EXCEPT !.phase = "asleep", !.tries = @ + 1])
         /\ UNCHANGED held
    ELSE IF r.caught THEN Ends(r) ELSE Caught(r)

ConnectionFails(r) ==
    /\ r.phase \in {"sent", "yes", "no", "recheck", "after"}
    /\ Spend("faults", MaxFaults)
    /\ Raised(r)
    /\ wire' = wire \cup (IF r.phase = "sent"
                          THEN {[msg |-> r.msg, tok |-> r.tok, stmt |-> r.stmt]} ELSE {})
    /\ UNCHANGED <<vars, process, scan, beats>>

\* After the sleep: still ours, or unknown, issue it again; else stop.
Again(r) == Becomes(r, Sends(r, PlanOf(r), TRUE)) /\ UNCHANGED held

Reread(r) ==
    /\ r.phase = "asleep"
    /\ IF Ours(r) THEN Again(r) ELSE Ends(r)
    /\ UNCHANGED <<vars, process, wire, scan, beats, spent>>

RereadFails(r) ==
    /\ r.phase = "asleep" /\ Spend("faults", MaxFaults) /\ Again(r)
    /\ UNCHANGED <<vars, process, wire, scan, beats>>

\* Mutant: a move refused by the flag of cancel() ends the run.
HearsRefusal(r) ==
    /\ r.phase \in {"yes", "no"}
    /\ Ends(r)
    /\ UNCHANGED <<vars, process, wire, scan, beats, spent>>

\* The answer arrives.  A refused move asks whether cancel() flagged the
\* message; a wait refused for another reason looks at the row.
Hears(r) ==
    /\ r.phase \in {"yes", "no"}
    /\ IF r.phase = "no" /\ r.stmt \in Moves
       THEN /\ Becomes(r, [r EXCEPT !.phase = "sent", !.stmt = "flagged"])
            /\ UNCHANGED held
       ELSE IF r.phase = "no" /\ r.stmt = "flagged" /\ r.plan = "wait"
       THEN /\ Becomes(r, [r EXCEPT !.phase = "recheck", !.safe = FALSE])
            /\ UNCHANGED held
       ELSE Ends(r)
    /\ UNCHANGED <<vars, process, wire, scan, beats, spent>>

Recheck(r) ==
    /\ r.phase = "recheck"
    /\ IF Ours(r)
       THEN /\ Becomes(r, Sends(r, IF messages[r.msg].childFailed THEN "fail"
                                   ELSE "release", FALSE))
            /\ UNCHANGED held
       ELSE Ends(r)
    /\ UNCHANGED <<vars, process, wire, scan, beats, spent>>

\* The handler returns its result, or a deferral; it throws.
Returns(r) ==
    /\ r.phase = "running"
    /\ Becomes(r, IF r.inTx THEN [r EXCEPT !.phase = "after", !.safe = FALSE]
                  ELSE Sends(r, "complete", TRUE))
    /\ UNCHANGED <<vars, process, held, wire, scan, beats, spent>>

Defers(r) ==
    /\ r.phase = "running" /\ ~r.inTx
    /\ Spend("defers", MaxDefers)
    /\ \E d \in Deferring : Becomes(r, Sends(r, d, TRUE))
    /\ UNCHANGED <<vars, process, held, wire, scan, beats>>

Throws(r) ==
    /\ r.phase = "running"
    /\ Caught(r)
    /\ UNCHANGED <<vars, process, wire, scan, beats, spent>>

\* ctx.spawn while the handler runs.
Spawns(r) ==
    /\ r.phase = "running" /\ ~r.inTx
    /\ \E c \in Children(r.msg) : Spawn(c, r.tok, "ready")
    /\ UNCHANGED local

\* ctx.complete({ tx }): the completion waits in the handler's transaction,
\* which commits or rolls back; a refused one throws and rolls it back.
TxComplete(r) ==
    /\ Transactional /\ r.phase = "running" /\ ~r.inTx /\ ~Locked(r.msg)
    /\ Becomes(r, IF Ours(r) THEN [r EXCEPT !.inTx = TRUE, !.phase = "tx", !.tx = TRUE]
                  ELSE [r EXCEPT !.inTx = TRUE])
    /\ UNCHANGED <<vars, process, held, wire, scan, beats, spent>>

Commit(r) ==
    /\ r.phase = "tx"
    /\ FinishByToken(r.msg, r.tok, "completed")
    /\ Becomes(r, [r EXCEPT !.phase = "running", !.tx = FALSE])
    /\ UNCHANGED <<process, held, wire, scan, beats, spent>>

Rollback(r) ==
    /\ r.phase = "tx"
    /\ Becomes(r, [r EXCEPT !.phase = "running", !.tx = FALSE])
    /\ UNCHANGED <<vars, process, held, wire, scan, beats, spent>>

\* afterTx: still ours means that it rolled back, so the attempt failed.
AfterTx(r) ==
    /\ r.phase = "after"
    /\ IF Ours(r)
       THEN /\ \E final \in BOOLEAN : Becomes(r, Sends(r, FailPlan(r, final, FALSE), FALSE))
            /\ UNCHANGED held
       ELSE Ends(r)
    /\ UNCHANGED <<vars, process, wire, scan, beats, spent>>

Progress(r) ==
    \/ Answer(r) \/ Hears(r) \/ Reread(r) \/ Recheck(r) \/ AfterTx(r)
    \/ Returns(r) \/ Throws(r) \/ Commit(r) \/ Rollback(r)

RunOne(r) ==
    \/ Progress(r) \/ Defers(r) \/ Spawns(r) \/ TxComplete(r)
    \/ ConnectionFails(r) \/ RereadFails(r)

-----------------------------------------------------------------------------
(* The loop of a worker.                                                    *)

Running(w) == process[w] \in {"up", "closing", "grace"}
On(w)      == {r \in runs : r.on = w}
Busy(w)    == scan[w] # {} \/ \E r \in On(w) : r.phase = "granted"

\* A claim for the free slots.  The rows are ours when the server commits it.
ClaimRound(w, S) ==
    /\ process[w] = "up" /\ ~Busy(w)
    /\ Cardinality(S) <= Concurrency - Cardinality(Entries(w))
    /\ \E q \in Queue, limited \in Limited, spentRate \in BOOLEAN :
          Claim(q, S, limited, spentRate) \/ ClaimGroups(q, S, limited, spentRate)
    /\ runs' = runs \cup {Granted(m, w) : m \in S}
    /\ UNCHANGED <<process, held, wire, scan, beats, spent>>

\* Mutant: a worker that is closing does not start what it claimed.
StartWhileUp(w) ==
    LET G == {r \in On(w) : r.phase = "granted"}
    IN /\ G # {} /\ process[w] = "up"
       /\ runs' = (runs \ G) \cup {[r EXCEPT !.phase = "running"] : r \in G}
       /\ held' = [held EXCEPT ![w] = [m \in Msg |->
             IF \E r \in G : r.msg = m THEN (CHOOSE r \in G : r.msg = m).tok ELSE @[m]]]
       /\ UNCHANGED <<vars, process, wire, scan, beats, spent>>

\* start(row) of each claimed row: its entry takes the place of any other
\* entry under the same id.
Start(w) ==
    LET G == {r \in On(w) : r.phase = "granted"}
    IN /\ G # {}
       /\ runs' = (runs \ G) \cup {[r EXCEPT !.phase = "running"] : r \in G}
       /\ held' = [held EXCEPT ![w] = [m \in Msg |->
             IF \E r \in G : r.msg = m THEN (CHOOSE r \in G : r.msg = m).tok ELSE @[m]]]
       /\ UNCHANGED <<vars, process, wire, scan, beats, spent>>

\* The claim committed and its answer was lost: nobody handles the rows.
ClaimLost(w) ==
    LET G == {r \in On(w) : r.phase = "granted"}
    IN /\ G # {} /\ Spend("faults", MaxFaults)
       /\ runs' = runs \ G
       /\ UNCHANGED <<vars, process, held, wire, scan, beats>>

PromoteDue(S) ==
    /\ \E w \in Worker : process[w] = "up"
    /\ Promote(S)
    /\ UNCHANGED local

\* recoverExpired: one statement re-queues the expired leases with attempts
\* left and returns the exhausted ones, which are finished one by one.
Expired == {m \in Active : messages[m].lapsed /\ ~Locked(m)}

Exhausted == {m \in Expired : messages[m].attempts + 1 >= MaxAttempts}

\* Mutant: forgets the exhausted messages of the scan.
ScanForgets(w) ==
    /\ process[w] = "up" /\ ~Busy(w) /\ Expired # {}
    /\ \/ \E q \in Queue : Expire(q, Expired \ Exhausted)
       \/ Expired = Exhausted /\ UNCHANGED vars
    /\ scan' = [scan EXCEPT ![w] = {}]
    /\ UNCHANGED <<process, runs, held, wire, beats, spent>>

Scan(w) ==
    /\ process[w] = "up" /\ ~Busy(w) /\ Expired # {}
    /\ \/ \E q \in Queue : Expire(q, Expired \ Exhausted)
       \/ Expired = Exhausted /\ UNCHANGED vars
    /\ scan' = [scan EXCEPT ![w] = Exhausted]
    /\ UNCHANGED <<process, runs, held, wire, beats, spent>>

FinishScanned(w, m) ==
    /\ m \in scan[w] /\ ~Locked(m)
    /\ \/ FinishExpired(m)
       \/ ~(Is(m, "active") /\ messages[m].lapsed) /\ UNCHANGED vars
    /\ scan' = [scan EXCEPT ![w] = @ \ {m}]
    /\ UNCHANGED <<process, runs, held, wire, beats, spent>>

-----------------------------------------------------------------------------
(* Heartbeats.                                                              *)

Beating(r) == IsEntry(r) /\ r.phase # "granted" /\ ~r.inTx /\ ~r.lost

\* The statement extends the leases of the live entries; a row some other
\* statement has locked is skipped.  What it answers is processed later.
Beat(w, skipped) ==
    LET L == {r \in On(w) : Beating(r)}
        X == {r \in L \ skipped : Ours(r) /\ ~Locked(r.msg)}
    IN /\ Running(w) /\ beats[w] = {} /\ L # {} /\ skipped \subseteq L
       /\ IF X = {} THEN UNCHANGED vars
          ELSE Extend({<<r.msg, r.tok>> : r \in X})
       /\ beats' = [beats EXCEPT ![w] =
             {[msg |-> r.msg, tok |-> r.tok, cancel |-> TRUE] :
                 r \in {x \in X : messages[x.msg].cancel /\ ~x.cancelled}}
             \cup {[msg |-> r.msg, tok |-> r.tok, cancel |-> FALSE] : r \in L \ X}]
       /\ UNCHANGED <<process, runs, held, wire, scan, spent>>

\* Mutant: a row the heartbeat missed is a lost lease.
BeatenSkipped(w, b) ==
    /\ b \in beats[w]
    /\ beats' = [beats EXCEPT ![w] = @ \ {b}]
    /\ runs' = {IF r.on = w /\ r.msg = b.msg /\ r.tok = b.tok
                THEN [r EXCEPT !.cancelled = @ \/ b.cancel, !.lost = @ \/ ~b.cancel]
                ELSE r : r \in runs}
    /\ UNCHANGED <<vars, process, held, wire, scan, spent>>

\* cancel() aborts the run; a row the heartbeat missed is read again, and a
\* run that no longer holds its message is told so.
Beaten(w, b) ==
    /\ b \in beats[w]
    /\ beats' = [beats EXCEPT ![w] = @ \ {b}]
    /\ runs' = {IF r.on = w /\ r.msg = b.msg /\ r.tok = b.tok
                THEN [r EXCEPT !.cancelled = @ \/ b.cancel,
                               !.lost = @ \/ (~b.cancel /\ ~Ours(r))]
                ELSE r : r \in runs}
    /\ UNCHANGED <<vars, process, held, wire, scan, spent>>

-----------------------------------------------------------------------------
(* Starting and stopping.                                                   *)

Close(w) ==
    /\ process[w] = "up" /\ Spend("admin", MaxAdmin)
    /\ process' = [process EXCEPT ![w] = "closing"]
    /\ UNCHANGED <<vars, runs, held, wire, scan, beats>>

\* graceMs passed: the handlers in the map are aborted.
Grace(w) ==
    /\ Graceful /\ process[w] = "closing" /\ ~Busy(w)
    /\ process' = [process EXCEPT ![w] = "grace"]
    /\ runs' = {IF r.on = w /\ IsEntry(r) THEN [r EXCEPT !.shutdown = TRUE] ELSE r : r \in runs}
    /\ UNCHANGED <<vars, held, wire, scan, beats, spent>>

Closed(w) ==
    /\ process[w] \in {"closing", "grace"} /\ ~Busy(w)
    /\ process[w] = "closing" => On(w) = {}
    /\ process' = [process EXCEPT ![w] = "closed"]
    /\ UNCHANGED <<vars, runs, held, wire, scan, beats, spent>>

\* The process dies; statements on their way may still be executed.
Crash(w) ==
    /\ process[w] # "down" /\ Spend("faults", MaxFaults)
    /\ process' = [process EXCEPT ![w] = "down"]
    /\ runs' = runs \ On(w)
    /\ held' = [held EXCEPT ![w] = [m \in Msg |-> NoToken]]
    /\ wire' = wire \cup {[msg |-> r.msg, tok |-> r.tok, stmt |-> r.stmt] :
                             r \in {x \in On(w) : x.phase = "sent"}}
    /\ scan' = [scan EXCEPT ![w] = {}]
    /\ beats' = [beats EXCEPT ![w] = {}]
    /\ UNCHANGED vars

Restart(w) ==
    /\ process[w] = "down" \/ (process[w] = "closed" /\ On(w) = {})
    /\ process' = [process EXCEPT ![w] = "up"]
    /\ UNCHANGED <<vars, runs, held, wire, scan, beats, spent>>

-----------------------------------------------------------------------------
(* Clients and the clock.                                                   *)

Enqueue(m) == Send(m, {}) /\ UNCHANGED local

Administer(m) ==
    /\ Spend("admin", MaxAdmin) /\ ~Locked(m)
    /\ FlagCancel(m) \/ CancelIdle(m) \/ Retry({m})
    /\ UNCHANGED <<process, runs, held, wire, scan, beats>>

\* A lease lapses when nobody beats for it, or when its holder stalls.
BeatenFor(m) == \E r \in runs : /\ r.msg = m /\ Ours(r) /\ Beating(r)
                                /\ Running(r.on)

LapseUnbeaten(m) == ~BeatenFor(m) /\ Lapse(m) /\ UNCHANGED local

LapseStalled(m) ==
    /\ BeatenFor(m) /\ Spend("stalls", MaxStalls) /\ Lapse(m)
    /\ UNCHANGED <<process, runs, held, wire, scan, beats>>

LimitPasses(q) == LimitEnds(q) /\ UNCHANGED local

WorkerNext ==
    \/ \E r \in runs : RunOne(r)
    \/ \E x \in wire : LateAnswer(x) \/ NeverArrives(x)
    \/ \E w \in Worker, S \in SUBSET Msg : ClaimRound(w, S)
    \/ \E w \in Worker : Start(w) \/ ClaimLost(w) \/ Scan(w)
    \/ \E S \in SUBSET Msg : PromoteDue(S)
    \/ \E w \in Worker, m \in Msg : FinishScanned(w, m)
    \/ \E w \in Worker, K \in SUBSET runs : Beat(w, K)
    \/ \E w \in Worker : \E b \in beats[w] : Beaten(w, b)
    \/ \E w \in Worker : Close(w) \/ Grace(w) \/ Closed(w) \/ Crash(w) \/ Restart(w)
    \/ \E m \in Msg : Enqueue(m) \/ Administer(m) \/ LapseUnbeaten(m) \/ LapseStalled(m)
    \/ \E q \in Queue : LimitPasses(q)

WorkerSpec == WorkerInit /\ [][WorkerNext]_wvars

\* Handlers end and statements are answered (or their connection fails); time
\* passes; a loop that keeps running promotes, scans, finishes what it scanned
\* and starts what it claimed.  Strong fairness of claims: a message reaches
\* the head of the queue (order_key) and slots keep coming free.  A supervisor
\* restarts a process.
Fairness ==
    /\ \A m \in Msg, k \in 1..MaxClaims :
          WF_wvars(\E r \in runs : r.msg = m /\ r.tok = k /\ Progress(r))
    /\ \A m \in Msg :
          /\ SF_wvars(\E w \in Worker, S \in SUBSET Msg : m \in S /\ ClaimRound(w, S))
          /\ WF_wvars(PromoteDue({m}))
          /\ WF_wvars(LapseUnbeaten(m))
    /\ \A w \in Worker :
          /\ WF_wvars(Start(w)) /\ SF_wvars(Scan(w))
          /\ WF_wvars(\E m \in Msg : FinishScanned(w, m))
          /\ WF_wvars(Closed(w)) /\ WF_wvars(Restart(w))
    /\ \A q \in Queue : WF_wvars(LimitPasses(q))

FairSpec == WorkerSpec /\ Fairness
-----------------------------------------------------------------------------
(* Properties.                                                              *)

\* A run is told that it lost its lease only when it really has, for good: a
\* heartbeat that skipped a locked row does not count (worker.ts, holder()).
LostIsFinal == \A r \in runs : r.lost => ~Ours(r)

\* Without faults no message stays active with nobody handling it: a run ends
\* only when its message has left active, whatever a cancel, an expiry or a
\* resolving child did between its statements.
ActiveHasRun ==
    spent["faults"] = 0 =>
        \A m \in Active : \E r \in runs : r.msg = m /\ Ours(r)

\* While a lease runs, only a statement with its token takes the message out
\* of active: no older run, late statement or stale list of expired leases
\* does.
LeaseProtects ==
    [][\A m \in Active :
          ~messages[m].lapsed /\ messages'[m].state # "active"
          => \/ \E r \in runs : r.msg = m /\ Ours(r) /\ r.phase \in {"sent", "tx"}
             \/ \E x \in wire \ wire' : x.msg = m /\ Holds(m, x.tok)]_wvars

\* Every message is finished in the end: crashes, lost answers, deferrals and
\* lapsed leases delay it, and none strands it.
EventuallySettled ==
    \A m \in Msg : Exists(m) ~> messages[m].state \in Terminal \cup {"gone"}

\* close() ends.
CloseEnds == \A w \in Worker : process[w] = "closing" ~> process[w] \in {"closed", "down"}
=============================================================================
