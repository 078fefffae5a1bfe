---------------------------- MODULE CronSchedule ----------------------------
(***************************************************************************)
(* pg-prime-cron: one schedule with a handler, the instances that run it,  *)
(* and operators.  Every instance reads the due row without a lock, plans  *)
(* the claim in memory, and claims with one compare-and-set on next_at.    *)
(* The claimed handler runs under a lease; maintenance finishes the runs   *)
(* whose lease ran out.                                                    *)
(*                                                                         *)
(* A statement or a transaction that holds the row lock is one step.  The  *)
(* token of a run is given out once and cleared when the run ends, so      *)
(* holding it is the same as the run being open.  Ticks are those of       *)
(* everyMs with startAt 0: the multiples of the period `every`, as those   *)
(* of a pattern they do not depend on when the definition was written.     *)
(***************************************************************************)
EXTENDS Integers, FiniteSets

CONSTANTS
    Instances,    \* processes that call pgCron
    Defs,         \* definitions a deploy or update() may write
    GraceMs,      \* misfire_grace_ms
    MaxTime,      \* bound: the database clock
    MaxRuns,      \* bound: rows of runs
    MaxLag,       \* bound: age of the clock an upsert computes next_at from
    MaxFaults,    \* bound: crashes, lost answers, stalled leases
    MaxAdmin      \* bound: calls of operators

\* max_runs null and end_at null: larger than any count and any tick.
NoLimit == MaxRuns + 1
Never == 2 * MaxTime + 1
Definition == [every : 1..MaxTime, limit : 1..NoLimit, end : 0..Never,
               overlap : {"skip", "allow"}, misfire : {"skip", "once"}]

ASSUME CronAssumption ==
    /\ Defs \subseteq Definition /\ Defs # {} /\ GraceMs \in Nat /\ MaxTime \in Nat \ {0}
    /\ MaxRuns \in Nat /\ MaxLag \in Nat /\ MaxFaults \in Nat /\ MaxAdmin \in Nat

VARIABLES
    now,      \* the clock of the database
    s,        \* the row of the schedule
    run,      \* rows of runs, by id
    inst,     \* per instance: whether it is up, and the row its loop read
    hand,     \* per instance: its handlers with the reason of their abort
    budget    \* faults and administrative calls left

vars == <<now, s, run, inst, hand, budget>>

Ids == 1..MaxRuns
\* next_at null: disabled or ended.
Null == Never + 1
Max2(a, b) == IF a > b THEN a ELSE b

Fault == budget.faults > 0 /\ budget' = [budget EXCEPT !.faults = @ - 1]
Operator == budget.admin > 0 /\ budget' = [budget EXCEPT !.admin = @ - 1]

-----------------------------------------------------------------------------
(* Ticks.                                                                  *)

\* The first tick strictly after t, if it is not after the end.
nextTick(def, t) ==
    LET x == (t \div def.every + 1) * def.every
    IN  IF x > def.end THEN Null ELSE x

\* The last tick at or before t.
lastTick(def, t) == (t \div def.every) * def.every

\* Mutant: after a misfire the next tick is the one after the first missed.
planFromFirst(row) ==
    LET fire == Max2(lastTick(row.def, row.dbNow), row.next)
        ticks == {x \in row.next..fire : x % row.def.every = 0}
        late == row.dbNow - row.next > GraceMs
    IN  [fire |-> IF late THEN fire ELSE row.next, decided |-> "run",
         missed |-> IF late THEN Cardinality(ticks) - 1 ELSE 0,
         next |-> nextTick(row.def, row.next)]

\* What tick computes from the row that due read.
plan(row) ==
    LET def == row.def
        h == IF def.end < row.dbNow THEN def.end ELSE row.dbNow
        ended == def.limit # NoLimit /\ row.runs + 1 >= def.limit
        last == lastTick(def, h)
        fire == Max2(last, row.next)
        ticks == {x \in row.next..fire : x % def.every = 0}
    IN  IF row.dbNow - row.next <= GraceMs
        THEN [fire |-> row.next, decided |-> "run", missed |-> 0,
              next |-> IF ended THEN Null ELSE nextTick(def, row.next)]
        ELSE [fire |-> fire, decided |-> IF def.misfire = "skip" THEN "missed" ELSE "run",
              missed |-> Cardinality(ticks) - 1,
              next |-> IF ended THEN Null ELSE nextTick(def, row.dbNow)]

-----------------------------------------------------------------------------
NoRow == [next |-> Null]
NoRun == [state |-> "none", tick |-> 0, manual |-> FALSE, missed |-> 0, live |-> FALSE]

\* A run that holds a slot of its schedule.
OpenStates == {"pending", "running", "cancelling"}
Open == {id \in Ids : run[id].state \in OpenStates}
Leased == {id \in Ids : run[id].state \in {"running", "cancelling"}}
Unused == {id \in Ids : run[id].state = "none"}
Handlers(i) == {id \in Ids : hand[i][id] # "none"}

\* The first declaration was written, at time 0.
Init ==
    /\ now = 0
    /\ \E def \in Defs :
           s = [def |-> def, next |-> nextTick(def, 0), runs |-> 0, running |-> 0,
                enabled |-> TRUE, paused |-> FALSE]
    /\ run = [id \in Ids |-> NoRun]
    /\ inst = [i \in Instances |-> [pc |-> "down", row |-> NoRow]]
    /\ hand = [i \in Instances |-> [id \in Ids |-> "none"]]
    /\ budget = [faults |-> MaxFaults, admin |-> MaxAdmin]

\* The run gets a row under an id never used before.
NewId == CHOOSE id \in Unused : TRUE
NewRun(row) == run' = [run EXCEPT ![NewId] = row]

-----------------------------------------------------------------------------
(* The loop of an instance.                                                *)

due(i) ==
    /\ inst[i].pc = "up" /\ inst[i].row = NoRow
    /\ s.enabled /\ ~s.paused /\ s.next <= now
    /\ inst' = [inst EXCEPT ![i].row = [next |-> s.next, def |-> s.def, runs |-> s.runs,
                                        dbNow |-> now]]
    /\ UNCHANGED <<now, s, run, hand, budget>>

\* The compare-and-set: the row still has the next_at that was planned for.
Matches(row) == s.next = row.next /\ s.enabled /\ ~s.paused

\* A tick is claimed once: the index runs_tick has it already.
Claimed(tick) == \E id \in Ids : run[id].state # "none" /\ ~run[id].manual /\ run[id].tick = tick

ClaimRefused(i) ==
    /\ inst[i].row # NoRow /\ ~Matches(inst[i].row)
    /\ inst' = [inst EXCEPT ![i].row = NoRow]
    /\ UNCHANGED <<now, s, run, hand, budget>>

\* The claim moves next_at; it inserts the run unless the tick has one.  An
\* answer that is lost leaves a running run without a handler.
claim(i) ==
    LET row == inst[i].row
        p == plan(row)
        state == IF p.decided = "missed" THEN "missed"
                 ELSE IF s.running = 0 \/ s.def.overlap = "allow" THEN "running" ELSE "skipped"
    IN  /\ row # NoRow /\ Matches(row)
        /\ inst' = [inst EXCEPT ![i].row = NoRow]
        /\ IF Claimed(p.fire)
           THEN s' = [s EXCEPT !.next = p.next] /\ UNCHANGED <<run, hand, budget>>
           ELSE /\ Unused # {}
                /\ NewRun([state |-> state, tick |-> p.fire, manual |-> FALSE,
                           missed |-> p.missed, live |-> state = "running"])
                /\ s' = [s EXCEPT !.next = p.next, !.runs = @ + 1,
                                  !.running = IF state = "running" THEN @ + 1 ELSE @]
                /\ \/ /\ hand' = IF state = "running" THEN [hand EXCEPT ![i][NewId] = "on"]
                                 ELSE hand
                      /\ UNCHANGED budget
                   \/ Fault /\ UNCHANGED hand
        /\ UNCHANGED now

\* The pending manual runs, at once.
pickup(i) ==
    LET pending == {id \in Ids : run[id].state = "pending"}
    IN  /\ inst[i].pc = "up" /\ pending # {}
        /\ run' = [id \in Ids |-> IF id \in pending
                                  THEN [run[id] EXCEPT !.state = "running", !.live = TRUE]
                                  ELSE run[id]]
        /\ \/ /\ hand' = [hand EXCEPT ![i] = [id \in Ids |-> IF id \in pending THEN "on" ELSE @[id]]]
              /\ UNCHANGED budget
           \/ Fault /\ UNCHANGED hand
        /\ UNCHANGED <<now, s, inst>>

-----------------------------------------------------------------------------
(* The handlers of an instance.                                            *)

\* Ends run id and frees its slot.
EndRun(id, state) ==
    /\ run' = [run EXCEPT ![id].state = state, ![id].live = FALSE]
    /\ s' = [s EXCEPT !.running = @ - 1]

\* The first reason of an abort is kept.
Abort(i, id, reason) ==
    hand' = [hand EXCEPT ![i][id] = IF @ = "on" THEN reason ELSE @]

\* An aborted run stays open, but the statement that says so may be lost.
Cancelling(id) ==
    \/ /\ run' = [run EXCEPT ![id].state = IF @ = "running" THEN "cancelling" ELSE @]
       /\ UNCHANGED budget
    \/ Fault /\ UNCHANGED run

Timeout(i, id) ==
    /\ hand[i][id] = "on"
    /\ Abort(i, id, "timeout") /\ Cancelling(id)
    /\ UNCHANGED <<now, s, inst>>

\* close() aborts what is left after the grace period.
DrainAborts(i, id) ==
    /\ inst[i].pc = "closing" /\ hand[i][id] = "on"
    /\ Abort(i, id, "close") /\ Cancelling(id)
    /\ UNCHANGED <<now, s, inst>>

\* Extends the leases of the live runs and learns which were cancelled or
\* taken away.
heartbeat(i) ==
    LET mine == Handlers(i)
        kept == mine \cap Leased
        tell == [id \in Ids |->
                    IF hand[i][id] # "on" THEN hand[i][id]
                    ELSE IF id \notin kept THEN "lost"
                    ELSE IF run[id].state = "cancelling" THEN "cancel" ELSE "on"]
    IN  /\ mine # {}
        /\ run' = [id \in Ids |-> IF id \in kept THEN [run[id] EXCEPT !.live = TRUE] ELSE run[id]]
        /\ hand' = [hand EXCEPT ![i] = tell]
        /\ UNCHANGED <<now, s, inst, budget>>

\* What execute records for a handler that settled.
StateOf(reason, ok) ==
    IF reason \in {"cancel", "close"} THEN "cancelled"
    ELSE IF reason = "timeout" \/ ~ok THEN "failed" ELSE "succeeded"

\* The handler settles and its run is finished, unless the run has ended or
\* the statement fails.
finish(i, id) ==
    /\ hand[i][id] # "none"
    /\ hand' = [hand EXCEPT ![i][id] = "none"]
    /\ IF hand[i][id] # "lost" /\ id \in Leased
       THEN \E ok \in BOOLEAN : EndRun(id, StateOf(hand[i][id], ok))
       ELSE UNCHANGED <<run, s>>
    /\ UNCHANGED <<now, inst, budget>>

FinishFails(i, id) ==
    /\ hand[i][id] \notin {"none", "lost"} /\ Fault
    /\ hand' = [hand EXCEPT ![i][id] = "none"]
    /\ UNCHANGED <<now, s, run, inst>>

-----------------------------------------------------------------------------
(* Maintenance.                                                            *)

\* Mutant: a cancelled run is left to its handler.
expireRunning(i) ==
    LET gone == {id \in Leased : ~run[id].live /\ run[id].state = "running"}
    IN  /\ inst[i].pc = "up" /\ gone # {}
        /\ run' = [id \in Ids |-> IF id \in gone THEN [run[id] EXCEPT !.state = "failed"]
                                  ELSE run[id]]
        /\ s' = [s EXCEPT !.running = @ - Cardinality(gone)]
        /\ UNCHANGED <<now, inst, hand, budget>>

\* Runs whose lease ran out end and free their slots.
expire(i) ==
    LET gone == {id \in Leased : ~run[id].live}
    IN  /\ inst[i].pc = "up" /\ gone # {}
        /\ run' = [id \in Ids |->
                      IF id \in gone
                      THEN [run[id] EXCEPT !.state = IF @ = "cancelling" THEN "cancelled"
                                                     ELSE "failed"]
                      ELSE run[id]]
        /\ s' = [s EXCEPT !.running = @ - Cardinality(gone)]
        /\ UNCHANGED <<now, inst, hand, budget>>

-----------------------------------------------------------------------------
(* Processes, faults and time.                                             *)

Timing(def) == <<def.every, def.end, def.limit>>

\* Mutant: a limit that is already reached does not end the schedule.
upsertOnwards(def) ==
    \E clock \in Max2(0, now - MaxLag)..now :
        s' = IF Timing(def) = Timing(s.def) THEN [s EXCEPT !.def = def]
             ELSE [s EXCEPT !.def = def,
                            !.next = IF s.enabled THEN nextTick(def, clock) ELSE Null]

\* start() writes the declaration of the new version first.  upsert keeps
\* next_at unless the timing changed, and computes the new one from a clock
\* that was read before.
upsert(def) ==
    \E clock \in Max2(0, now - MaxLag)..now :
        s' = IF Timing(def) = Timing(s.def) THEN [s EXCEPT !.def = def]
             ELSE [s EXCEPT !.def = def,
                            !.next = IF ~s.enabled \/ (def.limit # NoLimit /\ s.runs >= def.limit)
                                     THEN Null ELSE nextTick(def, clock)]

Start(i) ==
    /\ inst[i].pc = "down"
    /\ inst' = [inst EXCEPT ![i].pc = "up"]
    /\ UNCHANGED <<now, s, run, hand, budget>>

Update ==
    /\ Operator
    /\ \E def \in Defs \ {s.def} : upsert(def)
    /\ UNCHANGED <<now, run, inst, hand>>

\* The tick in flight is finished first, then the handlers are drained.
Close(i) ==
    /\ inst[i].pc = "up" /\ inst[i].row = NoRow /\ Operator
    /\ inst' = [inst EXCEPT ![i].pc = "closing"]
    /\ UNCHANGED <<now, s, run, hand>>

Exit(i) ==
    /\ inst[i].pc = "closing" /\ Handlers(i) = {}
    /\ inst' = [inst EXCEPT ![i].pc = "down"]
    /\ UNCHANGED <<now, s, run, hand, budget>>

Crash(i) ==
    /\ inst[i].pc # "down" /\ Fault
    /\ inst' = [inst EXCEPT ![i] = [pc |-> "down", row |-> NoRow]]
    /\ hand' = [hand EXCEPT ![i] = [id \in Ids |-> "none"]]
    /\ UNCHANGED <<now, s, run>>

Tick == /\ now < MaxTime /\ now' = now + 1
        /\ UNCHANGED <<s, run, inst, hand, budget>>

\* A lease runs out: nobody beats for the run, or its instance stalls.
Beaten(id) == \E i \in Instances : hand[i][id] # "none"
Lapse(id) == /\ id \in Leased /\ run[id].live
             /\ run' = [run EXCEPT ![id].live = FALSE]
             /\ UNCHANGED <<now, s, inst, hand>>
LapseUnbeaten(id) == ~Beaten(id) /\ Lapse(id) /\ UNCHANGED budget
LapseStalled(id) == Beaten(id) /\ Lapse(id) /\ Fault

-----------------------------------------------------------------------------
(* Operators.                                                              *)

\* Mutant: a pending run does not hold the slot.
triggerUncounted ==
    LET state == IF s.running = 0 \/ s.def.overlap = "allow" THEN "pending" ELSE "skipped"
    IN  /\ Operator /\ Unused # {}
        /\ NewRun([state |-> state, tick |-> 0, manual |-> TRUE, missed |-> 0, live |-> FALSE])
        /\ UNCHANGED <<now, s, inst, hand>>

trigger ==
    LET state == IF s.running = 0 \/ s.def.overlap = "allow" THEN "pending" ELSE "skipped"
    IN  /\ Operator /\ Unused # {}
        /\ NewRun([state |-> state, tick |-> 0, manual |-> TRUE, missed |-> 0, live |-> FALSE])
        /\ s' = [s EXCEPT !.running = IF state = "pending" THEN @ + 1 ELSE @]
        /\ UNCHANGED <<now, inst, hand>>

\* A pending run ends at once, a running one keeps its slot.
cancel(id) ==
    /\ run[id].state \in {"pending", "running"} /\ Operator
    /\ IF run[id].state = "pending" THEN EndRun(id, "cancelled")
       ELSE run' = [run EXCEPT ![id].state = "cancelling"] /\ UNCHANGED s
    /\ UNCHANGED <<now, inst, hand>>

pause == /\ Operator /\ s' = [s EXCEPT !.paused = ~@]
         /\ UNCHANGED <<now, run, inst, hand>>

disable == /\ s.enabled /\ Operator
           /\ s' = [s EXCEPT !.enabled = FALSE, !.next = Null]
           /\ UNCHANGED <<now, run, inst, hand>>

enable ==
    /\ ~s.enabled
    /\ s' = [s EXCEPT !.enabled = TRUE,
                      !.next = IF s.def.limit # NoLimit /\ s.runs >= s.def.limit THEN Null
                               ELSE nextTick(s.def, now)]
    /\ UNCHANGED <<now, run, inst, hand, budget>>

-----------------------------------------------------------------------------
Loop(i) == due(i) \/ claim(i) \/ ClaimRefused(i) \/ pickup(i) \/ expire(i)

Handler(i, id) == finish(i, id) \/ FinishFails(i, id) \/ Timeout(i, id) \/ DrainAborts(i, id)

Operators == \/ Update \/ trigger \/ pause \/ disable \/ enable
             \/ \E id \in Ids : cancel(id)

Next ==
    \/ \E i \in Instances : \/ Loop(i) \/ heartbeat(i)
                            \/ \E id \in Ids : Handler(i, id)
                            \/ Start(i) \/ Close(i) \/ Exit(i) \/ Crash(i)
    \/ Tick
    \/ \E id \in Ids : LapseUnbeaten(id) \/ LapseStalled(id)
    \/ Operators

\* Instances are restarted and loop, handlers settle, leases run out.
Fairness ==
    /\ \A i \in Instances : /\ WF_vars(Start(i)) /\ WF_vars(claim(i)) /\ WF_vars(ClaimRefused(i))
                            /\ WF_vars(Exit(i))
                            /\ WF_vars(due(i)) /\ WF_vars(pickup(i)) /\ WF_vars(expire(i))
                            /\ \A id \in Ids : WF_vars(finish(i, id))
    /\ \A id \in Ids : WF_vars(LapseUnbeaten(id))

Spec == Init /\ [][Next]_vars
FairSpec == Spec /\ Fairness

-----------------------------------------------------------------------------
(* Properties.                                                             *)

\* While overlap is 'skip' at most one handler works on an open run: a cancelled
\* or timed out handler that winds down holds the slot as well.
NoOverlap ==
    (\A def \in Defs : def.overlap = "skip") =>
        Cardinality(UNION {Handlers(i) \cap Open : i \in Instances}) <= 1

\* Every tick of the grid is recorded once: a claim accounts for all ticks from
\* the old next_at up to the new one, as the tick it fires and those it misses.
EveryTickRecorded ==
    [][\A id \in Ids :
          run[id].state = "none" /\ run'[id].state # "none" /\ ~run'[id].manual =>
              LET upto == IF s'.next # Null THEN s'.next - 1
                          ELSE IF s'.runs = s.def.limit THEN run'[id].tick
                          ELSE IF s.def.end < now THEN s.def.end ELSE now
              IN  run'[id].missed + 1 =
                      Cardinality({x \in s.next..upto : x % s.def.every = 0})]_vars

\* A schedule claims as many ticks as its limit says, and then it ends: it
\* neither claims more nor ends before.
LimitClaimed ==
    s.def.limit # NoLimit /\ s.enabled /\ s.def.end = Never
    => (s.next = Null <=> s.runs >= s.def.limit)

\* A run that was started ends, also when its instance died, its answers were
\* lost or it was cancelled or timed out.
RunsEnd == \A id \in Ids : id \in Open ~> id \notin Open
=============================================================================
