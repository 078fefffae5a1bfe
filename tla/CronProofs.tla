----------------------------- MODULE CronProofs -----------------------------
(***************************************************************************)
(* While every definition skips overlapping ticks, no two handlers work on *)
(* open runs, for every set of instances and every bound.  The argument:   *)
(* the counter of the row is the number of open runs, whoever moved it     *)
(* last, so a claim or a trigger that finds it 0 opens the only one.       *)
(***************************************************************************)
EXTENDS CronSchedule, FiniteSetTheorems, TLAPS

RunStates == OpenStates \cup {"none", "succeeded", "failed", "skipped", "missed", "cancelled"}
RunRow == [state : RunStates, tick : Int, manual : BOOLEAN, missed : Int, live : BOOLEAN]
ReadRow == [next : Int, def : Defs, runs : Int, dbNow : Int]
ScheduleRow == [def : Defs, next : Int, runs : Int, running : Int,
                enabled : BOOLEAN, paused : BOOLEAN]

\* What is claimed was read from a row, and rows keep their types.
Rows ==
    /\ now \in Int
    /\ s \in ScheduleRow
    /\ run \in [Ids -> RunRow]
    /\ inst \in [Instances -> [pc : {"up", "closing", "down"}, row : ReadRow \cup {NoRow}]]

\* The counter of the row is the number of open runs.
SlotsCounted == s.running = Cardinality(Open)

\* With overlap 'skip' everywhere there is at most one of them.
OneSlot == (\A def \in Defs : def.overlap = "skip") => Cardinality(Open) <= 1

Slots == Rows /\ SlotsCounted /\ OneSlot

\* The three things a step does to the open runs.
Keeps == Open' = Open /\ s'.running = s.running
Opens == \E id \in Ids \ Open : /\ Open' = Open \cup {id} /\ s'.running = s.running + 1
                                /\ s.running = 0 \/ s.def.overlap = "allow"
Closes == \E G \in SUBSET Open : Open' = Open \ G /\ s'.running = s.running - Cardinality(G)

LEMMA FiniteIds == IsFiniteSet(Ids)
  BY CronAssumption, FS_Interval DEF Ids

LEMMA FiniteOpen == IsFiniteSet(Open) /\ Cardinality(Open) \in Nat
  BY FiniteIds, FS_Subset, FS_CardinalityType DEF Open

\* A step that does one of the three keeps the count and the bound.
LEMMA StepKeepsSlots ==
    ASSUME Slots, Keeps \/ Opens \/ Closes
    PROVE  SlotsCounted' /\ OneSlot'
<1> USE DEF Slots, SlotsCounted, OneSlot
<1>1. CASE Keeps
  BY <1>1 DEF Keeps
<1>2. CASE Opens
  <2>1. PICK id \in Ids \ Open : /\ Open' = Open \cup {id} /\ s'.running = s.running + 1
                                 /\ s.running = 0 \/ s.def.overlap = "allow"
    BY <1>2 DEF Opens
  <2>2. Cardinality(Open') = Cardinality(Open) + 1
    BY <2>1, FiniteOpen, FS_AddElement
  <2>3. s.def \in Defs
    BY DEF Rows, ScheduleRow
  <2> QED  BY <2>1, <2>2, <2>3, FiniteOpen
<1>3. CASE Closes
  <2>1. PICK G \in SUBSET Open : Open' = Open \ G /\ s'.running = s.running - Cardinality(G)
    BY <1>3 DEF Closes
  <2>2. IsFiniteSet(G) /\ Cardinality(G) \in Nat
    BY FiniteOpen, FS_Subset, FS_CardinalityType
  <2>3. Cardinality(Open') = Cardinality(Open) - Cardinality(G)
    <3>1. Open \cap G = G  OBVIOUS
    <3>2. Cardinality(Open \ G) = Cardinality(Open) - Cardinality(Open \cap G)
      BY FiniteOpen, FS_Difference
    <3> QED  BY <2>1, <3>1, <3>2
  <2> QED  BY <2>1, <2>2, <2>3, FiniteOpen
<1> QED  BY <1>1, <1>2, <1>3

LEMMA NewIdUnused == ASSUME Unused # {} PROVE NewId \in Unused
  BY DEF NewId

\* A run that is none gets a row: it opens, or the open runs stay.
LEMMA NewRunOpens ==
    ASSUME Rows, Unused # {}, NEW row \in RunRow, NewRun(row),
           s'.running = IF row.state \in OpenStates THEN s.running + 1 ELSE s.running,
           row.state \in OpenStates => s.running = 0 \/ s.def.overlap = "allow"
    PROVE  run' \in [Ids -> RunRow] /\ (Keeps \/ Opens)
<1>1. NewId \in Ids /\ run[NewId].state = "none"
  BY NewIdUnused DEF Unused
<1>2. run' = [run EXCEPT ![NewId] = row]
  BY DEF NewRun
<1>3. run' \in [Ids -> RunRow]
  BY <1>1, <1>2 DEF Rows
<1>4. NewId \notin Open
  BY <1>1 DEF Open, OpenStates
<1>5. ASSUME row.state \in OpenStates PROVE Opens
  <2>1. Open' = Open \cup {NewId}
    BY <1>1, <1>2, <1>5 DEF Open, Rows
  <2> QED  BY <1>1, <1>4, <1>5, <2>1 DEF Opens
<1>6. ASSUME row.state \notin OpenStates PROVE Keeps
  <2>1. Open' = Open
    BY <1>1, <1>2, <1>4, <1>6 DEF Open, Rows
  <2> QED  BY <1>6, <2>1 DEF Keeps
<1> QED  BY <1>3, <1>5, <1>6

\* Ending an open run closes it.
LEMMA EndRunCloses ==
    ASSUME Rows, NEW id \in Open, NEW state \in RunStates \ OpenStates, EndRun(id, state)
    PROVE  run' \in [Ids -> RunRow] /\ s' \in ScheduleRow /\ Closes
<1>1. id \in Ids
  BY DEF Open
<1>2. /\ run' = [run EXCEPT ![id].state = state, ![id].live = FALSE]
      /\ s' = [s EXCEPT !.running = @ - 1]
  BY DEF EndRun
<1>3. run' \in [Ids -> RunRow]
  BY <1>1, <1>2 DEF Rows, RunRow
<1>4. s' \in ScheduleRow
  BY <1>2 DEF Rows, ScheduleRow
<1>5. Open' = Open \ {id}
  <2>1. \A x \in Ids : run'[x].state = IF x = id THEN state ELSE run[x].state
    BY <1>1, <1>2 DEF Rows, RunRow
  <2> QED  BY <2>1 DEF Open
<1>6. Cardinality({id}) = 1
  BY FS_Singleton
<1>7. s'.running = s.running - 1
  BY <1>2 DEF Rows, ScheduleRow
<1> QED  BY <1>3, <1>4, <1>5, <1>6, <1>7 DEF Closes

LEMMA DefinitionTypes ==
    ASSUME NEW def \in Defs
    PROVE  /\ def.every \in Nat \ {0} /\ def.limit \in Nat /\ def.end \in Nat
           /\ def.overlap \in {"skip", "allow"} /\ def.misfire \in {"skip", "once"}
  BY CronAssumption DEF Definition, Never, NoLimit

LEMMA TickTypes ==
    ASSUME NEW def \in Defs, NEW t \in Int
    PROVE  nextTick(def, t) \in Int /\ lastTick(def, t) \in Int
<1>1. def.every \in Nat \ {0} /\ def.end \in Nat
  BY DefinitionTypes
<1>2. t \div def.every \in Int
  BY <1>1
<1>3. lastTick(def, t) \in Int
  BY <1>1, <1>2 DEF lastTick
<1>4. Null \in Int
  BY CronAssumption DEF Null, Never
<1>5. (t \div def.every + 1) * def.every \in Int
  BY <1>1, <1>2
<1> QED  BY <1>3, <1>4, <1>5 DEF nextTick

LEMMA PlanTypes ==
    ASSUME NEW row \in ReadRow
    PROVE  /\ plan(row).fire \in Int /\ plan(row).missed \in Int /\ plan(row).next \in Int
           /\ plan(row).decided \in {"run", "missed"}
<1> DEFINE def == row.def
           h == IF def.end < row.dbNow THEN def.end ELSE row.dbNow
           ended == def.limit # NoLimit /\ row.runs + 1 >= def.limit
           fire == Max2(lastTick(def, h), row.next)
           ticks == {x \in row.next..fire : x % def.every = 0}
<1>1. def \in Defs /\ row.next \in Int /\ row.dbNow \in Int
  BY DEF ReadRow
<1>2. h \in Int
  BY <1>1, DefinitionTypes
<1>3. fire \in Int
  BY <1>1, <1>2, TickTypes DEF Max2
<1>4. Cardinality(ticks) - 1 \in Int
  <2>1. IsFiniteSet(row.next..fire)
    BY <1>1, <1>3, FS_Interval
  <2>2. Cardinality(ticks) \in Nat
    BY <2>1, FS_Subset, FS_CardinalityType
  <2> QED  BY <2>2
<1>5. nextTick(def, row.next) \in Int /\ nextTick(def, row.dbNow) \in Int /\ Null \in Int
  BY <1>1, TickTypes, CronAssumption DEF Null, Never
<1>6. plan(row) = IF row.dbNow - row.next <= GraceMs
        THEN [fire |-> row.next, decided |-> "run", missed |-> 0,
              next |-> IF ended THEN Null ELSE nextTick(def, row.next)]
        ELSE [fire |-> fire, decided |-> IF def.misfire = "skip" THEN "missed" ELSE "run",
              missed |-> Cardinality(ticks) - 1,
              next |-> IF ended THEN Null ELSE nextTick(def, row.dbNow)]
  BY DEF plan
<1> HIDE DEF def, fire, ticks, ended
<1> QED  BY <1>1, <1>3, <1>4, <1>5, <1>6

-----------------------------------------------------------------------------
(* Every step keeps the types and does one of the three things.            *)

Moves == Rows' /\ (Keeps \/ Opens \/ Closes)

\* Steps that leave the schedule and the states of the runs alone.
LEMMA SameStates ==
    ASSUME Rows, Rows', s'.running = s.running, \A id \in Ids : run'[id].state = run[id].state
    PROVE  Moves
  BY DEF Moves, Keeps, Open

LEMMA ClaimMoves == ASSUME Rows, NEW i \in Instances, claim(i) PROVE Moves
<1> DEFINE row == inst[i].row
           p == plan(row)
           state == IF p.decided = "missed" THEN "missed"
                    ELSE IF s.running = 0 \/ s.def.overlap = "allow" THEN "running" ELSE "skipped"
           new == [state |-> state, tick |-> p.fire, manual |-> FALSE,
                   missed |-> p.missed, live |-> state = "running"]
<1>1. row \in ReadRow
  BY DEF claim, Rows
<1>2. p.fire \in Int /\ p.missed \in Int /\ p.next \in Int
  BY <1>1, PlanTypes
<1>3. inst' = [inst EXCEPT ![i].row = NoRow] /\ now' = now
  BY DEF claim
<1>4. now' \in Int /\ inst' \in [Instances -> [pc : {"up", "closing", "down"},
                                                row : ReadRow \cup {NoRow}]]
  BY <1>3 DEF Rows
<1> HIDE DEF row, p
<1>5. state \in {"missed", "running", "skipped"} /\ new \in RunRow
  BY <1>2 DEF RunRow, RunStates, OpenStates
<1>6. CASE Claimed(p.fire)
  <2>1. s' = [s EXCEPT !.next = p.next] /\ run' = run
    BY <1>6 DEF claim, row, p
  <2>2. s' \in ScheduleRow /\ s'.running = s.running
    BY <1>2, <2>1 DEF Rows, ScheduleRow
  <2> QED  BY <1>4, <2>1, <2>2, SameStates DEF Rows
<1>7. CASE ~Claimed(p.fire)
  <2>1. /\ Unused # {} /\ NewRun(new)
        /\ s' = [s EXCEPT !.next = p.next, !.runs = @ + 1,
                          !.running = IF state = "running" THEN @ + 1 ELSE @]
    BY <1>7 DEF claim, row, p
  <2>3. new.state = state /\ (state \in OpenStates <=> state = "running")
    BY <1>5 DEF OpenStates
  <2>4. state = "running" => s.running = 0 \/ s.def.overlap = "allow"
    OBVIOUS
  <2> HIDE DEF new, state
  <2>2. /\ s' \in ScheduleRow
        /\ s'.running = IF state = "running" THEN s.running + 1 ELSE s.running
    <3> DEFINE taken == IF state = "running" THEN s.running + 1 ELSE s.running
    <3>1. s.runs + 1 \in Int /\ taken \in Int
      BY DEF Rows, ScheduleRow
    <3>2. s' = [s EXCEPT !.next = p.next, !.runs = s.runs + 1, !.running = taken]
      BY <2>1 DEF Rows, ScheduleRow
    <3> HIDE DEF taken
    <3>3. s' \in ScheduleRow /\ s'.running = taken
      BY <1>2, <3>1, <3>2 DEF Rows, ScheduleRow
    <3> QED  BY <3>3 DEF taken
  <2>5. run' \in [Ids -> RunRow] /\ (Keeps \/ Opens)
    BY <1>5, <2>1, <2>2, <2>3, <2>4, NewRunOpens
  <2> QED  BY <1>4, <2>2, <2>5 DEF Moves, Rows
<1> QED  BY <1>6, <1>7

LEMMA LoopMoves == ASSUME Rows, NEW i \in Instances, Loop(i) PROVE Moves
<1>1. CASE due(i)
  <2>1. [next |-> s.next, def |-> s.def, runs |-> s.runs, dbNow |-> now] \in ReadRow
    BY DEF Rows, ScheduleRow, ReadRow
  <2>2. Rows'
    BY <1>1, <2>1 DEF due, Rows
  <2> QED  BY <1>1, <2>2, SameStates DEF due
<1>2. CASE claim(i)
  BY <1>2, ClaimMoves
<1>3. CASE ClaimRefused(i)
  <2>1. Rows'
    BY <1>3 DEF ClaimRefused, Rows
  <2> QED  BY <1>3, <2>1, SameStates DEF ClaimRefused
<1>4. CASE pickup(i)
  <2>1. run' \in [Ids -> RunRow] /\ s' = s /\ now' = now /\ inst' = inst
    <3>1. \A id \in Ids : [run[id] EXCEPT !.state = "running", !.live = TRUE] \in RunRow
      BY DEF Rows, RunRow, RunStates, OpenStates
    <3>2. \A id \in Ids : run[id] \in RunRow
      BY DEF Rows
    <3> QED  BY <1>4, <3>1, <3>2 DEF pickup
  <2>2. \A id \in Ids : run'[id].state = IF run[id].state = "pending" THEN "running"
                                         ELSE run[id].state
    BY <1>4 DEF pickup, Rows, RunRow
  <2>3. Open' = Open
    BY <2>2 DEF Open, OpenStates
  <2> QED  BY <2>1, <2>3 DEF Moves, Keeps, Rows
<1>5. CASE expire(i)
  <2> DEFINE gone == {id \in Leased : ~run[id].live}
             ends(id) == IF run[id].state = "cancelling" THEN "cancelled" ELSE "failed"
  <2>1. /\ run' = [id \in Ids |->
                      IF id \in gone
                      THEN [run[id] EXCEPT !.state = IF @ = "cancelling" THEN "cancelled"
                                                     ELSE "failed"]
                      ELSE run[id]]
        /\ s' = [s EXCEPT !.running = @ - Cardinality(gone)] /\ now' = now /\ inst' = inst
    BY <1>5 DEF expire
  <2>2. run' \in [Ids -> RunRow]
    BY <2>1 DEF Rows, RunRow, RunStates
  <2>3. gone \in SUBSET Open
    BY DEF Leased, Open, OpenStates
  <2>4. \A id \in Ids : run'[id].state = IF id \in gone THEN ends(id) ELSE run[id].state
    BY <2>1 DEF Rows, RunRow
  <2>5. Open' = Open \ gone
    BY <2>3, <2>4 DEF Open, OpenStates
  <2>6. Cardinality(gone) \in Nat
    BY <2>3, FiniteOpen, FS_Subset, FS_CardinalityType
  <2> HIDE DEF gone
  <2>7. s' \in ScheduleRow /\ s'.running = s.running - Cardinality(gone)
    BY <2>1, <2>6 DEF Rows, ScheduleRow
  <2> QED  BY <2>1, <2>2, <2>3, <2>5, <2>7 DEF Moves, Closes, Rows
<1> QED  BY <1>1, <1>2, <1>3, <1>4, <1>5 DEF Loop

LEMMA CancellingMoves ==
    ASSUME Rows, NEW id \in Ids, Cancelling(id), UNCHANGED <<now, s, inst>>
    PROVE  Moves
<1>1. run' = run \/ run' = [run EXCEPT ![id].state = IF @ = "running" THEN "cancelling" ELSE @]
  BY DEF Cancelling
<1>2. run' \in [Ids -> RunRow]
  BY <1>1 DEF Rows, RunRow, RunStates, OpenStates
<1>3. Open' = Open
  BY <1>1 DEF Rows, RunRow, Open, OpenStates
<1> QED  BY <1>2, <1>3 DEF Moves, Keeps, Rows

LEMMA HandlerMoves ==
    ASSUME Rows, NEW i \in Instances, NEW id \in Ids, Handler(i, id)
    PROVE  Moves
<1>1. CASE finish(i, id)
  <2>1. CASE hand[i][id] # "lost" /\ id \in Leased
    <3>1. PICK ok \in BOOLEAN : EndRun(id, StateOf(hand[i][id], ok))
      BY <1>1, <2>1 DEF finish
    <3>2. StateOf(hand[i][id], ok) \in RunStates \ OpenStates
      BY DEF StateOf, RunStates, OpenStates
    <3>3. id \in Open
      BY <2>1 DEF Leased, Open, OpenStates
    <3>4. run' \in [Ids -> RunRow] /\ s' \in ScheduleRow /\ Closes
      BY <3>1, <3>2, <3>3, EndRunCloses
    <3> QED  BY <1>1, <3>4 DEF finish, Moves, Rows
  <2>2. CASE ~(hand[i][id] # "lost" /\ id \in Leased)
    BY <1>1, <2>2, SameStates DEF finish, Rows
  <2> QED  BY <2>1, <2>2
<1>2. CASE FinishFails(i, id)
  BY <1>2, SameStates DEF FinishFails, Rows
<1>3. CASE Timeout(i, id)
  BY <1>3, CancellingMoves DEF Timeout
<1>4. CASE DrainAborts(i, id)
  BY <1>4, CancellingMoves DEF DrainAborts
<1> QED  BY <1>1, <1>2, <1>3, <1>4 DEF Handler

LEMMA InstanceMoves ==
    ASSUME Rows, NEW i \in Instances,
           heartbeat(i) \/ Start(i) \/ Close(i) \/ Exit(i) \/ Crash(i)
    PROVE  Moves
<1>1. CASE heartbeat(i)
  <2>1. PICK kept : run' = [id \in Ids |-> IF id \in kept THEN [run[id] EXCEPT !.live = TRUE]
                                           ELSE run[id]]
    BY <1>1 DEF heartbeat
  <2>2. run' \in [Ids -> RunRow]
    BY <2>1 DEF Rows, RunRow
  <2>3. \A id \in Ids : run'[id].state = run[id].state
    BY <2>1 DEF Rows, RunRow
  <2> QED  BY <1>1, <2>2, <2>3, SameStates DEF heartbeat, Rows
<1>2. CASE Start(i) \/ Close(i) \/ Exit(i) \/ Crash(i)
  <2>1. inst' \in [Instances -> [pc : {"up", "closing", "down"}, row : ReadRow \cup {NoRow}]]
    BY <1>2 DEF Start, Close, Exit, Crash, Rows
  <2>2. now' = now /\ s' = s /\ run' = run
    BY <1>2 DEF Start, Close, Exit, Crash
  <2> QED  BY <2>1, <2>2, SameStates DEF Rows
<1> QED  BY <1>1, <1>2

LEMMA LapseMoves ==
    ASSUME Rows, NEW id \in Ids, LapseUnbeaten(id) \/ LapseStalled(id)
    PROVE  Moves
<1>1. run' = [run EXCEPT ![id].live = FALSE] /\ UNCHANGED <<now, s, inst>>
  BY DEF LapseUnbeaten, LapseStalled, Lapse
<1>2. Rows' /\ \A x \in Ids : run'[x].state = run[x].state
  BY <1>1 DEF Rows, RunRow
<1> QED  BY <1>1, <1>2, SameStates

LEMMA UpsertTypes ==
    ASSUME Rows, NEW def \in Defs, upsert(def)
    PROVE  s' \in ScheduleRow /\ s'.running = s.running
<1>1. PICK clock \in Max2(0, now - MaxLag)..now :
        s' = IF Timing(def) = Timing(s.def) THEN [s EXCEPT !.def = def]
             ELSE [s EXCEPT !.def = def,
                            !.next = IF ~s.enabled \/ (def.limit # NoLimit /\ s.runs >= def.limit)
                                     THEN Null ELSE nextTick(def, clock)]
  BY DEF upsert
<1>2. clock \in Int
  BY CronAssumption DEF Max2, Rows
<1>3. nextTick(def, clock) \in Int /\ Null \in Int
  BY <1>2, TickTypes, CronAssumption DEF Null, Never
<1> QED  BY <1>1, <1>3 DEF Rows, ScheduleRow

LEMMA OperatorsMove == ASSUME Rows, Operators PROVE Moves
<1>1. CASE Update
  <2>1. PICK def \in Defs : upsert(def)
    BY <1>1 DEF Update
  <2> QED  BY <1>1, <2>1, UpsertTypes, SameStates DEF Update, Rows
<1>2. CASE trigger
  <2> DEFINE state == IF s.running = 0 \/ s.def.overlap = "allow" THEN "pending" ELSE "skipped"
             new == [state |-> state, tick |-> 0, manual |-> TRUE, missed |-> 0, live |-> FALSE]
  <2>1. /\ Unused # {} /\ NewRun(new) /\ UNCHANGED <<now, inst>>
        /\ s' = [s EXCEPT !.running = IF state = "pending" THEN @ + 1 ELSE @]
    BY <1>2 DEF trigger
  <2>2. new \in RunRow /\ new.state = state /\ (state \in OpenStates <=> state = "pending")
    <3>1. state \in {"pending", "skipped"}
      OBVIOUS
    <3> HIDE DEF state
    <3> QED  BY <3>1 DEF RunRow, RunStates, OpenStates
  <2>3. state = "pending" => s.running = 0 \/ s.def.overlap = "allow"
    OBVIOUS
  <2> HIDE DEF new, state
  <2>4. s' \in ScheduleRow /\ s'.running = IF state = "pending" THEN s.running + 1 ELSE s.running
    BY <2>1 DEF Rows, ScheduleRow
  <2>5. run' \in [Ids -> RunRow] /\ (Keeps \/ Opens)
    BY <2>1, <2>2, <2>3, <2>4, NewRunOpens
  <2> QED  BY <2>1, <2>4, <2>5 DEF Moves, Rows
<1>3. CASE pause \/ disable \/ enable
  <2>1. nextTick(s.def, now) \in Int /\ Null \in Int
    BY TickTypes, CronAssumption DEF Rows, ScheduleRow, Null, Never
  <2>2. s' \in ScheduleRow /\ s'.running = s.running
    BY <1>3, <2>1 DEF pause, disable, enable, Rows, ScheduleRow
  <2>3. now' = now /\ run' = run /\ inst' = inst
    BY <1>3 DEF pause, disable, enable
  <2> QED  BY <2>2, <2>3, SameStates DEF Rows
<1>4. ASSUME NEW id \in Ids, cancel(id) PROVE Moves
  <2>1. CASE run[id].state = "pending"
    <3>1. EndRun(id, "cancelled") /\ UNCHANGED <<now, inst>>
      BY <1>4, <2>1 DEF cancel
    <3>2. id \in Open /\ "cancelled" \in RunStates \ OpenStates
      BY <2>1 DEF Open, OpenStates, RunStates
    <3> QED  BY <3>1, <3>2, EndRunCloses DEF Moves, Rows
  <2>2. CASE run[id].state # "pending"
    <3>1. /\ run[id].state = "running" /\ UNCHANGED <<now, s, inst>>
          /\ run' = [run EXCEPT ![id].state = "cancelling"]
      BY <1>4, <2>2 DEF cancel
    <3>2. run' \in [Ids -> RunRow]
      BY <3>1 DEF Rows, RunRow, RunStates, OpenStates
    <3>3. Open' = Open
      BY <3>1 DEF Rows, RunRow, Open, OpenStates
    <3> QED  BY <3>1, <3>2, <3>3 DEF Moves, Keeps, Rows
  <2> QED  BY <2>1, <2>2
<1> QED  BY <1>1, <1>2, <1>3, <1>4 DEF Operators

-----------------------------------------------------------------------------
LEMMA SlotsInit == Init => Slots
<1> SUFFICES ASSUME Init PROVE Slots
  OBVIOUS
<1>1. PICK def \in Defs :
        s = [def |-> def, next |-> nextTick(def, 0), runs |-> 0, running |-> 0,
             enabled |-> TRUE, paused |-> FALSE]
  BY DEF Init
<1>2. s \in ScheduleRow /\ s.running = 0
  BY <1>1, TickTypes DEF ScheduleRow
<1>3. run \in [Ids -> RunRow] /\ Open = {}
  BY DEF Init, NoRun, RunRow, RunStates, Open, OpenStates
<1>4. now \in Int /\ inst \in [Instances -> [pc : {"up", "closing", "down"},
                                              row : ReadRow \cup {NoRow}]]
  BY DEF Init
<1> QED  BY <1>2, <1>3, <1>4, FS_EmptySet DEF Slots, Rows, SlotsCounted, OneSlot

LEMMA SlotsStep == Slots /\ [Next]_vars => Slots'
<1> SUFFICES ASSUME Slots, [Next]_vars PROVE Slots'
  OBVIOUS
<1>1. Rows
  BY DEF Slots
<1>2. Moves
  <2>1. ASSUME NEW i \in Instances, Loop(i) PROVE Moves
    BY <1>1, <2>1, LoopMoves
  <2>2. ASSUME NEW i \in Instances,
               heartbeat(i) \/ Start(i) \/ Close(i) \/ Exit(i) \/ Crash(i)
        PROVE Moves
    BY <1>1, <2>2, InstanceMoves
  <2>3. ASSUME NEW i \in Instances, NEW id \in Ids, Handler(i, id) PROVE Moves
    BY <1>1, <2>3, HandlerMoves
  <2>4. CASE Tick \/ UNCHANGED vars
    <3>1. Rows' /\ s' = s /\ run' = run
      BY <1>1, <2>4 DEF Tick, vars, Rows
    <3> QED  BY <1>1, <3>1, SameStates
  <2>5. ASSUME NEW id \in Ids, LapseUnbeaten(id) \/ LapseStalled(id) PROVE Moves
    BY <1>1, <2>5, LapseMoves
  <2>6. CASE Operators
    BY <1>1, <2>6, OperatorsMove
  <2> QED  BY <2>1, <2>2, <2>3, <2>4, <2>5, <2>6 DEF Next
<1> QED  BY <1>2, StepKeepsSlots DEF Moves, Slots

\* The counter on which claims and triggers decide is the number of open runs,
\* and where overlap is 'skip' everywhere at most one run is open.
THEOREM SlotsInvariant == Spec => []Slots
  BY SlotsInit, SlotsStep, PTL DEF Spec

\* While overlap is 'skip' at most one handler works on an open run, however
\* many instances claim, crash, stall, cancel and expire.
THEOREM NoOverlapHolds == Spec => []NoOverlap
<1>1. Slots => NoOverlap
  <2> SUFFICES ASSUME Slots, \A def \in Defs : def.overlap = "skip"
               PROVE  Cardinality(UNION {Handlers(i) \cap Open : i \in Instances}) <= 1
    BY DEF NoOverlap
  <2> DEFINE working == UNION {Handlers(i) \cap Open : i \in Instances}
  <2>1. working \in SUBSET Open
    OBVIOUS
  <2> HIDE DEF working
  <2>2. Cardinality(working) <= Cardinality(Open) /\ Cardinality(working) \in Nat
    BY <2>1, FiniteOpen, FS_Subset, FS_CardinalityType
  <2>3. Cardinality(Open) <= 1
    BY DEF Slots, OneSlot
  <2>4. Cardinality(working) <= 1
    BY <2>2, <2>3, FiniteOpen
  <2> QED  BY <2>4 DEF working
<1> QED  BY <1>1, SlotsInvariant, PTL
-----------------------------------------------------------------------------
(* Ticks.  The rows that instances hold were read from the schedule, which *)
(* has moved on since or is still the same; the ticks of runs lie behind   *)
(* the next one.                                                           *)

Multiple(x, def) == x % def.every = 0

LEMMA DivBounds ==
    ASSUME NEW e \in Nat \ {0}, NEW t \in Int
    PROVE  t \div e \in Int /\ (t \div e) * e <= t /\ t < (t \div e + 1) * e
  OBVIOUS

LEMMA TimesEvery ==
    ASSUME NEW e \in Nat \ {0}, NEW k \in Int
    PROVE  (k * e) % e = 0
  OBVIOUS

\* Between two neighbouring multiples there is none.
LEMMA NoneBetween ==
    ASSUME NEW e \in Nat \ {0}, NEW k \in Int, NEW x \in Int, x % e = 0
    PROVE  (x > k * e => x >= (k + 1) * e) /\ (x < (k + 1) * e => x <= k * e)
<1>1. PICK j \in Int : x = j * e
  <2>1. x \div e \in Int /\ x = (x \div e) * e
    OBVIOUS
  <2> QED  BY <2>1
<1>2. j > k => j * e >= (k + 1) * e
  <2>1. ASSUME j > k PROVE j = k + 1 \/ j - (k + 1) \in Nat
    BY <2>1
  <2> QED  BY <2>1
<1>3. j <= k => j * e <= k * e
  OBVIOUS
<1>4. k * e <= (k + 1) * e /\ k * e < (k + 1) * e
  OBVIOUS
<1> QED  BY <1>1, <1>2, <1>3, <1>4

\* The next tick is the first one after t, if the end admits it.
LEMMA NextTickIs ==
    ASSUME NEW def \in Defs, NEW t \in Int
    PROVE  LET n == nextTick(def, t)
           IN  /\ \/ n = Null
                  \/ n \in Int /\ n > t /\ Multiple(n, def) /\ n <= def.end
               /\ \A x \in Int : Multiple(x, def) /\ x > t /\ x <= def.end => n # Null /\ n <= x
               /\ n = Null => t + def.every > def.end
<1>1. def.every \in Nat \ {0} /\ def.end \in Nat
  BY DefinitionTypes
<1> DEFINE k == t \div def.every
<1>2. k \in Int /\ k * def.every <= t /\ t < (k + 1) * def.every
  BY <1>1, DivBounds
<1>3. ((k + 1) * def.every) % def.every = 0
  BY <1>1, <1>2, TimesEvery
<1>4. \A x \in Int : Multiple(x, def) /\ x > t => x >= (k + 1) * def.every
  <2> SUFFICES ASSUME NEW x \in Int, Multiple(x, def), x > t PROVE x >= (k + 1) * def.every
    OBVIOUS
  <2>1. k * def.every \in Int
    BY <1>1, <1>2
  <2>2. x > k * def.every
    BY <1>2, <2>1
  <2> QED  BY <1>1, <1>2, <2>2, NoneBetween DEF Multiple
<1>5. (k + 1) * def.every \in Int /\ (k + 1) * def.every <= t + def.every
  BY <1>1, <1>2
<1>6. nextTick(def, t) = IF (k + 1) * def.every > def.end THEN Null ELSE (k + 1) * def.every
  BY DEF nextTick
<1>7. def.end # Null /\ def.end < Null /\ Null \in Int
  <2>1. def.end \in 0..Never /\ Never \in Int
    BY CronAssumption DEF Definition, Never
  <2> QED  BY <2>1 DEF Null
<1> DEFINE next == (k + 1) * def.every
<1> HIDE DEF k, next
<1>8. next \in Int /\ next > t /\ next % def.every = 0 /\ next <= t + def.every
  BY <1>2, <1>3, <1>5 DEF next
<1>9. nextTick(def, t) = IF next > def.end THEN Null ELSE next
  BY <1>6 DEF next
<1>10. \A x \in Int : Multiple(x, def) /\ x > t => x >= next
  BY <1>4 DEF next
<1>11. CASE next > def.end
  <2>1. nextTick(def, t) = Null
    BY <1>9, <1>11
  <2>2. t + def.every > def.end
    BY <1>1, <1>8, <1>11
  <2>3. \A x \in Int : ~(Multiple(x, def) /\ x > t /\ x <= def.end)
    BY <1>1, <1>8, <1>10, <1>11
  <2> QED  BY <2>1, <2>2, <2>3
<1>12. CASE ~(next > def.end)
  <2>1. nextTick(def, t) = next /\ next # Null
    BY <1>1, <1>7, <1>8, <1>9, <1>12
  <2> QED  BY <1>1, <1>8, <1>10, <1>12, <2>1 DEF Multiple
<1> QED  BY <1>11, <1>12

\* The last tick is the last one that is not after t.
LEMMA LastTickIs ==
    ASSUME NEW def \in Defs, NEW t \in Int
    PROVE  LET l == lastTick(def, t)
           IN  /\ l \in Int /\ l <= t /\ Multiple(l, def)
               /\ \A x \in Int : Multiple(x, def) /\ x <= t => x <= l
<1>1. def.every \in Nat \ {0}
  BY DefinitionTypes
<1> DEFINE k == t \div def.every
<1>2. k \in Int /\ k * def.every <= t /\ t < (k + 1) * def.every
  BY <1>1, DivBounds
<1>3. k * def.every \in Int /\ (k * def.every) % def.every = 0
  BY <1>1, <1>2, TimesEvery
<1>4. \A x \in Int : Multiple(x, def) /\ x <= t => x <= k * def.every
  <2> SUFFICES ASSUME NEW x \in Int, Multiple(x, def), x <= t PROVE x <= k * def.every
    OBVIOUS
  <2>1. (k + 1) * def.every \in Int
    BY <1>1, <1>2
  <2>2. x < (k + 1) * def.every
    BY <1>2, <2>1
  <2> QED  BY <1>1, <1>2, <2>2, NoneBetween DEF Multiple
<1> QED  BY <1>2, <1>3, <1>4 DEF lastTick, Multiple

\* What a claim accounts for: the ticks of a schedule from one time to another.
TicksOf(def, from, upto) == {x \in from..upto : Multiple(x, def)}

\* Whether the claim of a row reaches the limit.
Ending(row) == row.def.limit # NoLimit /\ row.runs + 1 >= row.def.limit

\* A row that is due on the grid.
Due(row) == Multiple(row.next, row.def) /\ row.next <= row.def.end /\ row.next <= row.dbNow

LEMMA PlanIs ==
    ASSUME NEW row \in ReadRow, Due(row)
    PROVE  LET p == plan(row)
           IN  /\ p.fire \in Int /\ row.next <= p.fire /\ p.fire <= row.dbNow /\ p.fire <= row.def.end
               /\ p.next # Null => /\ p.next \in Int /\ p.next > p.fire
                                   /\ Multiple(p.next, row.def) /\ p.next <= row.def.end
               /\ Ending(row) => p.next = Null
               /\ ~Ending(row) /\ row.dbNow + row.def.every <= row.def.end => p.next # Null
               /\ p.missed + 1 = Cardinality(TicksOf(row.def, row.next, p.fire))
               /\ p.next # Null => \A x \in Int : Multiple(x, row.def) /\ x > p.fire => x >= p.next
               /\ p.next = Null /\ ~Ending(row) =>
                     \A x \in Int : Multiple(x, row.def) /\ x > p.fire => x > row.def.end
<1>1. row.def \in Defs /\ row.next \in Int /\ row.dbNow \in Int /\ row.runs \in Int
  BY DEF ReadRow
<1>2. row.def.every \in Nat \ {0} /\ row.def.end \in Nat
  BY <1>1, DefinitionTypes
<1>3. Multiple(row.next, row.def) /\ row.next <= row.def.end /\ row.next <= row.dbNow
  BY DEF Due
<1> DEFINE h == IF row.def.end < row.dbNow THEN row.def.end ELSE row.dbNow
           last == lastTick(row.def, h)
           fire == Max2(last, row.next)
<1>4. CASE row.dbNow - row.next <= GraceMs
  <2> DEFINE next == nextTick(row.def, row.next)
  <2>1. plan(row) = [fire |-> row.next, decided |-> "run", missed |-> 0,
                     next |-> IF Ending(row) THEN Null ELSE next]
    BY <1>4 DEF plan, Ending
  <2>2. /\ plan(row).fire = row.next /\ plan(row).missed = 0
        /\ plan(row).next = IF Ending(row) THEN Null ELSE next
    BY <2>1
  <2>3. /\ \/ next = Null
           \/ next \in Int /\ next > row.next /\ Multiple(next, row.def) /\ next <= row.def.end
        /\ \A x \in Int : Multiple(x, row.def) /\ x > row.next /\ x <= row.def.end
                             => next # Null /\ next <= x
        /\ next = Null => row.next + row.def.every > row.def.end
    BY <1>1, NextTickIs
  <2>4. Cardinality(TicksOf(row.def, row.next, row.next)) = 1
    <3>1. TicksOf(row.def, row.next, row.next) = {row.next}
      BY <1>1, <1>3 DEF TicksOf
    <3> QED  BY <3>1, FS_Singleton
  <2> HIDE DEF next
  <2>5. ~Ending(row) /\ row.dbNow + row.def.every <= row.def.end => next # Null
    BY <1>1, <1>2, <1>3, <2>3
  <2>6. next # Null => \A x \in Int : Multiple(x, row.def) /\ x > row.next => x >= next
    BY <1>1, <1>2, <2>3
  <2>7. next = Null => \A x \in Int : Multiple(x, row.def) /\ x > row.next => x > row.def.end
    BY <1>1, <1>2, <2>3
  <2> DEFINE p == plan(row)
  <2>20. (Ending(row) => p.next = Null) /\ (~Ending(row) => p.next = next)
    BY <2>2
  <2>21. p.fire = row.next /\ p.missed + 1 = Cardinality(TicksOf(row.def, row.next, p.fire))
    BY <2>2, <2>4
  <2> HIDE DEF p
  <2>22. p.fire \in Int /\ row.next <= p.fire /\ p.fire <= row.dbNow /\ p.fire <= row.def.end
    BY <2>21, <1>1, <1>3
  <2>23. p.next # Null => /\ p.next \in Int /\ p.next > p.fire
                          /\ Multiple(p.next, row.def) /\ p.next <= row.def.end
    BY <2>20, <2>21, <2>3
  <2>24. ~Ending(row) /\ row.dbNow + row.def.every <= row.def.end => p.next # Null
    BY <2>20, <2>5
  <2>25. p.next # Null => \A x \in Int : Multiple(x, row.def) /\ x > p.fire => x >= p.next
    BY <2>20, <2>21, <2>6
  <2>26. p.next = Null /\ ~Ending(row) =>
            \A x \in Int : Multiple(x, row.def) /\ x > p.fire => x > row.def.end
    BY <2>20, <2>21, <2>7
  <2> QED  BY <2>20, <2>21, <2>22, <2>23, <2>24, <2>25, <2>26 DEF p
<1>5. CASE ~(row.dbNow - row.next <= GraceMs)
  <2> DEFINE next == nextTick(row.def, row.dbNow)
             ticks == {x \in row.next..fire : x % row.def.every = 0}
  <2>1. plan(row) = [fire |-> fire, decided |-> IF row.def.misfire = "skip" THEN "missed" ELSE "run",
                     missed |-> Cardinality(ticks) - 1,
                     next |-> IF Ending(row) THEN Null ELSE next]
    BY <1>5 DEF plan, Ending
  <2> HIDE DEF fire, ticks, next
  <2>2. /\ plan(row).fire = fire /\ plan(row).missed = Cardinality(ticks) - 1
        /\ plan(row).next = IF Ending(row) THEN Null ELSE next
    BY <2>1
  <2> USE DEF fire, ticks, next
  <2>3. /\ \/ next = Null
           \/ next \in Int /\ next > row.dbNow /\ Multiple(next, row.def) /\ next <= row.def.end
        /\ \A x \in Int : Multiple(x, row.def) /\ x > row.dbNow /\ x <= row.def.end
                             => next # Null /\ next <= x
        /\ next = Null => row.dbNow + row.def.every > row.def.end
    BY <1>1, NextTickIs
  <2>4. h \in Int /\ h <= row.def.end /\ h <= row.dbNow /\ row.next <= h
    BY <1>1, <1>2, <1>3
  <2>5. /\ last \in Int /\ last <= h /\ Multiple(last, row.def)
        /\ \A x \in Int : Multiple(x, row.def) /\ x <= h => x <= last
    BY <1>1, <2>4, LastTickIs
  <2>6. row.next <= last /\ fire = last
    BY <1>1, <1>3, <2>4, <2>5 DEF Max2
  <2>7. ticks = TicksOf(row.def, row.next, fire)
    BY DEF TicksOf, Multiple
  <2>8. Cardinality(ticks) - 1 + 1 = Cardinality(ticks)
    <3>1. IsFiniteSet(row.next..fire)
      BY <1>1, <2>5, <2>6, FS_Interval
    <3>2. Cardinality(ticks) \in Nat
      BY <3>1, FS_Subset, FS_CardinalityType
    <3> HIDE DEF ticks
    <3> QED  BY <3>2
  <2>9. h = row.dbNow \/ (h = row.def.end /\ row.def.end < row.dbNow)
    OBVIOUS
  <2> HIDE DEF next, fire, last, h, ticks
  <2>10. next # Null => \A x \in Int : Multiple(x, row.def) /\ x > fire => x >= next
    <3> SUFFICES ASSUME next # Null, NEW x \in Int, Multiple(x, row.def), x > fire PROVE x >= next
      OBVIOUS
    <3>1. h = row.dbNow
      BY <1>1, <1>2, <2>3, <2>9
    <3>2. x > row.dbNow
      BY <1>1, <2>5, <2>6, <3>1
    <3> QED  BY <1>1, <1>2, <2>3, <3>2
  <2>11. next = Null => \A x \in Int : Multiple(x, row.def) /\ x > fire => x > row.def.end
    <3> SUFFICES ASSUME next = Null, NEW x \in Int, Multiple(x, row.def), x > fire, x <= row.def.end
                 PROVE FALSE
      BY <1>2
    <3>1. x > h
      BY <2>4, <2>5, <2>6
    <3>2. x > row.dbNow
      BY <1>1, <1>2, <2>9, <3>1
    <3> QED  BY <2>3, <3>2
  <2>12. next # Null => next > fire
    BY <1>1, <2>3, <2>4, <2>5, <2>6
  <2> DEFINE p == plan(row)
  <2>20. (Ending(row) => p.next = Null) /\ (~Ending(row) => p.next = next)
    BY <2>2
  <2>21. p.fire = fire /\ p.missed + 1 = Cardinality(TicksOf(row.def, row.next, p.fire))
    BY <2>2, <2>7, <2>8
  <2> HIDE DEF p
  <2>22. p.fire \in Int /\ row.next <= p.fire /\ p.fire <= row.dbNow /\ p.fire <= row.def.end
    BY <2>21, <1>1, <1>2, <2>4, <2>5, <2>6
  <2>23. p.next # Null => /\ p.next \in Int /\ p.next > p.fire
                          /\ Multiple(p.next, row.def) /\ p.next <= row.def.end
    BY <2>20, <2>21, <2>3, <2>12
  <2>24. ~Ending(row) /\ row.dbNow + row.def.every <= row.def.end => p.next # Null
    BY <2>20, <1>1, <1>2, <2>3
  <2>25. p.next # Null => \A x \in Int : Multiple(x, row.def) /\ x > p.fire => x >= p.next
    BY <2>20, <2>21, <2>10
  <2>26. p.next = Null /\ ~Ending(row) =>
            \A x \in Int : Multiple(x, row.def) /\ x > p.fire => x > row.def.end
    BY <2>20, <2>21, <2>11
  <2> QED  BY <2>20, <2>21, <2>22, <2>23, <2>24, <2>25, <2>26 DEF p
<1> QED  BY <1>4, <1>5

-----------------------------------------------------------------------------
(* The schedule on its grid, while upsert reads the clock it decides on.   *)

\* The next tick is one of the definition in force and the limit admits it.
OnGrid ==
    s.next # Null => /\ Multiple(s.next, s.def) /\ s.next <= s.def.end
                     /\ s.def.limit = NoLimit \/ s.runs < s.def.limit

\* Ticks that have a run are over.
Recorded ==
    \A id \in Ids : run[id].state # "none" /\ ~run[id].manual =>
        run[id].tick <= now /\ run[id].tick < s.next

\* A row that was read is the schedule's still, or the schedule has moved on.
ReadBefore ==
    \A i \in Instances : inst[i].row # NoRow =>
        /\ inst[i].row.next <= inst[i].row.dbNow /\ inst[i].row.dbNow <= now
        /\ inst[i].row.next <= s.next
        /\ inst[i].row.next = s.next =>
              Timing(inst[i].row.def) = Timing(s.def) /\ inst[i].row.runs = s.runs

Grid == /\ Rows /\ now \in 0..MaxTime
        /\ OnGrid /\ Recorded /\ ReadBefore /\ LimitClaimed

\* What steps do to it: no tick gets a run, no row is read, and the schedule
\* keeps its times or starts over after now.
NoneClaimed ==
    \A id \in Ids : run'[id].state # "none" /\ ~run'[id].manual =>
        run[id].state # "none" /\ ~run[id].manual /\ run'[id].tick = run[id].tick
NoneRead == \A i \in Instances : inst'[i].row = NoRow \/ inst'[i].row = inst[i].row
Stays == /\ s'.next = s.next /\ s'.runs = s.runs /\ s'.enabled = s.enabled
         /\ s'.def.every = s.def.every /\ s'.def.end = s.def.end /\ s'.def.limit = s.def.limit
StartsOver == /\ s'.next = Null \/ s'.next > now
              /\ s'.runs = s.runs /\ OnGrid' /\ LimitClaimed'
Quiet == now' \in now..MaxTime /\ NoneRead /\ Stays
Restart == now' = now /\ inst' = inst /\ StartsOver

LEMMA NullIsLast ==
    /\ Null \in Int /\ Null > MaxTime /\ Null > Never /\ MaxTime \in Nat
    /\ \A def \in Defs : def.end < Null /\ def.every <= MaxTime
<1>1. MaxTime \in Nat /\ Never \in Int /\ Never > MaxTime /\ Never >= 0
  BY CronAssumption DEF Never
<1>2. \A def \in Defs : def.end \in 0..Never /\ def.every \in 1..MaxTime
  BY CronAssumption DEF Definition
<1> QED  BY <1>1, <1>2 DEF Null

LEMMA NextIsBeforeNull == ASSUME Grid PROVE s.next \in Int /\ s.next <= Null
<1>1. s.next \in Int /\ s.def \in Defs
  BY DEF Grid, Rows, ScheduleRow
<1>2. s.def.end < Null /\ s.def.end \in Int
  BY <1>1, NullIsLast, DefinitionTypes
<1> QED  BY <1>1, <1>2, NullIsLast DEF Grid, OnGrid

\* A schedule without an end has a next tick at any time.
LEMMA EndlessTick ==
    ASSUME NEW def \in Defs, def.end = Never, NEW t \in 0..MaxTime
    PROVE  nextTick(def, t) # Null
<1>1. def.every \in Nat /\ def.every <= MaxTime
  BY DefinitionTypes, NullIsLast
<1>2. MaxTime \in Nat /\ t \in Int /\ t <= MaxTime /\ Never = 2 * MaxTime + 1
  BY NullIsLast DEF Never
<1>3. ~(t + def.every > def.end)
  BY <1>1, <1>2
<1> QED  BY <1>2, <1>3, NextTickIs

LEMMA QuietKeepsGrid ==
    ASSUME Grid, Rows', NoneClaimed, Quiet
    PROVE  Grid'
<1>1. now \in 0..MaxTime /\ now' \in 0..MaxTime /\ now <= now'
  BY NullIsLast DEF Grid, Quiet
<1>2. OnGrid'
  BY DEF Grid, OnGrid, Quiet, Stays, Multiple
<1>3. LimitClaimed'
  BY DEF Grid, LimitClaimed, Quiet, Stays
<1>4. Recorded'
  <2> SUFFICES ASSUME NEW id \in Ids, run'[id].state # "none", ~run'[id].manual
               PROVE  run'[id].tick <= now' /\ run'[id].tick < s'.next
    BY DEF Recorded
  <2>1. run[id].state # "none" /\ ~run[id].manual /\ run'[id].tick = run[id].tick
    BY DEF NoneClaimed
  <2>2. run[id].tick <= now /\ run[id].tick < s.next /\ run[id].tick \in Int
    BY <2>1 DEF Grid, Recorded, Rows, RunRow
  <2> QED  BY <1>1, <2>1, <2>2 DEF Quiet, Stays
<1>5. ReadBefore'
  <2> SUFFICES ASSUME NEW i \in Instances, inst'[i].row # NoRow
               PROVE  /\ inst'[i].row.next <= inst'[i].row.dbNow /\ inst'[i].row.dbNow <= now'
                      /\ inst'[i].row.next <= s'.next
                      /\ inst'[i].row.next = s'.next =>
                            Timing(inst'[i].row.def) = Timing(s'.def) /\ inst'[i].row.runs = s'.runs
    BY DEF ReadBefore
  <2>1. inst'[i].row = inst[i].row
    BY DEF Quiet, NoneRead
  <2>2. inst[i].row \in ReadRow /\ inst[i].row.dbNow \in Int
    BY <2>1 DEF Grid, Rows, ReadRow
  <2>3. Timing(s'.def) = Timing(s.def)
    BY DEF Quiet, Stays, Timing
  <2> QED  BY <1>1, <2>1, <2>2, <2>3 DEF Grid, ReadBefore, Quiet, Stays
<1> QED  BY <1>1, <1>2, <1>3, <1>4, <1>5 DEF Grid

LEMMA RestartKeepsGrid ==
    ASSUME Grid, Rows', NoneClaimed, Restart
    PROVE  Grid'
<1>1. now' = now /\ now \in 0..MaxTime /\ s'.next \in Int /\ s'.next > now
  BY NullIsLast DEF Grid, Restart, StartsOver, Rows, ScheduleRow
<1>2. Recorded'
  <2> SUFFICES ASSUME NEW id \in Ids, run'[id].state # "none", ~run'[id].manual
               PROVE  run'[id].tick <= now' /\ run'[id].tick < s'.next
    BY DEF Recorded
  <2>1. run[id].state # "none" /\ ~run[id].manual /\ run'[id].tick = run[id].tick
    BY DEF NoneClaimed
  <2>2. run[id].tick <= now /\ run[id].tick \in Int
    BY <2>1 DEF Grid, Recorded, Rows, RunRow
  <2> QED  BY <1>1, <2>1, <2>2
<1>3. ReadBefore'
  <2> SUFFICES ASSUME NEW i \in Instances, inst[i].row # NoRow
               PROVE  /\ inst[i].row.next <= inst[i].row.dbNow /\ inst[i].row.dbNow <= now
                      /\ inst[i].row.next < s'.next
    <3>1. inst' = inst
      BY DEF Restart
    <3>2. \A i \in Instances : inst[i].row # NoRow => inst[i].row.next \in Int
      BY DEF Grid, Rows, ReadRow
    <3> QED  BY <1>1, <3>1, <3>2 DEF ReadBefore
  <2>1. inst[i].row.next \in Int /\ inst[i].row.dbNow \in Int
    BY DEF Grid, Rows, ReadRow
  <2>2. inst[i].row.next <= inst[i].row.dbNow /\ inst[i].row.dbNow <= now
    BY DEF Grid, ReadBefore
  <2> QED  BY <1>1, <2>1, <2>2
<1> QED  BY <1>1, <1>2, <1>3 DEF Grid, Restart, StartsOver

\* A claim that goes through was planned for the schedule as it is: its tick
\* has no run yet, and it gets one.
LEMMA ClaimIs ==
    ASSUME Grid, NEW i \in Instances, claim(i)
    PROVE  LET row == inst[i].row
               p == plan(row)
           IN  /\ row \in ReadRow /\ Due(row) /\ row.next = s.next /\ row.dbNow <= now
               /\ row.runs = s.runs /\ Timing(row.def) = Timing(s.def) /\ s.next # Null
               /\ NewId \in Ids /\ run[NewId].state = "none"
               /\ \E r : /\ r.state # "none" /\ r.tick = p.fire /\ r.missed = p.missed
                         /\ run' = [run EXCEPT ![NewId] = r]
               /\ s'.next = p.next /\ s'.runs = s.runs + 1 /\ s'.def = s.def
               /\ s'.enabled = s.enabled
               /\ inst' = [inst EXCEPT ![i].row = NoRow] /\ now' = now
<1> DEFINE row == inst[i].row
           p == plan(row)
           state == IF p.decided = "missed" THEN "missed"
                    ELSE IF s.running = 0 \/ s.def.overlap = "allow" THEN "running" ELSE "skipped"
           r == [state |-> state, tick |-> p.fire, manual |-> FALSE,
                 missed |-> p.missed, live |-> state = "running"]
<1>1. row # NoRow /\ Matches(row) /\ inst' = [inst EXCEPT ![i].row = NoRow] /\ now' = now
  BY DEF claim
<1>2. row \in ReadRow
  BY <1>1 DEF Grid, Rows
<1>3. row.next \in Int /\ row.dbNow \in Int /\ row.def \in Defs
  BY <1>2 DEF ReadRow
<1>4. row.next = s.next
  BY <1>1 DEF Matches
<1>5. /\ row.next <= row.dbNow /\ row.dbNow <= now
      /\ Timing(row.def) = Timing(s.def) /\ row.runs = s.runs
  BY <1>1, <1>4 DEF Grid, ReadBefore
<1>6. s.next # Null
  BY <1>3, <1>4, <1>5, NullIsLast DEF Grid
<1>7. row.def.every = s.def.every /\ row.def.end = s.def.end
  BY <1>5 DEF Timing
<1>8. Due(row)
  BY <1>4, <1>5, <1>6, <1>7 DEF Due, Grid, OnGrid, Multiple
<1>9. p.fire \in Int /\ row.next <= p.fire
  BY <1>2, <1>8, PlanIs
<1>10. ~Claimed(p.fire)
  <2> HIDE DEF row, p
  <2> SUFFICES ASSUME NEW id \in Ids, run[id].state # "none", ~run[id].manual, run[id].tick = p.fire
               PROVE  FALSE
    BY DEF Claimed
  <2>1. run[id].tick < s.next
    BY DEF Grid, Recorded
  <2> QED  BY <1>3, <1>4, <1>9, <2>1
<1>11. /\ Unused # {} /\ NewRun(r)
       /\ s' = [s EXCEPT !.next = p.next, !.runs = @ + 1,
                         !.running = IF state = "running" THEN @ + 1 ELSE @]
  BY <1>10 DEF claim
<1>12. NewId \in Ids /\ run[NewId].state = "none"
  BY <1>11, NewIdUnused DEF Unused
<1>13. state # "none" /\ r.state = state /\ r.tick = p.fire /\ r.missed = p.missed
  OBVIOUS
<1> HIDE DEF row, p, state, r
<1>14. run' = [run EXCEPT ![NewId] = r]
  BY <1>11 DEF NewRun
<1>15. /\ s'.next = p.next /\ s'.runs = s.runs + 1 /\ s'.def = s.def /\ s'.enabled = s.enabled
  BY <1>11 DEF Grid, Rows, ScheduleRow
<1>16. \E x : /\ x.state # "none" /\ x.tick = p.fire /\ x.missed = p.missed
              /\ run' = [run EXCEPT ![NewId] = x]
  BY <1>13, <1>14
<1> QED  BY <1>1, <1>2, <1>4, <1>5, <1>6, <1>8, <1>12, <1>15, <1>16 DEF row, p

LEMMA ClaimKeepsGrid ==
    ASSUME Grid, Rows', NEW i \in Instances, claim(i)
    PROVE  Grid'
<1> DEFINE row == inst[i].row
           p == plan(row)
<1>1. /\ row \in ReadRow /\ Due(row) /\ row.next = s.next /\ row.dbNow <= now
      /\ row.runs = s.runs /\ Timing(row.def) = Timing(s.def) /\ s.next # Null
      /\ NewId \in Ids /\ run[NewId].state = "none"
      /\ s'.next = p.next /\ s'.runs = s.runs + 1 /\ s'.def = s.def
      /\ s'.enabled = s.enabled
      /\ inst' = [inst EXCEPT ![i].row = NoRow] /\ now' = now
  BY ClaimIs
<1>2. PICK r : /\ r.state # "none" /\ r.tick = p.fire /\ r.missed = p.missed
               /\ run' = [run EXCEPT ![NewId] = r]
  BY ClaimIs
<1>3. /\ p.fire \in Int /\ row.next <= p.fire /\ p.fire <= row.dbNow
      /\ p.next # Null => /\ p.next \in Int /\ p.next > p.fire
                          /\ Multiple(p.next, row.def) /\ p.next <= row.def.end
      /\ Ending(row) => p.next = Null
      /\ ~Ending(row) /\ row.dbNow + row.def.every <= row.def.end => p.next # Null
  BY <1>1, PlanIs
<1> HIDE DEF row, p
<1>4. /\ row.def.every = s.def.every /\ row.def.end = s.def.end /\ row.def.limit = s.def.limit
      /\ row.def \in Defs /\ row.dbNow \in Int /\ s.next \in Int /\ s.runs \in Int /\ s.def \in Defs
  BY <1>1 DEF Timing, ReadRow, Grid, Rows, ScheduleRow
<1>5. now \in 0..MaxTime /\ now \in Int /\ p.next \in Int /\ s.next < p.next
  BY <1>1, <1>3, <1>4, NextIsBeforeNull, NullIsLast DEF Grid
<1>6. Ending(row) <=> s.def.limit # NoLimit /\ s.runs + 1 >= s.def.limit
  BY <1>1, <1>4 DEF Ending
<1>7. s.def.limit \in Int
  BY <1>4, DefinitionTypes
<1>8. OnGrid'
  <2>1. p.next # Null => /\ Multiple(p.next, s.def) /\ p.next <= s.def.end
    BY <1>3, <1>4 DEF Multiple
  <2>2. p.next # Null => s.def.limit = NoLimit \/ s.runs + 1 < s.def.limit
    BY <1>3, <1>4, <1>6, <1>7
  <2> QED  BY <1>1, <2>1, <2>2 DEF OnGrid
<1>9. LimitClaimed'
  <2> SUFFICES ASSUME s.def.limit # NoLimit, s.def.end = Never
               PROVE  p.next = Null <=> s.runs + 1 >= s.def.limit
    BY <1>1 DEF LimitClaimed
  <2>1. row.dbNow + row.def.every <= row.def.end
    <3>1. row.def.every \in Nat /\ row.def.every <= MaxTime /\ MaxTime \in Nat
      BY <1>4, DefinitionTypes, NullIsLast
    <3>2. row.dbNow <= MaxTime
      BY <1>1, <1>4, <1>5, NullIsLast
    <3> QED  BY <1>4, <3>1, <3>2 DEF Never
  <2> QED  BY <1>3, <1>6, <2>1
<1>10. Recorded'
  <2> SUFFICES ASSUME NEW id \in Ids, run'[id].state # "none", ~run'[id].manual
               PROVE  run'[id].tick <= now /\ run'[id].tick < p.next
    BY <1>1 DEF Recorded
  <2>1. run \in [Ids -> RunRow]
    BY DEF Grid, Rows
  <2>2. CASE id = NewId
    <3>1. run'[id].tick = p.fire
      BY <1>1, <1>2, <2>1, <2>2
    <3>2. p.fire < p.next
      BY <1>1, <1>3, <1>4, <1>5, NullIsLast
    <3> QED  BY <1>1, <1>3, <1>4, <1>5, <3>1, <3>2
  <2>3. CASE id # NewId
    <3>1. run'[id] = run[id]
      BY <1>2, <2>1, <2>3
    <3>2. run[id].tick <= now /\ run[id].tick < s.next /\ run[id].tick \in Int
      BY <2>1, <3>1 DEF Grid, Recorded, RunRow
    <3> QED  BY <1>4, <1>5, <3>1, <3>2
  <2> QED  BY <2>2, <2>3
<1>11. ReadBefore'
  <2> SUFFICES ASSUME NEW j \in Instances, inst'[j].row # NoRow
               PROVE  /\ inst'[j].row.next <= inst'[j].row.dbNow /\ inst'[j].row.dbNow <= now
                      /\ inst'[j].row.next < p.next
    <3>1. \A j \in Instances : inst'[j].row # NoRow => inst'[j].row.next \in Int
      BY DEF Rows, ReadRow
    <3> QED  BY <1>1, <1>5, <3>1 DEF ReadBefore
  <2>1. inst'[j].row = inst[j].row
    BY <1>1 DEF Grid, Rows
  <2>2. inst[j].row \in ReadRow /\ inst[j].row.next \in Int
    BY <2>1 DEF Grid, Rows, ReadRow
  <2>3. inst[j].row.next <= s.next
    BY <2>1 DEF Grid, ReadBefore
  <2> QED  BY <1>4, <1>5, <2>1, <2>2, <2>3 DEF Grid, ReadBefore
<1> QED  BY <1>1, <1>8, <1>9, <1>10, <1>11 DEF Grid

\* A row that is read is due and as the schedule is.
LEMMA DueKeepsGrid ==
    ASSUME Grid, Rows', NEW i \in Instances, due(i)
    PROVE  Grid' /\ NoneClaimed
<1> DEFINE new == [next |-> s.next, def |-> s.def, runs |-> s.runs, dbNow |-> now]
<1>1. /\ s.next <= now /\ inst' = [inst EXCEPT ![i].row = new]
      /\ now' = now /\ s' = s /\ run' = run
  BY DEF due
<1>2. new.next = s.next /\ new.def = s.def /\ new.runs = s.runs /\ new.dbNow = now
  OBVIOUS
<1> HIDE DEF new
<1>3. NoneClaimed
  BY <1>1 DEF NoneClaimed
<1>4. OnGrid' /\ Recorded' /\ LimitClaimed'
  BY <1>1 DEF Grid, OnGrid, Recorded, LimitClaimed
<1>5. ReadBefore'
  <2> SUFFICES ASSUME NEW j \in Instances, inst'[j].row # NoRow
               PROVE  /\ inst'[j].row.next <= inst'[j].row.dbNow /\ inst'[j].row.dbNow <= now
                      /\ inst'[j].row.next <= s.next
                      /\ inst'[j].row.next = s.next =>
                            Timing(inst'[j].row.def) = Timing(s.def) /\ inst'[j].row.runs = s.runs
    BY <1>1 DEF ReadBefore
  <2>1. CASE j = i
    <3>1. inst'[j].row = new
      BY <1>1, <2>1 DEF Grid, Rows
    <3>2. now \in Int /\ s.next \in Int
      BY DEF Grid, Rows, ScheduleRow
    <3> QED  BY <1>1, <1>2, <3>1, <3>2
  <2>2. CASE j # i
    <3>1. inst'[j].row = inst[j].row
      BY <1>1, <2>2 DEF Grid, Rows
    <3> QED  BY <3>1 DEF Grid, ReadBefore
  <2> QED  BY <2>1, <2>2
<1> QED  BY <1>1, <1>3, <1>4, <1>5 DEF Grid

LEMMA SameTimes == ASSUME s' = s PROVE Stays
  BY DEF Stays

LEMMA SameRuns ==
    ASSUME \A id \in Ids : /\ run'[id].state # "none" => run[id].state # "none"
                           /\ run'[id].manual = run[id].manual /\ run'[id].tick = run[id].tick
    PROVE  NoneClaimed
  BY DEF NoneClaimed

\* A step that ends runs and frees their slots.
LEMMA SlotsFreed ==
    ASSUME Rows, NEW n, s' = [s EXCEPT !.running = n]
    PROVE  Stays
  BY DEF Stays, Rows, ScheduleRow

LEMMA LoopKeepsGrid ==
    ASSUME Grid, Rows', NEW i \in Instances, pickup(i) \/ expire(i) \/ ClaimRefused(i)
    PROVE  NoneClaimed /\ Quiet
<1>1. run \in [Ids -> RunRow] /\ Rows /\ now \in 0..MaxTime
  BY DEF Grid, Rows
<1>2. now \in now..MaxTime
  BY <1>1, NullIsLast
<1>3. CASE ClaimRefused(i)
  <2>1. run' = run /\ s' = s /\ now' = now /\ inst' = [inst EXCEPT ![i].row = NoRow]
    BY <1>3 DEF ClaimRefused
  <2>2. NoneRead
    BY <1>1, <2>1 DEF NoneRead, Rows
  <2> QED  BY <1>2, <2>1, <2>2, SameTimes DEF NoneClaimed, Quiet
<1>4. CASE pickup(i)
  <2> DEFINE pending == {id \in Ids : run[id].state = "pending"}
  <2>1. /\ run' = [id \in Ids |-> IF id \in pending
                                  THEN [run[id] EXCEPT !.state = "running", !.live = TRUE]
                                  ELSE run[id]]
        /\ s' = s /\ now' = now /\ inst' = inst
    BY <1>4 DEF pickup
  <2>2. \A id \in Ids : /\ run'[id].state # "none" => run[id].state # "none"
                        /\ run'[id].manual = run[id].manual /\ run'[id].tick = run[id].tick
    BY <1>1, <2>1 DEF RunRow
  <2>3. NoneClaimed
    BY <2>2, SameRuns
  <2> QED  BY <1>2, <2>1, <2>3, SameTimes DEF NoneRead, Quiet
<1>5. CASE expire(i)
  <2> DEFINE gone == {id \in Leased : ~run[id].live}
  <2>1. /\ run' = [id \in Ids |->
                      IF id \in gone
                      THEN [run[id] EXCEPT !.state = IF @ = "cancelling" THEN "cancelled"
                                                     ELSE "failed"]
                      ELSE run[id]]
        /\ s' = [s EXCEPT !.running = s.running - Cardinality(gone)] /\ now' = now /\ inst' = inst
    BY <1>5 DEF expire
  <2>2. \A id \in gone : run[id].state # "none"
    BY DEF Leased
  <2> HIDE DEF gone
  <2>3. \A id \in Ids : /\ run'[id].state # "none" => run[id].state # "none"
                        /\ run'[id].manual = run[id].manual /\ run'[id].tick = run[id].tick
    BY <1>1, <2>1, <2>2 DEF RunRow
  <2>4. NoneClaimed
    BY <2>3, SameRuns
  <2>5. Stays
    BY <1>1, <2>1, SlotsFreed
  <2> QED  BY <1>2, <2>1, <2>4, <2>5 DEF NoneRead, Quiet
<1> QED  BY <1>3, <1>4, <1>5

\* Ending a run or marking it says nothing of ticks.
LEMMA RunMarked ==
    ASSUME Rows, NEW id \in Ids, run[id].state # "none" \/ id \in Leased,
           NEW state, NEW live, run' = [run EXCEPT ![id].state = state, ![id].live = live]
    PROVE  NoneClaimed
<1>1. run[id].state # "none"
  BY DEF Leased
<1>2. \A x \in Ids : /\ run'[x].state # "none" => run[x].state # "none"
                     /\ run'[x].manual = run[x].manual /\ run'[x].tick = run[x].tick
  BY <1>1 DEF Rows, RunRow
<1> QED  BY <1>2, SameRuns

LEMMA CancellingClaimsNone == ASSUME Rows, NEW id \in Ids, Cancelling(id) PROVE NoneClaimed
<1>1. run' = run \/ run' = [run EXCEPT ![id].state = IF @ = "running" THEN "cancelling" ELSE @]
  BY DEF Cancelling
<1>2. \A x \in Ids : /\ run'[x].state # "none" => run[x].state # "none"
                     /\ run'[x].manual = run[x].manual /\ run'[x].tick = run[x].tick
  BY <1>1 DEF Rows, RunRow
<1> QED  BY <1>2, SameRuns

LEMMA HandlerKeepsGrid ==
    ASSUME Grid, Rows', NEW i \in Instances, NEW id \in Ids, Handler(i, id)
    PROVE  NoneClaimed /\ Quiet
<1>1. Rows /\ now \in now..MaxTime
  BY NullIsLast DEF Grid
<1>2. CASE finish(i, id)
  <2>1. now' = now /\ inst' = inst
    BY <1>2 DEF finish
  <2>2. CASE hand[i][id] # "lost" /\ id \in Leased
    <3>1. PICK ok \in BOOLEAN : EndRun(id, StateOf(hand[i][id], ok))
      BY <1>2, <2>2 DEF finish
    <3>2. s' = [s EXCEPT !.running = s.running - 1]
      BY <3>1 DEF EndRun
    <3>3. Stays
      BY <1>1, <3>2, SlotsFreed
    <3>4. NoneClaimed
      BY <1>1, <2>2, <3>1, RunMarked DEF EndRun
    <3> QED  BY <1>1, <2>1, <3>3, <3>4 DEF Quiet, NoneRead
  <2>3. CASE ~(hand[i][id] # "lost" /\ id \in Leased)
    <3>1. run' = run /\ s' = s
      BY <1>2, <2>3 DEF finish
    <3> QED  BY <1>1, <2>1, <3>1, SameTimes DEF Quiet, NoneRead, NoneClaimed
  <2> QED  BY <2>2, <2>3
<1>3. CASE FinishFails(i, id)
  <2>1. now' = now /\ inst' = inst /\ run' = run /\ s' = s
    BY <1>3 DEF FinishFails
  <2> QED  BY <1>1, <2>1, SameTimes DEF Quiet, NoneRead, NoneClaimed
<1>4. CASE Timeout(i, id) \/ DrainAborts(i, id)
  <2>1. now' = now /\ inst' = inst /\ s' = s /\ Cancelling(id)
    BY <1>4 DEF Timeout, DrainAborts
  <2>2. NoneClaimed
    BY <1>1, <2>1, CancellingClaimsNone
  <2> QED  BY <1>1, <2>1, <2>2, SameTimes DEF Quiet, NoneRead
<1> QED  BY <1>2, <1>3, <1>4 DEF Handler

LEMMA InstanceKeepsGrid ==
    ASSUME Grid, Rows', NEW i \in Instances,
           heartbeat(i) \/ Start(i) \/ Close(i) \/ Exit(i) \/ Crash(i)
    PROVE  NoneClaimed /\ Quiet
<1>1. Rows /\ now \in now..MaxTime
  BY NullIsLast DEF Grid
<1>2. s' = s /\ now' = now
  BY DEF heartbeat, Start, Close, Exit, Crash
<1>3. CASE heartbeat(i)
  <2>1. PICK kept : run' = [id \in Ids |-> IF id \in kept THEN [run[id] EXCEPT !.live = TRUE]
                                           ELSE run[id]]
    BY <1>3 DEF heartbeat
  <2>2. \A id \in Ids : /\ run'[id].state # "none" => run[id].state # "none"
                        /\ run'[id].manual = run[id].manual /\ run'[id].tick = run[id].tick
    BY <1>1, <2>1 DEF Rows, RunRow
  <2>3. NoneClaimed
    BY <2>2, SameRuns
  <2>4. inst' = inst
    BY <1>3 DEF heartbeat
  <2> QED  BY <1>1, <1>2, <2>3, <2>4, SameTimes DEF Quiet, NoneRead
<1>4. CASE Start(i) \/ Close(i) \/ Exit(i) \/ Crash(i)
  <2>1. run' = run
    BY <1>4 DEF Start, Close, Exit, Crash
  <2>2. NoneRead
    BY <1>1, <1>4 DEF Start, Close, Exit, Crash, NoneRead, Rows
  <2> QED  BY <1>1, <1>2, <2>1, <2>2, SameTimes DEF Quiet, NoneClaimed
<1> QED  BY <1>3, <1>4

LEMMA TimeKeepsGrid ==
    ASSUME Grid, Rows', Tick \/ UNCHANGED vars \/ \E id \in Ids : LapseUnbeaten(id) \/ LapseStalled(id)
    PROVE  NoneClaimed /\ Quiet
<1>1. Rows /\ now \in 0..MaxTime /\ now \in now..MaxTime
  BY NullIsLast DEF Grid
<1>2. s' = s /\ inst' = inst
  BY DEF Tick, vars, LapseUnbeaten, LapseStalled, Lapse
<1>3. CASE Tick \/ UNCHANGED vars
  <2>1. run' = run /\ now' \in now..MaxTime
    BY <1>1, <1>3, NullIsLast DEF Tick, vars
  <2> QED  BY <1>2, <2>1, SameTimes DEF Quiet, NoneRead, NoneClaimed
<1>4. ASSUME NEW id \in Ids, LapseUnbeaten(id) \/ LapseStalled(id) PROVE NoneClaimed /\ Quiet
  <2>1. run' = [run EXCEPT ![id].live = FALSE] /\ now' = now
    BY <1>4 DEF LapseUnbeaten, LapseStalled, Lapse
  <2>2. \A x \in Ids : /\ run'[x].state # "none" => run[x].state # "none"
                       /\ run'[x].manual = run[x].manual /\ run'[x].tick = run[x].tick
    BY <1>1, <2>1 DEF Rows, RunRow
  <2>3. NoneClaimed
    BY <2>2, SameRuns
  <2> QED  BY <1>1, <1>2, <2>1, <2>3, SameTimes DEF Quiet, NoneRead
<1> QED  BY <1>3, <1>4

\* A schedule that is given a new next_at, after now, starts over.
LEMMA TimesSet ==
    ASSUME Grid, NEW def \in Defs, NEW next, NEW enabled \in BOOLEAN,
           s' = [s EXCEPT !.def = def, !.next = next, !.enabled = enabled],
           \/ ~enabled /\ next = Null
           \/ /\ enabled
              /\ next = IF def.limit # NoLimit /\ s.runs >= def.limit THEN Null ELSE nextTick(def, now)
    PROVE  StartsOver
<1>1. now \in Int /\ now \in 0..MaxTime /\ s.runs \in Int /\ s \in ScheduleRow
  BY DEF Grid, Rows, ScheduleRow
<1>2. s'.def = def /\ s'.next = next /\ s'.runs = s.runs /\ s'.enabled = enabled
  BY <1>1 DEF ScheduleRow
<1>3. LET n == nextTick(def, now)
      IN  /\ n = Null \/ n > now
          /\ n # Null => Multiple(n, def) /\ n <= def.end
  BY <1>1, NextTickIs
<1>4. next = Null \/ next > now
  BY <1>3
<1>5. next # Null => /\ Multiple(next, def) /\ next <= def.end
                     /\ def.limit = NoLimit \/ s.runs < def.limit
  <2>1. def.limit \in Int
    BY DefinitionTypes
  <2> QED  BY <1>1, <1>3, <2>1
<1>6. OnGrid'
  BY <1>2, <1>5 DEF OnGrid
<1>7. LimitClaimed'
  <2> SUFFICES ASSUME def.limit # NoLimit, enabled, def.end = Never
               PROVE  next = Null <=> s.runs >= def.limit
    BY <1>2 DEF LimitClaimed
  <2>1. nextTick(def, now) # Null
    BY <1>1, EndlessTick
  <2> QED  BY <2>1
<1> QED  BY <1>2, <1>4, <1>6, <1>7 DEF StartsOver

LEMMA UpdateKeepsGrid ==
    ASSUME MaxLag = 0, Grid, Update
    PROVE  NoneClaimed /\ (Quiet \/ Restart)
<1>1. Rows /\ now \in 0..MaxTime /\ now \in now..MaxTime /\ now \in Int /\ s \in ScheduleRow
  BY NullIsLast DEF Grid, Rows
<1>2. PICK def \in Defs : upsert(def)
  BY DEF Update
<1>3. now' = now /\ run' = run /\ inst' = inst
  BY DEF Update
<1>4. NoneClaimed /\ NoneRead
  BY <1>3 DEF NoneClaimed, NoneRead
<1>5. PICK clock \in Max2(0, now - MaxLag)..now :
        s' = IF Timing(def) = Timing(s.def) THEN [s EXCEPT !.def = def]
             ELSE [s EXCEPT !.def = def,
                            !.next = IF ~s.enabled \/ (def.limit # NoLimit /\ s.runs >= def.limit)
                                     THEN Null ELSE nextTick(def, clock)]
  BY <1>2 DEF upsert
<1>6. clock = now
  BY <1>1 DEF Max2
<1>7. CASE Timing(def) = Timing(s.def)
  <2>1. s' = [s EXCEPT !.def = def]
    BY <1>5, <1>7
  <2>2. def.every = s.def.every /\ def.end = s.def.end /\ def.limit = s.def.limit
    BY <1>7 DEF Timing
  <2>3. Stays
    BY <1>1, <2>1, <2>2 DEF Stays, ScheduleRow
  <2> QED  BY <1>1, <1>3, <1>4, <2>3 DEF Quiet
<1>8. CASE Timing(def) # Timing(s.def)
  <2> DEFINE next == IF ~s.enabled \/ (def.limit # NoLimit /\ s.runs >= def.limit)
                     THEN Null ELSE nextTick(def, now)
  <2>1. s' = [s EXCEPT !.def = def, !.next = next]
    BY <1>5, <1>6, <1>8
  <2>2. \/ ~s.enabled /\ next = Null
        \/ /\ s.enabled
           /\ next = IF def.limit # NoLimit /\ s.runs >= def.limit THEN Null ELSE nextTick(def, now)
    BY <1>1 DEF ScheduleRow
  <2> HIDE DEF next
  <2>3. s' = [s EXCEPT !.def = def, !.next = next, !.enabled = s.enabled] /\ s.enabled \in BOOLEAN
    BY <1>1, <2>1 DEF ScheduleRow
  <2>4. StartsOver
    BY <2>2, <2>3, TimesSet
  <2> QED  BY <1>3, <1>4, <2>4 DEF Restart
<1> QED  BY <1>7, <1>8

LEMMA TriggerKeepsGrid == ASSUME Grid, trigger PROVE NoneClaimed /\ Quiet
<1> DEFINE state == IF s.running = 0 \/ s.def.overlap = "allow" THEN "pending" ELSE "skipped"
           new == [state |-> state, tick |-> 0, manual |-> TRUE, missed |-> 0, live |-> FALSE]
           taken == IF state = "pending" THEN s.running + 1 ELSE s.running
<1>1. Rows /\ now \in now..MaxTime
  BY NullIsLast DEF Grid
<1>2. /\ run' = [run EXCEPT ![NewId] = new] /\ s' = [s EXCEPT !.running = taken]
      /\ now' = now /\ inst' = inst
  BY DEF trigger, NewRun
<1>3. new.manual
  OBVIOUS
<1> HIDE DEF new, taken
<1>4. NoneClaimed
  BY <1>1, <1>2, <1>3 DEF NoneClaimed, Rows
<1>5. Stays
  BY <1>1, <1>2, SlotsFreed
<1> QED  BY <1>1, <1>2, <1>4, <1>5 DEF Quiet, NoneRead

LEMMA CancelKeepsGrid == ASSUME Grid, NEW id \in Ids, cancel(id) PROVE NoneClaimed /\ Quiet
<1>1. Rows /\ now \in now..MaxTime
  BY NullIsLast DEF Grid
<1>2. now' = now /\ inst' = inst /\ run[id].state # "none"
  BY DEF cancel
<1>3. CASE run[id].state = "pending"
  <2>1. EndRun(id, "cancelled")
    BY <1>3 DEF cancel
  <2>2. Stays
    <3>1. s' = [s EXCEPT !.running = s.running - 1]
      BY <2>1 DEF EndRun
    <3> QED  BY <1>1, <3>1, SlotsFreed
  <2>3. NoneClaimed
    BY <1>1, <1>2, <2>1, RunMarked DEF EndRun
  <2> QED  BY <1>1, <1>2, <2>2, <2>3 DEF Quiet, NoneRead
<1>4. CASE run[id].state # "pending"
  <2>1. run' = [run EXCEPT ![id].state = "cancelling"] /\ s' = s
    BY <1>4 DEF cancel
  <2>2. \A x \in Ids : /\ run'[x].state # "none" => run[x].state # "none"
                       /\ run'[x].manual = run[x].manual /\ run'[x].tick = run[x].tick
    BY <1>1, <1>2, <2>1 DEF Rows, RunRow
  <2>3. NoneClaimed
    BY <2>2, SameRuns
  <2> QED  BY <1>1, <1>2, <2>1, <2>3, SameTimes DEF Quiet, NoneRead
<1> QED  BY <1>3, <1>4

LEMMA OperatorsKeepGrid ==
    ASSUME MaxLag = 0, Grid, Operators
    PROVE  NoneClaimed /\ (Quiet \/ Restart)
<1>1. Rows /\ now \in now..MaxTime /\ s \in ScheduleRow /\ s.def \in Defs
  BY NullIsLast DEF Grid, Rows, ScheduleRow
<1>2. CASE Update
  BY <1>2, UpdateKeepsGrid
<1>3. CASE trigger
  BY <1>3, TriggerKeepsGrid
<1>4. CASE pause
  <2>1. s' = [s EXCEPT !.paused = ~s.paused] /\ now' = now /\ run' = run /\ inst' = inst
    BY <1>4 DEF pause
  <2>2. Stays
    BY <1>1, <2>1 DEF Stays, ScheduleRow
  <2> QED  BY <1>1, <2>1, <2>2 DEF Quiet, NoneRead, NoneClaimed
<1>5. CASE disable
  <2>1. now' = now /\ run' = run /\ inst' = inst
    BY <1>5 DEF disable
  <2>2. s' = [s EXCEPT !.def = s.def, !.next = Null, !.enabled = FALSE]
    BY <1>1, <1>5 DEF disable, ScheduleRow
  <2>3. StartsOver
    BY <1>1, <2>2, TimesSet
  <2> QED  BY <2>1, <2>3 DEF Restart, NoneClaimed
<1>6. CASE enable
  <2> DEFINE next == IF s.def.limit # NoLimit /\ s.runs >= s.def.limit THEN Null
                     ELSE nextTick(s.def, now)
  <2>1. now' = now /\ run' = run /\ inst' = inst
    BY <1>6 DEF enable
  <2>2. s' = [s EXCEPT !.enabled = TRUE, !.next = next]
    BY <1>6 DEF enable
  <2>3. next = IF s.def.limit # NoLimit /\ s.runs >= s.def.limit THEN Null
               ELSE nextTick(s.def, now)
    OBVIOUS
  <2> HIDE DEF next
  <2>4. s' = [s EXCEPT !.def = s.def, !.next = next, !.enabled = TRUE]
    BY <1>1, <2>2 DEF ScheduleRow
  <2>5. StartsOver
    BY <1>1, <2>3, <2>4, TimesSet
  <2> QED  BY <2>1, <2>5 DEF Restart, NoneClaimed
<1>7. ASSUME NEW id \in Ids, cancel(id) PROVE NoneClaimed /\ Quiet
  BY <1>7, CancelKeepsGrid
<1> QED  BY <1>2, <1>3, <1>4, <1>5, <1>6, <1>7 DEF Operators

-----------------------------------------------------------------------------
LEMMA GridInit == Init => Grid
<1> SUFFICES ASSUME Init PROVE Grid
  OBVIOUS
<1>1. Rows
  BY SlotsInit DEF Slots
<1>2. PICK def \in Defs :
        s = [def |-> def, next |-> nextTick(def, 0), runs |-> 0, running |-> 0,
             enabled |-> TRUE, paused |-> FALSE]
  BY DEF Init
<1>3. now = 0 /\ now \in 0..MaxTime
  BY NullIsLast DEF Init
<1>4. LET n == nextTick(def, 0)
      IN  n # Null => Multiple(n, def) /\ n <= def.end
  BY NextTickIs
<1>5. def.limit \in Nat \ {0}
  BY CronAssumption DEF Definition, NoLimit
<1>6. OnGrid
  BY <1>2, <1>4, <1>5 DEF OnGrid
<1>7. LimitClaimed
  <2> SUFFICES ASSUME def.end = Never PROVE nextTick(def, 0) # Null
    BY <1>2, <1>5 DEF LimitClaimed
  <2> QED  BY <1>3, EndlessTick
<1>8. Recorded /\ ReadBefore
  BY DEF Init, Recorded, ReadBefore, NoRun
<1> QED  BY <1>1, <1>3, <1>6, <1>7, <1>8 DEF Grid

\* A step claims nothing, or it is a claim; it keeps the schedule on its grid.
LEMMA GridStep ==
    ASSUME MaxLag = 0, Grid, [Next]_vars
    PROVE  Grid' /\ (NoneClaimed \/ \E i \in Instances : claim(i))
<1>1. Rows'
  <2>1. Rows
    BY DEF Grid
  <2>2. ASSUME NEW i \in Instances, Loop(i) PROVE Rows'
    BY <2>1, <2>2, LoopMoves DEF Moves
  <2>3. ASSUME NEW i \in Instances,
               heartbeat(i) \/ Start(i) \/ Close(i) \/ Exit(i) \/ Crash(i)
        PROVE Rows'
    BY <2>1, <2>3, InstanceMoves DEF Moves
  <2>4. ASSUME NEW i \in Instances, NEW id \in Ids, Handler(i, id) PROVE Rows'
    BY <2>1, <2>4, HandlerMoves DEF Moves
  <2>5. CASE Tick \/ UNCHANGED vars
    BY <2>1, <2>5 DEF Tick, vars, Rows
  <2>6. ASSUME NEW id \in Ids, LapseUnbeaten(id) \/ LapseStalled(id) PROVE Rows'
    BY <2>1, <2>6, LapseMoves DEF Moves
  <2>7. CASE Operators
    BY <2>1, <2>7, OperatorsMove DEF Moves
  <2> QED  BY <2>2, <2>3, <2>4, <2>5, <2>6, <2>7 DEF Next
<1>2. ASSUME NEW i \in Instances, claim(i) PROVE Grid'
  BY <1>1, <1>2, ClaimKeepsGrid
<1>3. ASSUME NEW i \in Instances, due(i) PROVE Grid' /\ NoneClaimed
  BY <1>1, <1>3, DueKeepsGrid
<1>4. ASSUME NoneClaimed /\ (Quiet \/ Restart) PROVE Grid'
  BY <1>1, <1>4, QuietKeepsGrid, RestartKeepsGrid
<1>5. ASSUME NEW i \in Instances, pickup(i) \/ expire(i) \/ ClaimRefused(i)
      PROVE NoneClaimed /\ Quiet
  BY <1>1, <1>5, LoopKeepsGrid
<1>6. ASSUME NEW i \in Instances,
             heartbeat(i) \/ Start(i) \/ Close(i) \/ Exit(i) \/ Crash(i)
      PROVE NoneClaimed /\ Quiet
  BY <1>1, <1>6, InstanceKeepsGrid
<1>7. ASSUME NEW i \in Instances, NEW id \in Ids, Handler(i, id) PROVE NoneClaimed /\ Quiet
  BY <1>1, <1>7, HandlerKeepsGrid
<1>8. CASE Tick \/ UNCHANGED vars \/ \E id \in Ids : LapseUnbeaten(id) \/ LapseStalled(id)
  BY <1>1, <1>4, <1>8, TimeKeepsGrid
<1>9. CASE Operators
  BY <1>4, <1>9, OperatorsKeepGrid
<1> QED  BY <1>2, <1>3, <1>4, <1>5, <1>6, <1>7, <1>8, <1>9 DEF Next, Loop

\* The rows that instances read and the ticks of the runs fit the schedule,
\* which is on its grid and within its limit, while upsert reads the clock
\* in the statement that decides on it.
THEOREM GridInvariant ==
    ASSUME MaxLag = 0
    PROVE  Spec => []Grid
<1>1. Grid /\ [Next]_vars => Grid'
  BY GridStep
<1> QED  BY <1>1, GridInit, PTL DEF Spec

\* A schedule claims as many ticks as its limit says, and then it ends.
THEOREM LimitClaimedHolds ==
    ASSUME MaxLag = 0
    PROVE  Spec => []LimitClaimed
<1>1. Grid => LimitClaimed
  BY DEF Grid
<1> QED  BY <1>1, GridInvariant, PTL

\* A claim accounts for every tick from the old next_at to the new one.
LEMMA ClaimRecords ==
    ASSUME Grid, NEW i \in Instances, claim(i), NEW id \in Ids,
           run[id].state = "none", run'[id].state # "none"
    PROVE  LET upto == IF s'.next # Null THEN s'.next - 1
                       ELSE IF s'.runs = s.def.limit THEN run'[id].tick
                       ELSE IF s.def.end < now THEN s.def.end ELSE now
           IN  run'[id].missed + 1 =
                   Cardinality({x \in s.next..upto : x % s.def.every = 0})
<1> DEFINE row == inst[i].row
           p == plan(row)
           upto == IF s'.next # Null THEN s'.next - 1
                   ELSE IF s'.runs = s.def.limit THEN run'[id].tick
                   ELSE IF s.def.end < now THEN s.def.end ELSE now
<1>1. /\ row \in ReadRow /\ Due(row) /\ row.next = s.next /\ row.dbNow <= now
      /\ row.runs = s.runs /\ Timing(row.def) = Timing(s.def) /\ s.next # Null
      /\ NewId \in Ids
      /\ s'.next = p.next /\ s'.runs = s.runs + 1
  BY ClaimIs
<1>2. PICK r : /\ r.tick = p.fire /\ r.missed = p.missed
               /\ run' = [run EXCEPT ![NewId] = r]
  BY ClaimIs
<1>3. /\ p.fire \in Int /\ row.next <= p.fire /\ p.fire <= row.dbNow /\ p.fire <= row.def.end
      /\ p.next # Null => p.next \in Int /\ p.next > p.fire
      /\ p.missed + 1 = Cardinality(TicksOf(row.def, row.next, p.fire))
      /\ p.next # Null => \A x \in Int : Multiple(x, row.def) /\ x > p.fire => x >= p.next
      /\ p.next = Null /\ ~Ending(row) =>
            \A x \in Int : Multiple(x, row.def) /\ x > p.fire => x > row.def.end
  BY <1>1, PlanIs
<1> HIDE DEF row, p
<1>4. id = NewId /\ run'[id].tick = p.fire /\ run'[id].missed = p.missed
  <2>1. run \in [Ids -> RunRow]
    BY DEF Grid, Rows
  <2> QED  BY <1>1, <1>2, <2>1
<1>5. /\ row.def.every = s.def.every /\ row.def.end = s.def.end /\ row.def.limit = s.def.limit
      /\ s.def \in Defs /\ s.next \in Int /\ s.runs \in Int /\ now \in Int /\ row.dbNow \in Int
  BY <1>1 DEF Timing, ReadRow, Grid, Rows, ScheduleRow
<1>6. s.def.end \in Int /\ s.def.limit \in Int
  BY <1>5, DefinitionTypes
\* The limit is reached by this claim, not before.
<1>7. Ending(row) => s'.runs = s.def.limit
  <2>1. s.def.limit = NoLimit \/ s.runs < s.def.limit
    BY <1>1 DEF Grid, OnGrid
  <2> QED  BY <1>1, <1>5, <1>6, <2>1 DEF Ending
<1>8. upto \in Int /\ p.fire <= upto
  <2>1. CASE p.next # Null
    BY <1>1, <1>3, <2>1
  <2>2. CASE p.next = Null
    BY <1>1, <1>3, <1>4, <1>5, <1>6, <2>2
  <2> QED  BY <2>1, <2>2
<1>9. ASSUME NEW x \in Int, Multiple(x, row.def), x > p.fire, x <= upto PROVE FALSE
  <2>1. CASE p.next # Null
    BY <1>1, <1>3, <1>9, <2>1
  <2>2. CASE p.next = Null /\ s'.runs = s.def.limit
    BY <1>1, <1>3, <1>4, <1>9, <2>2
  <2>3. CASE p.next = Null /\ s'.runs # s.def.limit
    <3>1. ~Ending(row)
      BY <1>7, <2>3
    <3>2. x > row.def.end
      BY <1>3, <1>9, <2>3, <3>1
    <3>3. upto <= s.def.end
      BY <1>1, <1>5, <1>6, <2>3
    <3> QED  BY <1>5, <1>6, <1>8, <1>9, <3>2, <3>3
  <2> QED  BY <2>1, <2>2, <2>3
<1> HIDE DEF upto
<1>10. TicksOf(row.def, row.next, p.fire) = {x \in s.next..upto : x % s.def.every = 0}
  <2>1. \A x \in Int : Multiple(x, row.def) <=> x % s.def.every = 0
    BY <1>5 DEF Multiple
  <2>2. \A x \in Int : x \in row.next..p.fire /\ Multiple(x, row.def)
                          <=> x \in s.next..upto /\ Multiple(x, row.def)
    <3> SUFFICES ASSUME NEW x \in Int, Multiple(x, row.def)
                 PROVE  x \in row.next..p.fire <=> x \in s.next..upto
      OBVIOUS
    <3>1. x > p.fire => ~(x <= upto)
      BY <1>9
    <3> QED  BY <1>1, <1>3, <1>5, <1>8, <3>1
  <2> QED  BY <1>1, <1>3, <1>5, <1>8, <2>1, <2>2 DEF TicksOf
<1> QED  BY <1>3, <1>4, <1>10 DEF upto

\* Every tick of the grid is recorded once, whichever instances claim, and
\* when operators change the schedule in between.
THEOREM EveryTickRecordedHolds ==
    ASSUME MaxLag = 0
    PROVE  Spec => EveryTickRecorded
<1> DEFINE Accounted ==
             \A id \in Ids :
                run[id].state = "none" /\ run'[id].state # "none" /\ ~run'[id].manual =>
                    LET upto == IF s'.next # Null THEN s'.next - 1
                                ELSE IF s'.runs = s.def.limit THEN run'[id].tick
                                ELSE IF s.def.end < now THEN s.def.end ELSE now
                    IN  run'[id].missed + 1 =
                            Cardinality({x \in s.next..upto : x % s.def.every = 0})
<1>1. Grid /\ [Next]_vars => Accounted
  <2> SUFFICES ASSUME Grid, [Next]_vars PROVE Accounted
    OBVIOUS
  <2>1. CASE NoneClaimed
    BY <2>1 DEF NoneClaimed
  <2>2. ASSUME NEW i \in Instances, claim(i) PROVE Accounted
    BY <2>2, ClaimRecords
  <2> QED  BY <2>1, <2>2, GridStep
<1> QED  BY <1>1, GridInvariant, PTL DEF Spec, EveryTickRecorded
=============================================================================
