--------------------------- MODULE MigrationProofs ---------------------------
(***************************************************************************)
(* Four safety properties of MigrationRunner, for every set of runners,    *)
(* every directory and every bound.  The watermark of a batched update     *)
(* never passes a row that was not updated; this needs no lock.  What was  *)
(* recorded as applied or superseded is never written again; this needs    *)
(* the lock: the holder alone writes, and what it has left to write was    *)
(* not settled when it took the lock, so it is not settled now.  A row     *)
(* that lets its file be deleted stands for a file of which nothing was    *)
(* committed: before the first commit that the end of the file may not     *)
(* follow, the row is marked as one that left something (Traced).  And     *)
(* where the files keep to Fitting, what is recorded as applied is in the  *)
(* database: each row, and each run in a file, counts as applied only      *)
(* statements whose effects stand, and no step undoes them (InPlace).      *)
(***************************************************************************)
EXTENDS MigrationRunner, SequenceTheorems, WellFoundedInduction, TLAPS

InFile == {"segment", "mark", "exec", "building", "ran", "finish"}
Holding == InFile \cup {"locked", "files"}

\* The fields of a run in each phase.
Unstarted(x) == x = [pc |-> x.pc, dir |-> x.dir, ignore |-> x.ignore]
Between(x) == x = [pc |-> "files", dir |-> x.dir, seen |-> x.seen, jumped |-> x.jumped,
                   todo |-> x.todo]
Within(x) == /\ x = [pc |-> x.pc, dir |-> x.dir, seen |-> x.seen, jumped |-> {},
                     todo |-> x.todo, file |-> x.file, at |-> x.at, attempt |-> x.attempt,
                     committed |-> x.committed, from |-> x.from, mark |-> x.mark]
             /\ x.file \in x.todo /\ x.file \in Files
RunShape(x) ==
    \/ x = Off
    \/ x.pc \in {"waiting", "locked"} /\ Unstarted(x)
    \/ x.pc = "files" /\ Between(x)
    \/ x.pc \in InFile /\ Within(x)

RowShape(x) ==
    \/ x = NoRow
    \/ /\ x = [status |-> x.status, single |-> x.single, sum |-> x.sum,
               applied |-> x.applied, uncertain |-> x.uncertain]
       /\ x.status \in {"running", "failed", "applied", "superseded"}

Shapes ==
    /\ history = [f \in Files |-> history[f]] /\ \A f \in Files : RowShape(history[f])
    /\ run = [r \in Runners |-> run[r]] /\ \A r \in Runners : RunShape(run[r])

\* The watermarks in the database, and those a runner goes on from.
Progressed ==
    /\ visited = [f \in Files |-> visited[f]]
    /\ data = [f \in Files |-> data[f]]
    /\ \A f \in Files : data[f] \in Nat /\ 1..data[f] \subseteq visited[f]
    /\ \A r \in Runners : run[r].pc \in InFile =>
          /\ run[r].mark \in Nat /\ 1..run[r].mark \subseteq visited[run[r].file]
          /\ run[r].from \in Nat /\ 1..run[r].from \subseteq visited[run[r].file]

\* The holder of the lock is alone, and has only open files left.
Exclusive ==
    \A r \in Runners :
        /\ run[r].pc \in Holding => lock = r
        /\ run[r].pc \in InFile \cup {"files"} =>
              \A f \in run[r].todo \cap Files : ~isSettled(history[f])
        /\ run[r].pc = "files" => run[r].todo \cap run[r].jumped = {}
        /\ run[r].pc \in InFile \ {"segment"} => history[run[r].file] # NoRow

Invariant == Shapes /\ Progressed /\ Exclusive
-----------------------------------------------------------------------------
LEMMA InitInvariant == Init => Invariant
  BY RunnerAssumption DEF Init, Invariant, Shapes, Progressed, Exclusive, RunShape, RowShape,
     Off, InFile, Holding

-----------------------------------------------------------------------------
(* A record that is changed keeps its shape.                                *)

LEMMA UnstartedGoes ==
    ASSUME NEW x, Unstarted(x), NEW p \in {"waiting", "locked"}
    PROVE  Unstarted([x EXCEPT !.pc = p]) /\ [x EXCEPT !.pc = p].pc = p
  BY DEF Unstarted

LEMMA BetweenShrinks ==
    ASSUME NEW x, Between(x), NEW S
    PROVE  LET y == [x EXCEPT !.jumped = S]
           IN Between(y) /\ y.pc = "files" /\ y.todo = x.todo /\ y.jumped = S
  BY DEF Between

\* A run that stays in its file.
Moved(x, y, pc, mark) ==
    Within(y) /\ y.file = x.file /\ y.todo = x.todo /\ y.from = x.from /\ y.pc = pc /\ y.mark = mark

LEMMA WithinMoves ==
    ASSUME NEW x, Within(x), NEW v
    PROVE   /\ Moved(x, [x EXCEPT !.pc = v], v, x.mark)
           /\ Moved(x, [x EXCEPT !.at = v], x.pc, x.mark)
           /\ Moved(x, [x EXCEPT !.attempt = v], x.pc, x.mark)
           /\ Moved(x, [x EXCEPT !.committed = v], x.pc, x.mark)
           /\ Moved(x, [x EXCEPT !.mark = v], x.pc, v)
<1>1. Moved(x, [x EXCEPT !.pc = v], v, x.mark)
  <2>1. [x EXCEPT !.pc = v] =
           [pc |-> v, dir |-> x.dir, seen |-> x.seen, jumped |-> {}, todo |-> x.todo,
            file |-> x.file, at |-> x.at, attempt |-> x.attempt, committed |-> x.committed,
            from |-> x.from, mark |-> x.mark]
    BY DEF Within
  <2> QED  BY <2>1 DEF Moved, Within
<1>2. Moved(x, [x EXCEPT !.at = v], x.pc, x.mark)
  <2>1. [x EXCEPT !.at = v] =
           [pc |-> x.pc, dir |-> x.dir, seen |-> x.seen, jumped |-> {}, todo |-> x.todo,
            file |-> x.file, at |-> v, attempt |-> x.attempt, committed |-> x.committed,
            from |-> x.from, mark |-> x.mark]
    BY DEF Within
  <2> QED  BY <2>1 DEF Moved, Within
<1>3. Moved(x, [x EXCEPT !.attempt = v], x.pc, x.mark)
  <2>1. [x EXCEPT !.attempt = v] =
           [pc |-> x.pc, dir |-> x.dir, seen |-> x.seen, jumped |-> {}, todo |-> x.todo,
            file |-> x.file, at |-> x.at, attempt |-> v, committed |-> x.committed,
            from |-> x.from, mark |-> x.mark]
    BY DEF Within
  <2> QED  BY <2>1 DEF Moved, Within
<1>4. Moved(x, [x EXCEPT !.committed = v], x.pc, x.mark)
  <2>1. [x EXCEPT !.committed = v] =
           [pc |-> x.pc, dir |-> x.dir, seen |-> x.seen, jumped |-> {}, todo |-> x.todo,
            file |-> x.file, at |-> x.at, attempt |-> x.attempt, committed |-> v,
            from |-> x.from, mark |-> x.mark]
    BY DEF Within
  <2> QED  BY <2>1 DEF Moved, Within
<1>5. Moved(x, [x EXCEPT !.mark = v], x.pc, v)
  <2>1. [x EXCEPT !.mark = v] =
           [pc |-> x.pc, dir |-> x.dir, seen |-> x.seen, jumped |-> {}, todo |-> x.todo,
            file |-> x.file, at |-> x.at, attempt |-> x.attempt, committed |-> x.committed,
            from |-> x.from, mark |-> v]
    BY DEF Within
  <2> QED  BY <2>1 DEF Moved, Within
<1> QED  BY <1>1, <1>2, <1>3, <1>4, <1>5

LEMMA WithinMovesTwice ==
    ASSUME NEW x, Within(x), NEW p, NEW a, NEW c, NEW i, NEW m
    PROVE   /\ Moved(x, [x EXCEPT !.at = i, !.attempt = a, !.committed = c], x.pc, x.mark)
           /\ Moved(x, [x EXCEPT !.pc = p, !.attempt = a], p, x.mark)
           /\ Moved(x, [x EXCEPT !.pc = p, !.at = i], p, x.mark)
           /\ Moved(x, [x EXCEPT !.pc = p, !.attempt = a, !.mark = m], p, m)
<1>1. Moved(x, [x EXCEPT !.at = i, !.attempt = a, !.committed = c], x.pc, x.mark)
  <2>1. PICK y1 : y1 = [x EXCEPT !.at = i]
    OBVIOUS
  <2>2. Moved(x, y1, x.pc, x.mark)
    BY <2>1, WithinMoves
  <2>3. Within(y1)
    BY <2>2 DEF Moved
  <2>4. PICK y2 : y2 = [y1 EXCEPT !.attempt = a]
    OBVIOUS
  <2>5. Moved(y1, y2, y1.pc, y1.mark)
    BY <2>4, <2>3, WithinMoves
  <2>6. Within(y2)
    BY <2>5 DEF Moved
  <2>7. PICK y3 : y3 = [y2 EXCEPT !.committed = c]
    OBVIOUS
  <2>8. Moved(y2, y3, y2.pc, y2.mark)
    BY <2>7, <2>6, WithinMoves
  <2>9. [x EXCEPT !.at = i, !.attempt = a, !.committed = c] = y3
    BY <2>1, <2>4, <2>7, Zenon
  <2> QED  BY <2>2, <2>5, <2>8, <2>9 DEF Moved
<1>2. Moved(x, [x EXCEPT !.pc = p, !.attempt = a], p, x.mark)
  <2>1. PICK y1 : y1 = [x EXCEPT !.pc = p]
    OBVIOUS
  <2>2. Moved(x, y1, p, x.mark)
    BY <2>1, WithinMoves
  <2>3. Within(y1)
    BY <2>2 DEF Moved
  <2>4. PICK y2 : y2 = [y1 EXCEPT !.attempt = a]
    OBVIOUS
  <2>5. Moved(y1, y2, y1.pc, y1.mark)
    BY <2>4, <2>3, WithinMoves
  <2>6. [x EXCEPT !.pc = p, !.attempt = a] = y2
    BY <2>1, <2>4, Zenon
  <2> QED  BY <2>2, <2>5, <2>6 DEF Moved
<1>3. Moved(x, [x EXCEPT !.pc = p, !.at = i], p, x.mark)
  <2>1. PICK y1 : y1 = [x EXCEPT !.pc = p]
    OBVIOUS
  <2>2. Moved(x, y1, p, x.mark)
    BY <2>1, WithinMoves
  <2>3. Within(y1)
    BY <2>2 DEF Moved
  <2>4. PICK y2 : y2 = [y1 EXCEPT !.at = i]
    OBVIOUS
  <2>5. Moved(y1, y2, y1.pc, y1.mark)
    BY <2>4, <2>3, WithinMoves
  <2>6. [x EXCEPT !.pc = p, !.at = i] = y2
    BY <2>1, <2>4, Zenon
  <2> QED  BY <2>2, <2>5, <2>6 DEF Moved
<1>4. Moved(x, [x EXCEPT !.pc = p, !.attempt = a, !.mark = m], p, m)
  <2>1. PICK y1 : y1 = [x EXCEPT !.pc = p]
    OBVIOUS
  <2>2. Moved(x, y1, p, x.mark)
    BY <2>1, WithinMoves
  <2>3. Within(y1)
    BY <2>2 DEF Moved
  <2>4. PICK y2 : y2 = [y1 EXCEPT !.attempt = a]
    OBVIOUS
  <2>5. Moved(y1, y2, y1.pc, y1.mark)
    BY <2>4, <2>3, WithinMoves
  <2>6. Within(y2)
    BY <2>5 DEF Moved
  <2>7. PICK y3 : y3 = [y2 EXCEPT !.mark = m]
    OBVIOUS
  <2>8. Moved(y2, y3, y2.pc, m)
    BY <2>7, <2>6, WithinMoves
  <2>9. [x EXCEPT !.pc = p, !.attempt = a, !.mark = m] = y3
    BY <2>1, <2>4, <2>7, Zenon
  <2> QED  BY <2>2, <2>5, <2>8, <2>9 DEF Moved
<1> QED  BY <1>1, <1>2, <1>3, <1>4

LEMMA RowMoves ==
    ASSUME NEW x, RowShape(x), x # NoRow, NEW v
    PROVE  /\ LET y == [x EXCEPT !.uncertain = v] IN RowShape(y) /\ y.status = x.status
           /\ LET y == [x EXCEPT !.applied = v] IN RowShape(y) /\ y.status = x.status
           /\ v \in {"failed", "applied"} => RowShape([x EXCEPT !.status = v])
<1> USE DEF RowShape
<1>1. [x EXCEPT !.uncertain = v] = [status |-> x.status, single |-> x.single, sum |-> x.sum,
                                    applied |-> x.applied, uncertain |-> v]
  OBVIOUS
<1>2. [x EXCEPT !.applied = v] = [status |-> x.status, single |-> x.single, sum |-> x.sum,
                                  applied |-> v, uncertain |-> x.uncertain]
  OBVIOUS
<1>3. [x EXCEPT !.status = v] = [status |-> v, single |-> x.single, sum |-> x.sum,
                                 applied |-> x.applied, uncertain |-> x.uncertain]
  OBVIOUS
<1> QED  BY <1>1, <1>2, <1>3

LEMMA BeginRowShape ==
    ASSUME Shapes, NEW f \in Files, NEW v, NEW a, NEW u
    PROVE  RowShape(beginRow(f, v, a, u)) /\ beginRow(f, v, a, u).status = "running"
<1>1. PICK new : new = RowOf(f, v, "running", a, u)
  OBVIOUS
<1>2. RowShape(new) /\ new.status = "running" /\ new # NoRow
  BY <1>1 DEF RowOf, RowShape, NoRow
<1>3. CASE history[f] = NoRow
  BY <1>1, <1>2, <1>3 DEF beginRow
<1>4. CASE history[f] # NoRow
  <2>1. PICK w : w = IF u = Null THEN history[f].uncertain ELSE new.uncertain
    OBVIOUS
  <2>2. PICK y : y = [new EXCEPT !.applied = history[f].applied]
    OBVIOUS
  <2>3. RowShape(y) /\ y.status = "running" /\ y # NoRow
    BY <1>2, <2>2, RowMoves DEF NoRow
  <2>4. PICK z : z = [y EXCEPT !.uncertain = w]
    OBVIOUS
  <2>5. RowShape(z) /\ z.status = "running"
    BY <2>3, <2>4, RowMoves
  <2>6. [new EXCEPT !.applied = history[f].applied, !.uncertain = w] = z
    BY <2>2, <2>4, Zenon
  <2>7. y.uncertain = new.uncertain
    BY <1>2, <2>2 DEF RowShape
  <2>8. beginRow(f, v, a, u) = z
    BY <1>1, <1>4, <2>1, <2>6, Zenon DEF beginRow
  <2> QED  BY <2>5, <2>8
<1> QED  BY <1>3, <1>4

LEMMA MarkFailedShape ==
    ASSUME Shapes, NEW f \in Files, NEW v, NEW a
    PROVE  RowShape(markFailed(f, v, a))
<1>1. CASE history[f] = NoRow
  BY <1>1 DEF markFailed, RowOf, RowShape
<1>2. CASE history[f] # NoRow
  <2>1. PICK y : y = [history[f] EXCEPT !.status = "failed"]
    OBVIOUS
  <2>2. RowShape(history[f])
    BY DEF Shapes
  <2>3. RowShape(y) /\ y.status = "failed" /\ y # NoRow
    BY <1>2, <2>1, <2>2, RowMoves DEF RowShape, NoRow
  <2>4. PICK z : z = [y EXCEPT !.applied = a]
    OBVIOUS
  <2>5. [history[f] EXCEPT !.status = "failed", !.applied = a] = z
    BY <2>1, <2>4, Zenon
  <2> QED  BY <1>2, <2>3, <2>4, <2>5, RowMoves DEF markFailed
<1> QED  BY <1>1, <1>2

-----------------------------------------------------------------------------
(* What every step has to show.                                             *)

\* A step of one run that may write one row.
OneRun(r, y) == RunShape(y) /\ run' = [run EXCEPT ![r] = y]
OneRow == \/ UNCHANGED history
          \/ \E f \in Files : \E row : RowShape(row) /\ history' = [history EXCEPT ![f] = row]

LEMMA StepShapes ==
    ASSUME Shapes, NEW r \in Runners, NEW y, OneRun(r, y), OneRow
    PROVE  /\ Shapes'
           /\ run'[r] = y /\ \A q \in Runners \ {r} : run'[q] = run[q]
<1>1. /\ run' = [q \in Runners |-> run'[q]]
      /\ run'[r] = y /\ \A q \in Runners \ {r} : run'[q] = run[q]
  BY DEF Shapes, OneRun
<1>2. \A q \in Runners : RunShape(run'[q])
  BY <1>1 DEF Shapes, OneRun
<1>3. history' = [f \in Files |-> history'[f]] /\ \A f \in Files : RowShape(history'[f])
  <2>1. CASE UNCHANGED history
    BY <2>1 DEF Shapes
  <2>2. CASE ~UNCHANGED history
    <3>1. PICK f \in Files : \E row : RowShape(row) /\ history' = [history EXCEPT ![f] = row]
      BY <2>2 DEF OneRow
    <3>0. PICK row : RowShape(row) /\ history' = [history EXCEPT ![f] = row]
      BY <3>1
    <3>2. history'[f] = row /\ \A g \in Files \ {f} : history'[g] = history[g]
      BY <3>0 DEF Shapes
    <3>3. history' = [g \in Files |-> history'[g]]
      BY <3>0 DEF Shapes
    <3> QED  BY <3>0, <3>2, <3>3 DEF Shapes
  <2> QED  BY <2>1, <2>2
<1> QED  BY <1>1, <1>2, <1>3 DEF Shapes

\* Watermarks only grow, and a run goes on from one that was reached.
LEMMA StepProgressed ==
    ASSUME Invariant, NEW r \in Runners, NEW y,
           run'[r] = y, \A q \in Runners \ {r} : run'[q] = run[q],
           UNCHANGED <<visited, data>>,
           y.pc \in InFile =>
              /\ y.mark \in Nat /\ 1..y.mark \subseteq visited[y.file]
              /\ y.from \in Nat /\ 1..y.from \subseteq visited[y.file]
    PROVE  Progressed'
  BY DEF Invariant, Progressed

\* The others hold no lock, or nothing they rely on moves.
LEMMA StepExclusive ==
    ASSUME Invariant, NEW r \in Runners, NEW y,
           run'[r] = y, \A q \in Runners \ {r} : run'[q] = run[q],
           \/ UNCHANGED <<history, lock>>
           \/ UNCHANGED history /\ lock = Free
           \/ UNCHANGED history /\ lock = r
           \/ run[r].pc \in Holding,
           y.pc \in Holding => lock' = r,
           y.pc \in InFile \cup {"files"} => \A f \in y.todo \cap Files : ~isSettled(history'[f]),
           y.pc = "files" => y.todo \cap y.jumped = {},
           y.pc \in InFile \ {"segment"} => history'[y.file] # NoRow
    PROVE  Exclusive'
<1>1. \A q \in Runners \ {r} : run[q].pc \in Holding => UNCHANGED <<history, lock>>
  BY RunnerAssumption DEF Invariant, Exclusive
<1>2. InFile \cup {"files"} \subseteq Holding
  BY DEF Holding, InFile
<1>3. ASSUME NEW q \in Runners
      PROVE  /\ run'[q].pc \in Holding => lock' = q
             /\ run'[q].pc \in InFile \cup {"files"} =>
                   \A f \in run'[q].todo \cap Files : ~isSettled(history'[f])
             /\ run'[q].pc = "files" => run'[q].todo \cap run'[q].jumped = {}
             /\ run'[q].pc \in InFile \ {"segment"} => history'[run'[q].file] # NoRow
  <2>1. CASE q = r
    BY <2>1
  <2>2. CASE q # r
    <3>1. run'[q] = run[q]
      BY <2>2
    <3>2. CASE run[q].pc \in Holding
      BY <1>1, <2>2, <3>1, <3>2 DEF Invariant, Exclusive
    <3>3. CASE run[q].pc \notin Holding
      BY <1>2, <3>1, <3>3
    <3> QED  BY <3>2, <3>3
  <2> QED  BY <2>1, <2>2
<1> QED  BY <1>3 DEF Exclusive

-----------------------------------------------------------------------------
(* The start and the end of a run.                                          *)

LEMMA StartInvariant ==
    ASSUME Invariant, NEW r \in Runners, Start(r)
    PROVE  Invariant'
<1>1. PICK y : /\ run' = [run EXCEPT ![r] = y]
               /\ y.pc = "waiting" /\ Unstarted(y)
  BY DEF Start, Goes, Unstarted
<1>2. OneRun(r, y) /\ OneRow
  BY <1>1 DEF OneRun, OneRow, RunShape, Start
<1>3. UNCHANGED <<history, visited, data, lock>>
  BY DEF Start, database
<1>4. y.pc \notin Holding \cup InFile \cup {"files"}
  BY <1>1 DEF Holding, InFile
<1> HIDE DEF Invariant
<1> QED  BY <1>1, <1>2, <1>3, <1>4, StepShapes, StepProgressed, StepExclusive DEF Invariant

LEMMA AcquireInvariant ==
    ASSUME Invariant, NEW r \in Runners, AcquireLock(r)
    PROVE  Invariant'
<1>1. PICK y : y = [run[r] EXCEPT !.pc = "locked"]
  OBVIOUS
<1>2. run' = [run EXCEPT ![r] = y]
  BY <1>1 DEF AcquireLock, Goes
<1>3. Unstarted(run[r])
  BY DEF AcquireLock, Invariant, Shapes, RunShape, Off, InFile
<1>4. y.pc = "locked" /\ Unstarted(y)
  BY <1>1, <1>3, UnstartedGoes
<1>5. OneRun(r, y) /\ OneRow
  BY <1>2, <1>4 DEF OneRun, OneRow, RunShape, AcquireLock
<1>6. UNCHANGED <<history, visited, data>> /\ lock = Free /\ lock' = r
  BY DEF AcquireLock, database
<1>7. y.pc \notin InFile \cup {"files"}
  BY <1>4 DEF InFile
<1> QED  BY <1>2, <1>5, <1>6, <1>7, StepShapes, StepProgressed, StepExclusive DEF Invariant

\* A run that ends, with what it writes last.
LEMMA EndInvariant ==
    ASSUME Invariant, NEW r \in Runners, run' = [run EXCEPT ![r] = Off],
           UNCHANGED <<visited, data>>, OneRow,
           \/ run[r].pc \in Holding
           \/ UNCHANGED history /\ (UNCHANGED lock \/ lock = r)
    PROVE  Invariant'
<1>1. OneRun(r, Off)
  BY DEF OneRun, RunShape
<1>2. Off.pc \notin Holding \cup InFile \cup {"files"}
  BY DEF Off, Holding, InFile
<1> QED  BY <1>1, <1>2, StepShapes, StepProgressed, StepExclusive DEF Invariant

LEMMA GiveUpInvariant ==
    ASSUME Invariant, NEW r \in Runners, GiveUp(r)
    PROVE  Invariant'
  BY EndInvariant DEF GiveUp, Goes, database, OneRow

LEMMA FinishInvariant ==
    ASSUME Invariant, NEW r \in Runners, Finish(r)
    PROVE  Invariant'
  BY EndInvariant DEF Finish, Leave, Goes, database, OneRow, Holding

LEMMA CrashInvariant ==
    ASSUME Invariant, NEW r \in Runners, Crash(r)
    PROVE  Invariant'
<1>1. run' = [run EXCEPT ![r] = Off] /\ UNCHANGED <<history, visited, data>>
  BY DEF Crash, Goes
<1>2. run[r].pc \in Holding \/ UNCHANGED lock \/ lock = r
  BY DEF Crash, Holding, InFile
<1> QED  BY <1>1, <1>2, EndInvariant DEF OneRow

LEMMA ReconcileInvariant ==
    ASSUME Invariant, NEW r \in Runners, Reconcile(r)
    PROVE  Invariant'
<1> DEFINE jumped == Superseded(history, run[r].dir, run[r].ignore)
           pending == {f \in Files : run[r].dir[f] # Absent /\ ~isSettled(history[f])}
<1>1. run[r].pc = "locked" /\ run[r].pc \in Holding /\ UNCHANGED <<history, visited, data>>
  BY DEF Reconcile, database, Holding
<1>2. CASE Drifted(history, run[r].dir)
  BY <1>1, <1>2, EndInvariant DEF Reconcile, Leave, Goes, OneRow
<1>3. CASE ~Drifted(history, run[r].dir)
  <2>1. PICK y : y = [pc |-> "files", dir |-> run[r].dir, seen |-> history,
                      jumped |-> jumped, todo |-> pending \ jumped]
    OBVIOUS
  <2>2. run' = [run EXCEPT ![r] = y] /\ UNCHANGED lock
    BY <1>3, <2>1 DEF Reconcile, Goes
  <2>3. /\ y.pc = "files" /\ Between(y)
        /\ y.todo \subseteq pending /\ y.todo \cap y.jumped = {}
    BY <2>1 DEF Between
  <2>4. y.pc \notin InFile /\ \A f \in y.todo : ~isSettled(history'[f])
    BY <1>1, <2>3 DEF InFile
  <2>5. OneRun(r, y) /\ OneRow
    BY <1>1, <2>2, <2>3 DEF OneRun, RunShape, OneRow
  <2>6. lock' = r
    BY <1>1, <2>2 DEF Invariant, Exclusive
  <2> HIDE DEF jumped, pending
  <2> QED  BY <1>1, <2>2, <2>3, <2>4, <2>5, <2>6, StepShapes, StepProgressed, StepExclusive
           DEF Invariant
<1> QED  BY <1>2, <1>3

LEMMA RecordSupersededInvariant ==
    ASSUME Invariant, NEW r \in Runners, RecordSuperseded(r)
    PROVE  Invariant'
<1>1. PICK f \in run[r].jumped :
         /\ Write(f, IF history[f] = NoRow THEN RowOf(f, run[r].dir[f], "superseded", 0, Null)
                     ELSE history[f])
         /\ Goes(r, [run[r] EXCEPT !.jumped = @ \ {f}])
  BY DEF RecordSuperseded
<1>2. run[r].pc = "files" /\ run[r].pc \in Holding /\ UNCHANGED <<visited, data, lock>>
  BY DEF RecordSuperseded, database, Holding
<1>3. Between(run[r]) /\ run[r].todo \cap run[r].jumped = {}
  BY <1>2 DEF Invariant, Shapes, Exclusive, RunShape, Off, InFile
<1>4. PICK y : y = [run[r] EXCEPT !.jumped = run[r].jumped \ {f}]
  OBVIOUS
<1>5. Between(y) /\ y.pc = "files" /\ y.todo = run[r].todo /\ y.jumped = run[r].jumped \ {f}
  BY <1>3, <1>4, BetweenShrinks
<1>6. OneRun(r, y)
  BY <1>1, <1>4, <1>5 DEF Goes, OneRun, RunShape
<1>7. PICK row : row = IF history[f] = NoRow THEN RowOf(f, run[r].dir[f], "superseded", 0, Null)
                       ELSE history[f]
  OBVIOUS
<1>8. history' = [history EXCEPT ![f] = row]
  BY <1>1, <1>7 DEF Write
<1>9. OneRow
  <2>1. CASE f \in Files
    BY <1>7, <1>8, <2>1 DEF OneRow, RowShape, RowOf, Invariant, Shapes
  <2>2. CASE f \notin Files
    BY <1>8, <2>2 DEF OneRow, Invariant, Shapes
  <2> QED  BY <2>1, <2>2
<1>10. \A g \in run[r].todo \cap Files : history'[g] = history[g]
  BY <1>3, <1>8 DEF Invariant, Shapes
<1>11. \A g \in y.todo \cap Files : ~isSettled(history'[g])
  BY <1>2, <1>5, <1>10 DEF Invariant, Exclusive
<1>12. y.pc \notin InFile /\ lock' = r /\ y.todo \cap y.jumped = {}
  BY <1>2, <1>3, <1>5 DEF InFile, Invariant, Exclusive
<1> QED  BY <1>2, <1>6, <1>9, <1>11, <1>12, StepShapes, StepProgressed, StepExclusive
         DEF Invariant

-----------------------------------------------------------------------------
(* A file.                                                                  *)

LEMMA InFileFacts ==
    ASSUME Invariant, NEW r \in Runners, run[r].pc \in InFile
    PROVE  /\ Within(run[r]) /\ run[r].pc \in Holding /\ lock = r
           /\ run[r].file \in Files /\ ~isSettled(history[run[r].file])
  BY DEF Invariant, Shapes, Exclusive, RunShape, Off, InFile, Holding, Within

\* A run begins a file: it has its row unless it runs in one transaction.
LEMMA BeginInvariant ==
    ASSUME Invariant, NEW r \in Runners, NEW f \in Files, Begins(r, f),
           NEW y, run' = [run EXCEPT ![r] = y],
           Within(y), y.file = f, y.todo = run[r].todo, y.pc \in InFile,
           y.mark \in {0, data[f]}, y.from \in {0, data[f]},
           UNCHANGED <<visited, data, lock>>,
           NEW row, RowShape(row), row.status = "running",
           \/ y.pc = "segment" /\ UNCHANGED history
           \/ history' = [history EXCEPT ![f] = row]
    PROVE  Invariant'
<1>1. run[r].pc = "files" /\ run[r].pc \in Holding
  BY DEF Begins, Holding
<1>2. OneRun(r, y) /\ OneRow
  BY DEF OneRun, RunShape, OneRow
<1>3. Shapes' /\ run'[r] = y /\ \A q \in Runners \ {r} : run'[q] = run[q]
  BY <1>2, StepShapes DEF Invariant
<1>4. /\ y.mark \in Nat /\ 1..y.mark \subseteq visited[y.file]
      /\ y.from \in Nat /\ 1..y.from \subseteq visited[y.file]
  BY DEF Invariant, Progressed
<1>5. \A g \in y.todo \cap Files : ~isSettled(history'[g])
  <2>1. \A g \in y.todo \cap Files : ~isSettled(history[g])
    BY <1>1 DEF Invariant, Exclusive
  <2> QED  BY <2>1 DEF isSettled, Invariant, Shapes
<1>6. y.pc \in InFile \ {"segment"} => history'[y.file] # NoRow
  BY DEF Invariant, Shapes, NoRow
<1>7. y.pc # "files" /\ lock' = r
  BY <1>1 DEF InFile, Invariant, Exclusive
<1>8. Progressed'
  BY <1>3, <1>4, StepProgressed
<1>9. Exclusive'
  BY <1>1, <1>3, <1>5, <1>6, <1>7, StepExclusive
<1> QED  BY <1>3, <1>8, <1>9 DEF Invariant

\* A run goes on in its file.
LEMMA FileInvariant ==
    ASSUME Invariant, NEW r \in Runners, run[r].pc \in InFile,
           NEW y, NEW p \in InFile, NEW m, Moved(run[r], y, p, m), run' = [run EXCEPT ![r] = y],
           m \in {run[r].mark, run[r].from},
           run[r].pc = "segment" <=> p = "segment",
           UNCHANGED <<visited, data, lock>>,
           \/ UNCHANGED history
           \/ \E row : /\ RowShape(row) /\ row.status = history[run[r].file].status
                       /\ row # NoRow /\ history' = [history EXCEPT ![run[r].file] = row]
    PROVE  Invariant'
<1>1. /\ Within(run[r]) /\ run[r].pc \in Holding /\ lock = r
      /\ run[r].file \in Files
  BY InFileFacts
<1>2. /\ Within(y) /\ y.file = run[r].file /\ y.todo = run[r].todo /\ y.from = run[r].from
      /\ y.pc = p /\ y.mark = m
  BY DEF Moved
<1>3. OneRun(r, y) /\ OneRow
  BY <1>1, <1>2 DEF OneRun, RunShape, OneRow
<1>4. Shapes' /\ run'[r] = y /\ \A q \in Runners \ {r} : run'[q] = run[q]
  BY <1>3, StepShapes DEF Invariant
<1>5. /\ y.mark \in Nat /\ 1..y.mark \subseteq visited[y.file]
      /\ y.from \in Nat /\ 1..y.from \subseteq visited[y.file]
  BY <1>2 DEF Invariant, Progressed
<1>6. \A g \in y.todo \cap Files : ~isSettled(history'[g])
  <2>1. \A g \in y.todo \cap Files : ~isSettled(history[g])
    BY <1>2 DEF Invariant, Exclusive
  <2> QED  BY <1>1, <2>1 DEF isSettled, Invariant, Shapes
<1>7. y.pc \in InFile \ {"segment"} => history'[y.file] # NoRow
  <2>1. y.pc # "segment" => history[run[r].file] # NoRow
    BY <1>2 DEF Invariant, Exclusive
  <2> QED  BY <1>1, <1>2, <2>1 DEF Invariant, Shapes
<1>8. y.pc # "files" /\ lock' = r
  BY <1>1, <1>2 DEF InFile
<1>9. Progressed'
  BY <1>4, <1>5, StepProgressed
<1>10. Exclusive'
  BY <1>1, <1>4, <1>6, <1>7, <1>8, StepExclusive
<1> QED  BY <1>4, <1>9, <1>10 DEF Invariant

\* A run has recorded its file and goes on to the next one.
LEMMA NextFileInvariant ==
    ASSUME Invariant, NEW r \in Runners, run[r].pc \in InFile, NextFile(r),
           NEW row, RowShape(row), Write(run[r].file, row),
           UNCHANGED <<visited, data, lock>>
    PROVE  Invariant'
<1>1. run[r].pc \in Holding /\ lock = r /\ run[r].file \in Files
  BY InFileFacts
<1>2. PICK y : y = [pc |-> "files", dir |-> run[r].dir, seen |-> run[r].seen, jumped |-> {},
                    todo |-> run[r].todo \ {run[r].file}]
  OBVIOUS
<1>3. /\ Between(y) /\ y.pc = "files" /\ y.jumped = {}
      /\ y.todo = run[r].todo \ {run[r].file}
  BY <1>2 DEF Between
<1>4. OneRun(r, y) /\ OneRow
  BY <1>1, <1>2, <1>3 DEF OneRun, RunShape, OneRow, NextFile, Goes, Current, Write
<1>5. Shapes' /\ run'[r] = y /\ \A q \in Runners \ {r} : run'[q] = run[q]
  BY <1>4, StepShapes DEF Invariant
<1>6. \A g \in y.todo \cap Files : history'[g] = history[g] /\ ~isSettled(history[g])
  BY <1>3 DEF Invariant, Exclusive, Shapes, Write
<1>7. y.pc \notin InFile /\ lock' = r
  BY <1>1, <1>3 DEF InFile
<1>8. Progressed'
  BY <1>5, <1>7, StepProgressed
<1>9. Exclusive'
  BY <1>1, <1>3, <1>5, <1>6, <1>7, StepExclusive
<1> QED  BY <1>5, <1>8, <1>9 DEF Invariant

LEMMA BeginSegmentsInvariant ==
    ASSUME Invariant, NEW r \in Runners, NEW f \in Files, BeginSegments(r, f)
    PROVE  Invariant'
<1>1. PICK c : /\ Goes(r, [At(r, f, "segment", 1) EXCEPT !.committed = c])
               /\ \/ UNCHANGED history
                  \/ Write(f, beginRow(f, run[r].dir[f], c, c))
  BY DEF BeginSegments
<1>2. PICK x : x = At(r, f, "segment", 1)
  OBVIOUS
<1>3. Within(x) /\ x.pc = "segment" /\ x.file = f /\ x.todo = run[r].todo /\ x.from = 0 /\ x.mark = 0
  BY <1>2 DEF At, Within, BeginSegments, Begins, First
<1>4. PICK y : y = [x EXCEPT !.committed = c]
  OBVIOUS
<1>5. Moved(x, y, x.pc, x.mark)
  BY <1>3, <1>4, WithinMoves
<1>6. /\ Within(y) /\ y.pc = "segment" /\ y.pc \in InFile /\ y.file = f /\ y.todo = run[r].todo
      /\ y.from = 0 /\ y.mark = 0
  BY <1>3, <1>5 DEF Moved, InFile
<1>7. PICK row : row = beginRow(f, run[r].dir[f], c, c)
  OBVIOUS
<1>8. RowShape(row) /\ row.status = "running"
  BY <1>7, BeginRowShape DEF Invariant
<1>9. run' = [run EXCEPT ![r] = y] /\ (UNCHANGED history \/ history' = [history EXCEPT ![f] = row])
  BY <1>1, <1>2, <1>4, <1>7 DEF Goes, Write
<1>10. Begins(r, f) /\ UNCHANGED <<visited, data, lock>>
  BY DEF BeginSegments, database
<1>11. y.mark \in {0, data[f]} /\ y.from \in {0, data[f]}
  BY <1>6
<1>12. run' = [run EXCEPT ![r] = y]
  BY <1>9
<1>13. CASE UNCHANGED history
  <2>1. y.pc = "segment" /\ UNCHANGED history
    BY <1>6, <1>13
  <2> QED  BY <1>6, <1>8, <1>10, <1>11, <1>12, <2>1, BeginInvariant
<1>14. CASE history' = [history EXCEPT ![f] = row]
  BY <1>6, <1>8, <1>10, <1>11, <1>12, <1>14, BeginInvariant
<1> QED  BY <1>9, <1>13, <1>14

LEMMA BeginBareInvariant ==
    ASSUME Invariant, NEW r \in Runners, NEW f \in Files, BeginBare(r, f)
    PROVE  Invariant'
<1>1. PICK p, c : /\ c = resumeFrom(run[r].seen[f])
                  /\ p = Following(ContentOf(f, run[r].dir[f]), c)
  OBVIOUS
<1>2. p \in {"mark", "finish"}
  BY <1>1 DEF Following
<1>3. /\ Goes(r, [At(r, f, p, c) EXCEPT !.from = data[f], !.mark = data[f]])
      /\ Write(f, beginRow(f, run[r].dir[f], c, Null))
  BY <1>1, Zenon DEF BeginBare
<1>4. PICK d : d = data[f]
  OBVIOUS
<1>5. PICK x : x = At(r, f, p, c)
  OBVIOUS
<1>6. PICK y : y = [x EXCEPT !.from = d, !.mark = d]
  OBVIOUS
<1>7. y = [pc |-> p, dir |-> run[r].dir, seen |-> run[r].seen, jumped |-> {},
           todo |-> run[r].todo, file |-> f, at |-> c, attempt |-> 1, committed |-> 0,
           from |-> d, mark |-> d]
  <2>1. PICK z : z = [x EXCEPT !.from = d]
    OBVIOUS
  <2>2. z = [pc |-> p, dir |-> run[r].dir, seen |-> run[r].seen, jumped |-> {},
             todo |-> run[r].todo, file |-> f, at |-> c, attempt |-> 1, committed |-> 0,
             from |-> d, mark |-> 0]
    BY <1>5, <2>1 DEF At
  <2>3. y = [z EXCEPT !.mark = d]
    BY <1>6, <2>1, Zenon
  <2> QED  BY <2>2, <2>3
<1>8. Begins(r, f) /\ UNCHANGED <<visited, data, lock>>
  BY DEF BeginBare, database
<1>9. /\ Within(y) /\ y.pc \in InFile /\ y.file = f /\ y.todo = run[r].todo
      /\ y.from = d /\ y.mark = d
  BY <1>2, <1>7, <1>8 DEF Within, InFile, Begins, First
<1>10. PICK row : row = beginRow(f, run[r].dir[f], c, Null)
  OBVIOUS
<1>11. RowShape(row) /\ row.status = "running"
  BY <1>10, BeginRowShape DEF Invariant
<1>12. run' = [run EXCEPT ![r] = y] /\ history' = [history EXCEPT ![f] = row]
  BY <1>3, <1>4, <1>5, <1>6, <1>10 DEF Goes, Write
<1> QED  BY <1>4, <1>8, <1>9, <1>11, <1>12, BeginInvariant

LEMMA CommitSegmentInvariant ==
    ASSUME Invariant, NEW r \in Runners, CommitSegment(r)
    PROVE  Invariant'
<1>1. run[r].pc = "segment" /\ run[r].pc \in InFile /\ UNCHANGED <<visited, data, lock>>
  BY DEF CommitSegment, InFile
<1>2. Within(run[r]) /\ run[r].file \in Files
  BY <1>1, InFileFacts
<1>3. PICK row : row = recordApplied(run[r].file, Version(r))
  OBVIOUS
<1>4. RowShape(row)
  BY <1>3 DEF recordApplied, RowOf, RowShape
<1>5. CASE NextFile(r) /\ Write(run[r].file, row)
  BY <1>1, <1>4, <1>5, NextFileInvariant
<1>6. CASE Goes(r, [run[r] EXCEPT !.at = run[r].at + 1]) /\ UNCHANGED history
  <2>1. PICK i : i = run[r].at + 1
    OBVIOUS
  <2>2. PICK y : y = [run[r] EXCEPT !.at = i]
    OBVIOUS
  <2>3. Moved(run[r], y, "segment", run[r].mark)
    BY <1>1, <1>2, <2>2, WithinMoves
  <2>4. run' = [run EXCEPT ![r] = y]
    BY <1>6, <2>1, <2>2 DEF Goes
  <2> QED  BY <1>1, <1>6, <2>3, <2>4, FileInvariant
<1> QED  BY <1>3, <1>5, <1>6, Zenon DEF CommitSegment, Current

LEMMA FailSegmentInvariant ==
    ASSUME Invariant, NEW r \in Runners, FailSegment(r)
    PROVE  Invariant'
<1>1. run[r].pc = "segment" /\ run[r].pc \in InFile /\ UNCHANGED <<visited, data>>
  BY DEF FailSegment, InFile, database
<1>2. Within(run[r]) /\ run[r].pc \in Holding /\ run[r].file \in Files
  BY <1>1, InFileFacts
<1>3. PICK c : \/ /\ Goes(r, [run[r] EXCEPT !.at = 1, !.attempt = run[r].attempt + 1, !.committed = c])
                  /\ UNCHANGED <<history, lock>>
               \/ Write(run[r].file, markFailed(run[r].file, Version(r), c)) /\ Leave(r)
  BY Zenon DEF FailSegment, Current
<1>4. CASE Write(run[r].file, markFailed(run[r].file, Version(r), c)) /\ Leave(r)
  <2>1. RowShape(markFailed(run[r].file, Version(r), c))
    BY <1>2, MarkFailedShape DEF Invariant
  <2> QED  BY <1>1, <1>2, <1>4, <2>1, EndInvariant DEF Leave, Goes, Write, OneRow
<1>5. CASE /\ Goes(r, [run[r] EXCEPT !.at = 1, !.attempt = run[r].attempt + 1, !.committed = c])
           /\ UNCHANGED <<history, lock>>
  <2>1. PICK a, i : a = run[r].attempt + 1 /\ i = 1
    OBVIOUS
  <2>2. PICK y : y = [run[r] EXCEPT !.at = i, !.attempt = a, !.committed = c]
    OBVIOUS
  <2>3. Moved(run[r], y, run[r].pc, run[r].mark)
    BY <1>2, <2>2, WithinMovesTwice, Zenon
  <2>4. run' = [run EXCEPT ![r] = y]
    BY <1>5, <2>1, <2>2 DEF Goes
  <2> QED  BY <1>1, <1>5, <2>3, <2>4, FileInvariant
<1> QED  BY <1>3, <1>4, <1>5

LEMMA MarkUncertainInvariant ==
    ASSUME Invariant, NEW r \in Runners, MarkUncertain(r)
    PROVE  Invariant'
<1>1. /\ run[r].pc = "mark" /\ run[r].pc \in InFile /\ "exec" \in InFile
      /\ UNCHANGED <<visited, data, lock>>
  BY DEF MarkUncertain, InFile, database
<1>2. /\ Within(run[r]) /\ run[r].file \in Files /\ RowShape(history[run[r].file])
      /\ history[run[r].file] # NoRow
  BY <1>1, InFileFacts DEF Invariant, Shapes, Exclusive
<1>3. PICK row : row = [history[run[r].file] EXCEPT !.uncertain = run[r].at]
  OBVIOUS
<1>4. RowShape(row) /\ row.status = history[run[r].file].status /\ row # NoRow
  BY <1>2, <1>3, RowMoves DEF RowShape, NoRow
<1>5. history' = [history EXCEPT ![run[r].file] = row]
  BY <1>3 DEF MarkUncertain, Write, Current
<1>6. PICK y : y = [run[r] EXCEPT !.pc = "exec", !.attempt = 1]
  OBVIOUS
<1>7. Moved(run[r], y, "exec", run[r].mark)
  BY <1>2, <1>6, WithinMovesTwice, Zenon
<1>8. run' = [run EXCEPT ![r] = y]
  BY <1>6 DEF MarkUncertain, Goes
<1> QED  BY <1>1, <1>4, <1>5, <1>7, <1>8, FileInvariant

\* A statement that only moves the program counter.
LEMMA ExecutesInvariant ==
    ASSUME Invariant, NEW r \in Runners, Execute(r) \/ StartBuild(r) \/ EndBuild(r)
    PROVE  Invariant'
<1>1. PICK p \in {"ran", "building"} :
         /\ run[r].pc \in {"exec", "building"}
         /\ Goes(r, [run[r] EXCEPT !.pc = p])
         /\ UNCHANGED <<history, visited, data, lock>>
  BY DEF Execute, StartBuild, EndBuild
<1>2. run[r].pc \in InFile /\ p \in InFile /\ p # "segment"
  BY <1>1 DEF InFile
<1>3. Within(run[r])
  BY <1>2, InFileFacts
<1>4. PICK y : y = [run[r] EXCEPT !.pc = p]
  OBVIOUS
<1>5. Moved(run[r], y, p, run[r].mark)
  BY <1>3, <1>4, WithinMoves
<1> QED  BY <1>1, <1>2, <1>4, <1>5, FileInvariant DEF Goes

\* A batch commits the row after the watermark with the watermark.
LEMMA BatchInvariant ==
    ASSUME Invariant, NEW r \in Runners, Batch(r)
    PROVE  Invariant'
<1>1. run[r].pc = "exec" /\ run[r].pc \in InFile /\ UNCHANGED <<history, lock>>
  BY DEF Batch, InFile
<1>2. Within(run[r]) /\ run[r].file \in Files /\ run[r].pc \in Holding /\ lock = r
  BY <1>1, InFileFacts
<1>3. PICK f, k, n : f = run[r].file /\ k = run[r].mark /\ n = k + 1
  OBVIOUS
<1>4. /\ f \in Files /\ k \in Nat /\ 1..k \subseteq visited[f]
      /\ run[r].from \in Nat /\ 1..run[r].from \subseteq visited[f]
  BY <1>1, <1>2, <1>3 DEF Invariant, Progressed
<1>5. PICK y, m, p : /\ Moved(run[r], y, p, m) /\ p \in {"exec", "ran"}
                     /\ run' = [run EXCEPT ![r] = y] /\ data' = [data EXCEPT ![f] = m]
                     /\ \/ m = n /\ visited' = [visited EXCEPT ![f] = @ \cup {n}]
                        \/ m = k /\ visited' = visited
  <2>1. CASE n <= Script(r).rows
    <3>1. PICK y : y = [run[r] EXCEPT !.mark = n]
      OBVIOUS
    <3>2. Moved(run[r], y, "exec", n)
      BY <1>1, <1>2, <3>1, WithinMoves
    <3> QED  BY <1>3, <2>1, <3>1, <3>2 DEF Batch, Goes, Current
  <2>2. CASE ~(n <= Script(r).rows)
    <3>1. PICK y : y = [run[r] EXCEPT !.pc = "ran"]
      OBVIOUS
    <3>2. Moved(run[r], y, "ran", k)
      BY <1>2, <1>3, <3>1, WithinMoves
    <3> QED  BY <1>3, <2>2, <3>1, <3>2 DEF Batch, Goes, Current
  <2> QED  BY <2>1, <2>2
<1>6. /\ Within(y) /\ y.file = f /\ y.todo = run[r].todo /\ y.from = run[r].from
      /\ y.pc = p /\ y.mark = m /\ p \in InFile /\ p \notin {"files", "segment"}
  BY <1>3, <1>5 DEF Moved, InFile
<1>7. OneRun(r, y) /\ OneRow
  BY <1>1, <1>5, <1>6 DEF OneRun, RunShape, OneRow
<1>8. Shapes' /\ run'[r] = y /\ \A q \in Runners \ {r} : run'[q] = run[q]
  BY <1>7, StepShapes DEF Invariant
<1>9. Progressed'
  <2>1. /\ visited' = [g \in Files |-> visited'[g]] /\ data' = [g \in Files |-> data'[g]]
        /\ data'[f] = m /\ \A g \in Files \ {f} : data'[g] = data[g] /\ visited'[g] = visited[g]
        /\ visited[f] \subseteq visited'[f]
    BY <1>4, <1>5 DEF Invariant, Progressed
  <2>2. m \in Nat /\ 1..m \subseteq visited'[f]
    <3>1. CASE m = n /\ visited' = [visited EXCEPT ![f] = @ \cup {n}]
      <4>1. visited'[f] = visited[f] \cup {n}
        BY <1>4, <3>1 DEF Invariant, Progressed
      <4>2. 1..n = 1..k \cup {n}
        BY <1>3, <1>4
      <4> QED  BY <1>3, <1>4, <3>1, <4>1, <4>2
    <3>2. CASE m = k /\ visited' = visited
      BY <1>4, <3>2
    <3> QED  BY <1>5, <3>1, <3>2
  <2>3. \A g \in Files : visited[g] \subseteq visited'[g]
    BY <2>1
  <2>4. \A g \in Files : data'[g] \in Nat /\ 1..data'[g] \subseteq visited'[g]
    BY <2>1, <2>2 DEF Invariant, Progressed
  <2>5. ASSUME NEW q \in Runners, run'[q].pc \in InFile
        PROVE  /\ run'[q].mark \in Nat /\ 1..run'[q].mark \subseteq visited'[run'[q].file]
               /\ run'[q].from \in Nat /\ 1..run'[q].from \subseteq visited'[run'[q].file]
    <3>1. CASE q = r
      BY <1>4, <1>6, <1>8, <2>2, <2>3, <3>1
    <3>2. CASE q # r
      <4>1. run'[q] = run[q] /\ run[q].pc \in InFile
        BY <1>8, <2>5, <3>2
      <4>2. run[q].file \in Files
        BY <4>1, InFileFacts
      <4> QED  BY <2>3, <4>1, <4>2 DEF Invariant, Progressed
    <3> QED  BY <3>1, <3>2
  <2> QED  BY <2>1, <2>4, <2>5 DEF Progressed
<1>10. Exclusive'
  <2>1. \A g \in y.todo \cap Files : ~isSettled(history'[g])
    BY <1>1, <1>6 DEF Invariant, Exclusive
  <2>2. history'[y.file] # NoRow
    BY <1>1, <1>3, <1>6 DEF Invariant, Exclusive
  <2> QED  BY <1>1, <1>2, <1>6, <1>8, <2>1, <2>2, StepExclusive
<1> QED  BY <1>8, <1>9, <1>10 DEF Invariant

LEMMA FailStatementInvariant ==
    ASSUME Invariant, NEW r \in Runners, FailStatement(r)
    PROVE  Invariant'
<1>1. /\ run[r].pc \in {"exec", "building"} /\ run[r].pc \in InFile /\ "exec" \in InFile
      /\ run[r].pc # "segment" /\ UNCHANGED <<visited, data>>
  BY DEF FailStatement, InFile, database
<1>2. Within(run[r]) /\ run[r].pc \in Holding /\ run[r].file \in Files
  BY <1>1, InFileFacts
<1>3. CASE Write(run[r].file, markFailed(run[r].file, Version(r), run[r].at)) /\ Leave(r)
  <2>1. RowShape(markFailed(run[r].file, Version(r), run[r].at))
    BY <1>2, MarkFailedShape DEF Invariant
  <2> QED  BY <1>1, <1>2, <1>3, <2>1, EndInvariant DEF Leave, Goes, Write, OneRow
<1>4. CASE /\ Goes(r, [run[r] EXCEPT !.pc = "exec", !.attempt = run[r].attempt + 1,
                                     !.mark = run[r].from])
           /\ UNCHANGED <<history, lock>>
  <2>1. PICK a, m : a = run[r].attempt + 1 /\ m = run[r].from
    OBVIOUS
  <2>2. PICK y : y = [run[r] EXCEPT !.pc = "exec", !.attempt = a, !.mark = m]
    OBVIOUS
  <2>3. Moved(run[r], y, "exec", m)
    BY <1>2, <2>2, WithinMovesTwice, Zenon
  <2>4. run' = [run EXCEPT ![r] = y]
    BY <1>4, <2>1, <2>2 DEF Goes
  <2> QED  BY <1>1, <1>4, <2>1, <2>3, <2>4, FileInvariant
<1> QED  BY <1>3, <1>4 DEF FailStatement, Current

LEMMA MarkStatementAppliedInvariant ==
    ASSUME Invariant, NEW r \in Runners, MarkStatementApplied(r)
    PROVE  Invariant'
<1>1. /\ run[r].pc = "ran" /\ run[r].pc \in InFile
      /\ UNCHANGED <<visited, data, lock>>
  BY DEF MarkStatementApplied, InFile, database
<1>2. /\ Within(run[r]) /\ run[r].file \in Files /\ RowShape(history[run[r].file])
      /\ history[run[r].file] # NoRow
  BY <1>1, InFileFacts DEF Invariant, Shapes, Exclusive
<1>3. PICK h, n : h = history[run[r].file] /\ n = IF h.applied > run[r].at + 1 THEN h.applied ELSE run[r].at + 1
  OBVIOUS
<1>4. PICK x : x = [h EXCEPT !.applied = n]
  OBVIOUS
<1>5. RowShape(x) /\ x.status = h.status /\ x # NoRow
  BY <1>2, <1>3, <1>4, RowMoves DEF RowShape, NoRow
<1>6. PICK row : row = [x EXCEPT !.uncertain = Null]
  OBVIOUS
<1>7. RowShape(row) /\ row.status = h.status /\ row # NoRow
  BY <1>5, <1>6, RowMoves DEF RowShape, NoRow
<1>8. row = markStatementApplied(h, run[r].at)
  BY <1>3, <1>4, <1>6, Zenon DEF markStatementApplied
<1>9. history' = [history EXCEPT ![run[r].file] = row]
  BY <1>3, <1>8 DEF MarkStatementApplied, Write, Current
<1>10. PICK p, i : p = Following(Script(r), run[r].at + 1) /\ i = run[r].at + 1
  OBVIOUS
<1>11. p \in InFile /\ p # "segment"
  BY <1>10 DEF Following, InFile
<1>12. PICK y : y = [run[r] EXCEPT !.pc = p, !.at = i]
  OBVIOUS
<1>13. Moved(run[r], y, p, run[r].mark)
  BY <1>2, <1>12, WithinMovesTwice, Zenon
<1>14. run' = [run EXCEPT ![r] = y]
  BY <1>10, <1>12 DEF MarkStatementApplied, Goes
<1> QED  BY <1>1, <1>3, <1>7, <1>9, <1>11, <1>13, <1>14, FileInvariant

LEMMA MarkAppliedInvariant ==
    ASSUME Invariant, NEW r \in Runners, MarkApplied(r)
    PROVE  Invariant'
<1>1. run[r].pc = "finish" /\ run[r].pc \in InFile /\ UNCHANGED <<visited, data, lock>>
  BY DEF MarkApplied, InFile, database
<1>2. PICK h, n : h = history[run[r].file] /\ n = Total(Script(r))
  OBVIOUS
<1>3. RowShape(h) /\ h # NoRow
  BY <1>1, <1>2, InFileFacts DEF Invariant, Shapes, Exclusive, InFile
<1>4. PICK x : x = [h EXCEPT !.status = "applied"]
  OBVIOUS
<1>5. RowShape(x) /\ x.status = "applied" /\ x # NoRow
  BY <1>3, <1>4, RowMoves DEF RowShape, NoRow
<1>6. PICK z : z = [x EXCEPT !.uncertain = Null]
  OBVIOUS
<1>7. RowShape(z) /\ z # NoRow
  BY <1>5, <1>6, RowMoves DEF NoRow
<1>8. PICK row : row = [z EXCEPT !.applied = n]
  OBVIOUS
<1>9. RowShape(row)
  BY <1>7, <1>8, RowMoves
<1>10. row = [h EXCEPT !.status = "applied", !.uncertain = Null, !.applied = n]
  BY <1>4, <1>6, <1>8, Zenon
<1>11. NextFile(r) /\ Write(run[r].file, row)
  BY <1>2, <1>10 DEF MarkApplied, Current, Write
<1> QED  BY <1>1, <1>9, <1>11, NextFileInvariant

-----------------------------------------------------------------------------
LEMMA OthersInvariant ==
    ASSUME Invariant,
           \/ OrphanEnds
           \/ \E f \in Files : Edit(f)
           \/ UNCHANGED vars
    PROVE  Invariant'
<1>1. UNCHANGED <<history, visited, data, run>>
  BY DEF OrphanEnds, Edit, database, vars
<1>2. UNCHANGED lock \/ lock = Orphan
  BY DEF OrphanEnds, Edit, vars
<1>3. Exclusive'
  BY <1>1, <1>2, RunnerAssumption DEF Invariant, Exclusive
<1> QED  BY <1>1, <1>3 DEF Invariant, Shapes, Progressed

LEMMA NextInvariant == Invariant /\ [Next]_vars => Invariant'
<1> SUFFICES ASSUME Invariant, [Next]_vars PROVE Invariant'
  OBVIOUS
<1>1. ASSUME NEW r \in Runners, Start(r) \/ AcquireLock(r) \/ GiveUp(r) \/ Crash(r)
      PROVE  Invariant'
  BY <1>1, StartInvariant, AcquireInvariant, GiveUpInvariant, CrashInvariant
<1>2. ASSUME NEW r \in Runners, Works(r) PROVE Invariant'
  BY <1>2, ReconcileInvariant, RecordSupersededInvariant, FinishInvariant,
     BeginSegmentsInvariant, BeginBareInvariant, CommitSegmentInvariant, FailSegmentInvariant,
     MarkUncertainInvariant, ExecutesInvariant, BatchInvariant, FailStatementInvariant,
     MarkStatementAppliedInvariant, MarkAppliedInvariant DEF Works
<1> QED  BY <1>1, <1>2, OthersInvariant DEF Next

\* The shapes, the watermarks and the lock, in every reachable state.
THEOREM InvariantHolds == Spec => []Invariant
<1> QED  BY InitInvariant, NextInvariant, PTL DEF Spec

\* The watermark of a batched update never passes a row that no batch updated,
\* whatever died, failed or was retried (batch.ts).
THEOREM WatermarkHolds == Spec => []WatermarkCommitsWithRows
<1>1. Invariant => WatermarkCommitsWithRows
  BY DEF Invariant, Progressed, WatermarkCommitsWithRows
<1> QED  BY <1>1, InvariantHolds, PTL

\* A row is written by a holder of the lock, for a file it had found open.
LEMMA RowsWritten ==
    ASSUME Invariant, [Next]_vars
    PROVE  \/ UNCHANGED history
           \/ \E f, row : /\ history' = [history EXCEPT ![f] = row]
                          /\ f \in Files => \/ ~isSettled(history[f])
                                            \/ row = history[f]
<1> DEFINE Written == \E f, row : /\ history' = [history EXCEPT ![f] = row]
                                  /\ f \in Files => ~isSettled(history[f]) \/ row = history[f]
<1>1. ASSUME NEW r \in Runners, run[r].pc \in InFile, NEW row, Write(run[r].file, row)
      PROVE  Written
  BY <1>1, InFileFacts DEF Write
<1>2. ASSUME NEW r \in Runners, NEW f \in Files, Begins(r, f), NEW row, Write(f, row)
      PROVE  Written
  <2>1. ~isSettled(history[f])
    BY <1>2 DEF Begins, First, Invariant, Exclusive
  <2> QED  BY <1>2, <2>1 DEF Write
<1>3. ASSUME NEW r \in Runners, RecordSuperseded(r) PROVE Written
  <2>1. PICK f : Write(f, IF history[f] = NoRow THEN RowOf(f, run[r].dir[f], "superseded", 0, Null)
                          ELSE history[f])
    BY <1>3 DEF RecordSuperseded
  <2>2. PICK row : row = IF history[f] = NoRow THEN RowOf(f, run[r].dir[f], "superseded", 0, Null)
                         ELSE history[f]
    OBVIOUS
  <2>3. history[f] = NoRow => ~isSettled(history[f])
    BY DEF NoRow, isSettled
  <2> QED  BY <2>1, <2>2, <2>3 DEF Write
<1>4. ASSUME NEW r \in Runners, CommitSegment(r) \/ FailSegment(r)
      PROVE  UNCHANGED history \/ Written
  <2>1. run[r].pc \in InFile
    BY <1>4 DEF CommitSegment, FailSegment, InFile
  <2>2. UNCHANGED history \/ \E row : Write(run[r].file, row)
    BY <1>4 DEF CommitSegment, FailSegment, Current
  <2> QED  BY <1>1, <2>1, <2>2
<1>5. ASSUME NEW r \in Runners,
             MarkUncertain(r) \/ FailStatement(r) \/ MarkStatementApplied(r) \/ MarkApplied(r)
      PROVE  UNCHANGED history \/ Written
  <2>1. run[r].pc \in InFile
    BY <1>5 DEF MarkUncertain, FailStatement, MarkStatementApplied, MarkApplied, InFile
  <2>2. UNCHANGED history \/ \E row : Write(run[r].file, row)
    BY <1>5 DEF MarkUncertain, FailStatement, MarkStatementApplied, MarkApplied, Current
  <2> QED  BY <1>1, <2>1, <2>2
<1>6. ASSUME NEW r \in Runners, NEW f \in Files, BeginSegments(r, f) \/ BeginBare(r, f)
      PROVE  UNCHANGED history \/ Written
  <2>1. Begins(r, f)
    BY <1>6 DEF BeginSegments, BeginBare
  <2>2. UNCHANGED history \/ \E row : Write(f, row)
    BY <1>6 DEF BeginSegments, BeginBare
  <2> QED  BY <1>2, <2>1, <2>2
<1>7. ASSUME NEW r \in Runners,
             \/ Start(r) \/ AcquireLock(r) \/ GiveUp(r) \/ Crash(r)
             \/ Reconcile(r) \/ Finish(r)
             \/ Execute(r) \/ StartBuild(r) \/ EndBuild(r) \/ Batch(r)
      PROVE  UNCHANGED history
  BY <1>7 DEF Start, AcquireLock, GiveUp, Crash, Reconcile, Finish, Execute, StartBuild, EndBuild,
     Batch
<1>8. ASSUME OrphanEnds \/ (\E f \in Files : Edit(f)) \/ UNCHANGED vars
      PROVE  UNCHANGED history
  BY <1>8 DEF OrphanEnds, Edit, vars
<1>9. ASSUME NEW r \in Runners, Works(r) PROVE UNCHANGED history \/ Written
  BY <1>3, <1>4, <1>5, <1>6, <1>7, <1>9 DEF Works
<1> HIDE DEF Written
<1>10. UNCHANGED history \/ Written
  BY <1>7, <1>8, <1>9 DEF Next
<1> QED  BY <1>10 DEF Written

\* A row that is settled is never written again, not by a runner with an older
\* view of the history or of the files (run.ts, the lock and the reconciliation).
THEOREM SettledHolds == Spec => SettledIsFinal
<1>1. Invariant /\ [Next]_vars =>
          \A f \in Files : isSettled(history[f]) => history'[f] = history[f]
  <2> SUFFICES ASSUME Invariant, [Next]_vars, NEW f \in Files, isSettled(history[f])
               PROVE  history'[f] = history[f]
    OBVIOUS
  <2>1. CASE UNCHANGED history
    BY <2>1
  <2>2. CASE \E g, row : /\ history' = [history EXCEPT ![g] = row]
                         /\ g \in Files => ~isSettled(history[g]) \/ row = history[g]
    BY <2>2 DEF Invariant, Shapes
  <2> QED  BY <2>1, <2>2, RowsWritten
<1>2. Invariant /\ [Next]_vars =>
          [\A f \in Files : isSettled(history[f]) => history'[f] = history[f]]_vars
  BY <1>1
<1> QED  BY <1>2, InvariantHolds, PTL DEF Spec, SettledIsFinal

-----------------------------------------------------------------------------
(* What comes before a segment is a number of statements.  FlattenSeq is a  *)
(* recursive function; what it returns follows from the least length for    *)
(* which it would not.                                                      *)

\* A set of numbers has a least one.
LEMMA Least ==
    ASSUME NEW T, T \subseteq Nat, T # {}
    PROVE  \E n \in T : \A m \in T : n <= m
<1>1. PICK n \in T : \A m \in T : <<m, n>> \notin OpToRel(<, Nat)
  BY WFMin, NatLessThanWellFounded, Zenon
<1>2. \A m \in T : ~(m < n)
  BY <1>1 DEF OpToRel
<1> QED  BY <1>2

\* h[i] is the concatenation of the first i sequences.
Flattens(h, seqs, n) ==
    h = [i \in 1..n |-> IF i = 1 THEN seqs[i] ELSE h[i-1] \o seqs[i]]

\* A concatenation of n sequences gives one of n + 1.
LEMMA FlattensExtends ==
    ASSUME NEW seqs, NEW n \in Nat, n # 0, NEW h, Flattens(h, seqs, n)
    PROVE  \E g : Flattens(g, seqs, n + 1)
<1>0. PICK v : v = h[n] \o seqs[n + 1]
  OBVIOUS
<1>1. PICK g : g = [i \in 1..(n + 1) |-> IF i = n + 1 THEN v ELSE h[i]]
  OBVIOUS
<1>2. \A i \in 1..n : g[i] = h[i]
  BY <1>1
<1>3. \A i \in 1..n : h[i] = IF i = 1 THEN seqs[i] ELSE h[i-1] \o seqs[i]
  BY DEF Flattens
<1>4. ASSUME NEW i \in 1..(n + 1)
      PROVE  g[i] = IF i = 1 THEN seqs[i] ELSE g[i-1] \o seqs[i]
  <2>1. CASE i = n + 1
    <3>1. g[i] = v /\ i # 1
      BY <1>1, <2>1
    <3>2. i - 1 = n /\ g[n] = h[n]
      BY <1>2, <2>1
    <3> QED  BY <1>0, <2>1, <3>1, <3>2
  <2>2. CASE i # n + 1
    <3>1. i \in 1..n /\ (i # 1 => i - 1 \in 1..n)
      BY <2>2
    <3> QED  BY <1>2, <1>3, <3>1
  <2> QED  BY <2>1, <2>2
<1>5. Flattens(g, seqs, n + 1)
  BY <1>1, <1>4 DEF Flattens
<1> QED  BY <1>5

\* There is a concatenation of any number of sequences.
LEMMA FlattensExists ==
    ASSUME NEW seqs, NEW n \in Nat, n # 0
    PROVE  \E h : Flattens(h, seqs, n)
<1> DEFINE T == {k \in Nat : k # 0 /\ ~ \E h : Flattens(h, seqs, k)}
<1>1. SUFFICES ASSUME T # {} PROVE FALSE
  OBVIOUS
<1>2. PICK k \in T : \A m \in T : k <= m
  BY <1>1, Least
<1>3. k # 1
  <2>1. Flattens([i \in 1..1 |-> seqs[i]], seqs, 1)
    BY DEF Flattens
  <2> QED  BY <2>1
<1>4. k - 1 \in Nat /\ k - 1 # 0 /\ k - 1 \notin T
  BY <1>2, <1>3
<1>5. PICK h : Flattens(h, seqs, k - 1)
  BY <1>4
<1>6. \E g : Flattens(g, seqs, (k - 1) + 1)
  BY <1>4, <1>5, FlattensExtends
<1> QED  BY <1>2, <1>6

\* The concatenation of sequences is one.
LEMMA FlattenSeqType ==
    ASSUME NEW S, NEW seqs \in Seq(Seq(S)), Len(seqs) # 0
    PROVE  FlattenSeq(seqs) \in Seq(S)
<1>1. PICK n : n = Len(seqs) /\ n \in Nat /\ n # 0
  OBVIOUS
<1>2. PICK h : h = CHOOSE g : Flattens(g, seqs, n)
  OBVIOUS
<1>3. Flattens(h, seqs, n)
  BY <1>1, <1>2, FlattensExists, Zenon
<1>4. FlattenSeq(seqs) = h[n]
  BY <1>1, <1>2 DEF FlattenSeq, Flattens
<1>5. PICK T : T = {i \in 1..n : h[i] \notin Seq(S)}
  OBVIOUS
<1>6. T \subseteq Nat /\ \A i \in 1..n : i \notin T => h[i] \in Seq(S)
  BY <1>1, <1>5
<1>7. T = {}
  <2>1. SUFFICES ASSUME T # {} PROVE FALSE
    OBVIOUS
  <2>2. PICK i \in T : \A j \in T : i <= j
    BY <2>1, <1>6, Least
  <2>3. i \in 1..n /\ h[i] \notin Seq(S)
    BY <1>5, <2>2
  <2>4. h[i] = IF i = 1 THEN seqs[i] ELSE h[i-1] \o seqs[i]
    BY <1>3, <2>3 DEF Flattens
  <2>5. seqs[i] \in Seq(S)
    BY <1>1, <2>3
  <2>6. ASSUME i # 1 PROVE h[i-1] \in Seq(S)
    <3>1. i - 1 \in 1..n /\ ~(i <= i - 1)
      BY <1>1, <2>3, <2>6
    <3> QED  BY <1>6, <2>2, <3>1
  <2>7. h[i] \in Seq(S)
    BY <2>4, <2>5, <2>6
  <2> QED  BY <2>3, <2>7
<1> QED  BY <1>1, <1>4, <1>6, <1>7

\* So is what precedes a segment (batch.ts and run.ts count it) a number.
LEMMA EarlierType ==
    ASSUME NEW c, c.segments \in Seq(Seq(Statement)), NEW k \in 1..Len(c.segments)
    PROVE  Earlier(c, k) \in Nat
<1>1. PICK s : s = SubSeq(c.segments, 1, k - 1)
  OBVIOUS
<1>2. s \in Seq(Seq(Statement))
  BY <1>1
<1>3. CASE Len(s) = 0
  BY <1>1, <1>3 DEF Earlier, FlattenSeq
<1>4. CASE Len(s) # 0
  <2>1. FlattenSeq(s) \in Seq(Statement)
    BY <1>2, <1>4, FlattenSeqType
  <2>2. PICK t : t = FlattenSeq(s)
    OBVIOUS
  <2>3. Len(t) \in Nat
    BY <2>1, <2>2
  <2> QED  BY <1>1, <2>2, <2>3 DEF Earlier
<1> QED  BY <1>3, <1>4

-----------------------------------------------------------------------------
(* What a row has to show of a file that may have committed something.      *)

Resumable(row) == row = NoRow \/ row.applied \in Nat
Kept(row)      == isSettled(row) \/ Resumable(row)
Marked(row)    == row # NoRow /\ (row.single => row.uncertain # Null)
Shown(row)     == row.status = "applied" \/ Marked(row)

Readable(dir) == \A f \in Files : dir[f] # Absent => dir[f] \in DOMAIN Contents[f]

\* What a run has read, and how far it is.
Placed(x) ==
    /\ x.pc # "off" => Readable(x.dir)
    /\ x.pc \in InFile \cup {"files"} =>
          \A f \in x.todo : f \in Files /\ x.dir[f] # Absent /\ Resumable(x.seen[f])
    /\ x.pc \in InFile => x.at \in Nat /\ x.committed \in Nat

\* The row of the file a run is in: a file of several transactions is marked
\* before the first one, a file without a transaction is not `single`.
Guarded(x, row) ==
    /\ x.pc = "segment" =>
          LET n == Len(ContentOf(x.file, x.dir[x.file]).segments)
          IN x.at \in 1..n /\ (n = 1 \/ Marked(row))
    /\ x.pc \in InFile \ {"segment"} => row # NoRow /\ ~row.single

Traced ==
    /\ disk = [f \in Files |-> disk[f]] /\ Readable(disk)
    /\ \A f \in Files : Kept(history[f])
    /\ \A f \in touched : f \in Files /\ Shown(history[f])
    /\ \A r \in Runners : Placed(run[r]) /\ Guarded(run[r], history[run[r].file])

\* The start: no row, nothing committed, the first content of every file.
LEMMA InitTraced == Init => Traced
<1> SUFFICES ASSUME Init PROVE Traced
  OBVIOUS
<1>1. Readable(disk)
  <2> SUFFICES ASSUME NEW f \in Files PROVE 1 \in DOMAIN Contents[f]
    BY DEF Init, Readable
  <2>1. Contents[f] \in Seq(Content) /\ Contents[f] # <<>>
    BY RunnerAssumption
  <2> QED  BY <2>1
<1>2. disk = [f \in Files |-> disk[f]]
  BY DEF Init
<1>3. \A f \in Files : Kept(history[f])
  BY DEF Init, Kept, Resumable
<1>4. \A r \in Runners : Placed(run[r]) /\ Guarded(run[r], history[run[r].file])
  BY DEF Init, Off, Placed, Guarded, InFile
<1> QED  BY <1>1, <1>2, <1>3, <1>4 DEF Init, Traced

\* What a step of a run has to show.
LEMMA StepTraced ==
    ASSUME Invariant, Traced, NEW r \in Runners, NEW y, run' = [run EXCEPT ![r] = y],
           Placed(y), Guarded(y, history'[y.file]), UNCHANGED <<disk, touched>>, UNCHANGED history
    PROVE  Traced'
<1>1. run'[r] = y /\ \A q \in Runners \ {r} : run'[q] = run[q]
  BY DEF Invariant, Shapes
<1>2. ASSUME NEW q \in Runners
      PROVE  Placed(run'[q]) /\ Guarded(run'[q], history'[run'[q].file])
  BY <1>1 DEF Traced
<1> QED  BY <1>2 DEF Traced

\* The same of a step that writes the row of one file: only the holder of the lock
\* writes, and no other run is in a file.
LEMMA StepWrites ==
    ASSUME Invariant, Traced, NEW r \in Runners, NEW y, run' = [run EXCEPT ![r] = y],
           run[r].pc \in Holding, UNCHANGED disk,
           NEW f \in Files, NEW row, history' = [history EXCEPT ![f] = row],
           Kept(row), touched' \in {touched, touched \cup {f}}, f \in touched' => Shown(row),
           Placed(y), y.pc \in InFile => y.file = f, Guarded(y, row)
    PROVE  Traced'
<1>1. run'[r] = y /\ \A q \in Runners \ {r} : run'[q] = run[q]
  BY DEF Invariant, Shapes
<1>2. history'[f] = row /\ \A g \in Files \ {f} : history'[g] = history[g]
  BY DEF Invariant, Shapes
<1>3. \A q \in Runners \ {r} : run[q].pc \notin InFile
  BY RunnerAssumption DEF Invariant, Exclusive, Holding
<1>4. ASSUME NEW q \in Runners
      PROVE  Placed(run'[q]) /\ Guarded(run'[q], history'[run'[q].file])
  <2>1. CASE q = r
    <3>1. CASE y.pc \in InFile
      BY <1>1, <1>2, <2>1, <3>1
    <3>2. CASE y.pc \notin InFile
      BY <1>1, <2>1, <3>2 DEF Guarded, InFile
    <3> QED  BY <3>1, <3>2
  <2>2. CASE q # r
    <3>1. run'[q] = run[q] /\ run[q].pc \notin InFile
      BY <1>1, <1>3, <2>2
    <3>2. Guarded(run'[q], history'[run'[q].file])
      BY <3>1 DEF Guarded, InFile
    <3> QED  BY <3>1, <3>2 DEF Traced
  <2> QED  BY <2>1, <2>2
<1>5. \A g \in Files : Kept(history'[g])
  BY <1>2 DEF Traced
<1>6. \A g \in touched' : g \in Files /\ Shown(history'[g])
  BY <1>2 DEF Traced
<1>7. disk' = [g \in Files |-> disk'[g]] /\ Readable(disk)'
  BY DEF Traced, Readable
<1> QED  BY <1>4, <1>5, <1>6, <1>7 DEF Traced

\* A run that ends, its last row written.
LEMMA EndTraced ==
    ASSUME Invariant, Traced, NEW r \in Runners, run' = [run EXCEPT ![r] = Off],
           UNCHANGED <<disk, touched, history>>
    PROVE  Traced'
<1>1. Placed(Off) /\ Guarded(Off, history'[Off.file])
  BY DEF Off, Placed, Guarded, InFile
<1> QED  BY <1>1, StepTraced

-----------------------------------------------------------------------------
(* The start of a run.                                                      *)

\* A run starts with the directory of the moment, and waits for the lock.
LEMMA ReadsTraced ==
    ASSUME Invariant, Traced, NEW r \in Runners, Start(r) \/ AcquireLock(r)
    PROVE  Traced'
<1>1. PICK y : /\ run' = [run EXCEPT ![r] = y] /\ y.pc \in {"waiting", "locked"}
               /\ Readable(y.dir)
  <2>1. CASE Start(r)
    <3>1. PICK i : run' = [run EXCEPT ![r] = [pc |-> "waiting", dir |-> disk, ignore |-> i]]
      BY <2>1 DEF Start, Goes
    <3>2. PICK y : y = [pc |-> "waiting", dir |-> disk, ignore |-> i]
      OBVIOUS
    <3>3. y.pc = "waiting" /\ y.dir = disk /\ run' = [run EXCEPT ![r] = y]
      BY <3>1, <3>2
    <3>4. Readable(y.dir)
      BY <3>3 DEF Traced
    <3> QED  BY <3>3, <3>4
  <2>2. CASE AcquireLock(r)
    <3>1. PICK y : y = [run[r] EXCEPT !.pc = "locked"]
      OBVIOUS
    <3>2. Unstarted(run[r]) /\ run[r].pc # "off" /\ run' = [run EXCEPT ![r] = y]
      BY <2>2, <3>1 DEF AcquireLock, Goes, Invariant, Shapes, RunShape, Off, InFile
    <3>3. y.dir = run[r].dir /\ y.pc = "locked"
      BY <3>1, <3>2 DEF Unstarted
    <3> QED  BY <3>2, <3>3 DEF Traced, Placed
  <2> QED  BY <2>1, <2>2
<1>2. Placed(y) /\ Guarded(y, history'[y.file])
  BY <1>1 DEF Placed, Guarded, InFile
<1> QED  BY <1>1, <1>2, StepTraced DEF Start, AcquireLock, database

\* A run that ends without writing.
LEMMA EndsTraced ==
    ASSUME Invariant, Traced, NEW r \in Runners, GiveUp(r) \/ Finish(r) \/ Crash(r)
    PROVE  Traced'
  BY EndTraced DEF GiveUp, Finish, Crash, Leave, Goes, database

\* The rows a run starts from are those of the history: open ones can be resumed.
LEMMA ReconcileTraced ==
    ASSUME Invariant, Traced, NEW r \in Runners, Reconcile(r)
    PROVE  Traced'
<1> DEFINE jumped == Superseded(history, run[r].dir, run[r].ignore)
           pending == {f \in Files : run[r].dir[f] # Absent /\ ~isSettled(history[f])}
<1>1. run[r].pc = "locked" /\ UNCHANGED <<disk, touched, history>>
  BY DEF Reconcile, database
<1>2. CASE Drifted(history, run[r].dir)
  BY <1>1, <1>2, EndTraced DEF Reconcile, Leave, Goes
<1>3. CASE ~Drifted(history, run[r].dir)
  <2>1. PICK y : y = [pc |-> "files", dir |-> run[r].dir, seen |-> history,
                      jumped |-> jumped, todo |-> pending \ jumped]
    OBVIOUS
  <2>2. run' = [run EXCEPT ![r] = y]
    BY <1>3, <2>1 DEF Reconcile, Goes
  <2>3. /\ y.pc = "files" /\ y.dir = run[r].dir /\ y.seen = history
        /\ \A f \in y.todo : f \in Files /\ run[r].dir[f] # Absent /\ ~isSettled(history[f])
    BY <2>1
  <2>4. Readable(y.dir)
    BY <1>1, <2>3 DEF Traced, Placed
  <2>5. \A f \in y.todo : Resumable(y.seen[f])
    BY <2>3 DEF Traced, Kept
  <2>6. Placed(y) /\ Guarded(y, history'[y.file])
    BY <2>3, <2>4, <2>5 DEF Placed, Guarded, InFile
  <2> QED  BY <1>1, <2>2, <2>6, StepTraced
<1> QED  BY <1>2, <1>3

\* A file that is jumped has no row, or keeps it.
LEMMA RecordSupersededTraced ==
    ASSUME Invariant, Traced, NEW r \in Runners, RecordSuperseded(r)
    PROVE  Traced'
<1>1. PICK f, row :
         /\ row = IF history[f] = NoRow THEN RowOf(f, run[r].dir[f], "superseded", 0, Null)
                  ELSE history[f]
         /\ history' = [history EXCEPT ![f] = row]
         /\ Goes(r, [run[r] EXCEPT !.jumped = @ \ {f}])
  BY DEF RecordSuperseded, Write
<1>2. run[r].pc = "files" /\ run[r].pc \in Holding /\ UNCHANGED <<disk, touched>>
  BY DEF RecordSuperseded, database, Holding
<1>3. Between(run[r])
  BY <1>2 DEF Invariant, Shapes, RunShape, Off, InFile
<1>4. PICK y : y = [run[r] EXCEPT !.jumped = run[r].jumped \ {f}]
  OBVIOUS
<1>5. y.pc = "files" /\ y.dir = run[r].dir /\ y.todo = run[r].todo /\ y.seen = run[r].seen
  BY <1>2, <1>3, <1>4 DEF Between
<1>6. run' = [run EXCEPT ![r] = y]
  BY <1>1, <1>4 DEF Goes
<1>7. Placed(y) /\ y.pc \notin InFile
  BY <1>2, <1>5 DEF Traced, Placed, InFile
<1>8. \A x : Guarded(y, x)
  BY <1>5 DEF Guarded, InFile
<1>9. CASE f \in Files
  <2>1. Kept(row)
    BY <1>1, <1>9 DEF Traced, Kept, isSettled, RowOf
  <2>2. f \in touched => Shown(row)
    <3>1. f \in touched => Shown(history[f])
      BY DEF Traced
    <3>2. Shown(history[f]) => history[f] # NoRow
      BY DEF Shown, Marked, NoRow
    <3> QED  BY <1>1, <3>1, <3>2
  <2> QED  BY <1>1, <1>2, <1>6, <1>7, <1>8, <1>9, <2>1, <2>2, StepWrites
<1>10. CASE f \notin Files
  <2>1. history' = history
    BY <1>1, <1>10 DEF Invariant, Shapes
  <2> QED  BY <1>2, <1>6, <1>7, <1>8, <2>1, StepTraced
<1> QED  BY <1>9, <1>10

-----------------------------------------------------------------------------
(* A run within its file.                                                   *)

\* What a step within a file changes, and what it does not.
Continues(x, y, pc, at, committed) ==
    /\ y.pc = pc /\ y.at = at /\ y.committed = committed
    /\ y.dir = x.dir /\ y.seen = x.seen /\ y.todo = x.todo /\ y.file = x.file

\* The steps of a run within a file.
LEMMA GoesOn ==
    ASSUME NEW x, Within(x), NEW p, NEW a, NEW i, NEW c, NEW m
    PROVE  /\ Continues(x, [x EXCEPT !.pc = p], p, x.at, x.committed)
           /\ Continues(x, [x EXCEPT !.at = i], x.pc, i, x.committed)
           /\ Continues(x, [x EXCEPT !.mark = m], x.pc, x.at, x.committed)
           /\ Continues(x, [x EXCEPT !.pc = p, !.attempt = a], p, x.at, x.committed)
           /\ Continues(x, [x EXCEPT !.pc = p, !.at = i], p, i, x.committed)
           /\ Continues(x, [x EXCEPT !.pc = p, !.attempt = a, !.mark = m], p, x.at, x.committed)
           /\ Continues(x, [x EXCEPT !.at = i, !.attempt = a, !.committed = c], x.pc, i, c)
<1> USE DEF Continues
<1>1. Continues(x, [x EXCEPT !.pc = p], p, x.at, x.committed)
  BY DEF Within
<1>2. Continues(x, [x EXCEPT !.at = i], x.pc, i, x.committed)
  BY DEF Within
<1>3. Continues(x, [x EXCEPT !.mark = m], x.pc, x.at, x.committed)
  BY DEF Within
<1>4. Continues(x, [x EXCEPT !.pc = p, !.attempt = a], p, x.at, x.committed)
  BY DEF Within
<1>5. Continues(x, [x EXCEPT !.pc = p, !.at = i], p, i, x.committed)
  BY DEF Within
<1>6. Continues(x, [x EXCEPT !.pc = p, !.attempt = a, !.mark = m], p, x.at, x.committed)
  BY DEF Within
<1>7. Continues(x, [x EXCEPT !.at = i, !.attempt = a, !.committed = c], x.pc, i, c)
  BY DEF Within
<1> QED  BY <1>1, <1>2, <1>3, <1>4, <1>5, <1>6, <1>7

\* They keep what it has read.
LEMMA PlacedWithin ==
    ASSUME Traced, NEW r \in Runners, run[r].pc \in InFile,
           NEW y, NEW p \in InFile, NEW i \in Nat, NEW c \in Nat, Continues(run[r], y, p, i, c)
    PROVE  Placed(y)
  BY DEF Traced, Placed, Continues, Off, InFile

\* What holds of a run in its file.
LEMMA WithinFacts ==
    ASSUME Invariant, Traced, NEW r \in Runners, run[r].pc \in InFile
    PROVE  /\ Within(run[r]) /\ run[r].pc \in Holding
           /\ run[r].file \in Files /\ ~isSettled(history[run[r].file])
           /\ Resumable(history[run[r].file])
           /\ run[r].at \in Nat /\ run[r].committed \in Nat
           /\ Version(r) \in DOMAIN Contents[run[r].file]
           /\ Guarded(run[r], history[run[r].file])
           /\ history = [history EXCEPT ![run[r].file] = history[run[r].file]]
<1>1. /\ Within(run[r]) /\ run[r].pc \in Holding
      /\ run[r].file \in Files /\ ~isSettled(history[run[r].file])
  BY InFileFacts
<1>2. Placed(run[r]) /\ Guarded(run[r], history[run[r].file])
  BY DEF Traced
<1>3. run[r].pc # "off" /\ run[r].file \in run[r].todo
  BY <1>1 DEF InFile, Within
<1>4. Resumable(history[run[r].file])
  BY <1>1 DEF Traced, Kept
<1>5. Version(r) \in DOMAIN Contents[run[r].file]
  BY <1>1, <1>2, <1>3 DEF Placed, Readable, Version, Current
<1>6. history = [history EXCEPT ![run[r].file] = history[run[r].file]]
  BY <1>1 DEF Invariant, Shapes
<1> QED  BY <1>1, <1>2, <1>4, <1>5, <1>6 DEF Placed

\* A step within a file that writes no row.
LEMMA WithinTraced ==
    ASSUME Invariant, Traced, NEW r \in Runners, run[r].pc \in InFile,
           NEW y, NEW p \in InFile, NEW i \in Nat, NEW c \in Nat, Continues(run[r], y, p, i, c),
           run' = [run EXCEPT ![r] = y], UNCHANGED <<disk, history>>,
           \/ UNCHANGED touched
           \/ touched' = touched \cup {run[r].file} /\ Marked(history[run[r].file]),
           Guarded(y, history[run[r].file])
    PROVE  Traced'
<1>1. /\ run[r].pc \in Holding /\ run[r].file \in Files
      /\ history = [history EXCEPT ![run[r].file] = history[run[r].file]]
  BY WithinFacts
<1>2. Placed(y)
  BY PlacedWithin
<1>3. y.file = run[r].file
  BY DEF Continues
<1>4. Kept(history[run[r].file])
  BY <1>1 DEF Traced
<1>5. run[r].file \in touched' => Shown(history[run[r].file])
  BY DEF Traced, Shown
<1>6. history' = [history EXCEPT ![run[r].file] = history[run[r].file]]
  BY <1>1
<1>7. touched' \in {touched, touched \cup {run[r].file}}
  OBVIOUS
<1> QED  BY <1>1, <1>2, <1>3, <1>4, <1>5, <1>6, <1>7, StepWrites

\* The end of a file: its row is written, the run goes on or ends.
LEMMA LeavesFileTraced ==
    ASSUME Invariant, Traced, NEW r \in Runners, run[r].pc \in InFile,
           \/ NextFile(r)
           \/ run' = [run EXCEPT ![r] = Off],
           NEW row, history' = [history EXCEPT ![run[r].file] = row], UNCHANGED disk,
           Kept(row), touched' \in {touched, touched \cup {run[r].file}},
           run[r].file \in touched' => Shown(row)
    PROVE  Traced'
<1>1. run[r].pc \in Holding /\ run[r].file \in Files
  BY WithinFacts
<1>2. PICK y : /\ run' = [run EXCEPT ![r] = y] /\ y.pc \notin InFile
               /\ Placed(y)
  <2>1. CASE NextFile(r)
    <3>1. PICK y : y = [pc |-> "files", dir |-> run[r].dir, seen |-> run[r].seen, jumped |-> {},
                        todo |-> run[r].todo \ {run[r].file}]
      OBVIOUS
    <3>2. run' = [run EXCEPT ![r] = y]
      BY <2>1, <3>1 DEF NextFile, Goes, Current
    <3>3. /\ y.pc = "files" /\ y.dir = run[r].dir /\ y.seen = run[r].seen
          /\ y.todo \subseteq run[r].todo
      BY <3>1
    <3>4. Placed(run[r]) /\ run[r].pc # "off" /\ "files" \notin InFile
      BY DEF Traced, InFile
    <3>5. Placed(y)
      BY <3>3, <3>4 DEF Placed
    <3> QED  BY <3>2, <3>3, <3>4, <3>5
  <2>2. CASE run' = [run EXCEPT ![r] = Off]
    <3>1. Off.pc \notin InFile /\ Placed(Off)
      BY DEF Off, Placed, InFile
    <3> QED  BY <2>2, <3>1
  <2> QED  BY <2>1, <2>2
<1>3. Guarded(y, row)
  BY <1>2 DEF Guarded, InFile
<1> QED  BY <1>1, <1>2, <1>3, StepWrites

-----------------------------------------------------------------------------
(* The rows.                                                                *)

Begun(row, u) ==
    row # NoRow /\ row.applied \in Nat /\ (u # Null => row.uncertain = u)

\* The row a run writes when it begins a file.
LEMMA BeginRowFacts ==
    ASSUME Invariant, NEW f \in Files, NEW v, NEW a \in Nat, NEW u, Resumable(history[f]),
           NEW row, row = beginRow(f, v, a, u)
    PROVE  /\ Begun(row, u)
           /\ ContentOf(f, v).mode # "transactional" => ~row.single
<1>1. PICK new : new = RowOf(f, v, "running", a, u)
  OBVIOUS
<1>2. PICK s : s = (ContentOf(f, v).mode = "transactional")
  OBVIOUS
<1>3. new = [status |-> "running", single |-> s, sum |-> v, applied |-> a, uncertain |-> u]
  BY <1>1, <1>2 DEF RowOf
<1>4. CASE history[f] = NoRow
  <2>1. beginRow(f, v, a, u) = new
    BY <1>1, <1>4 DEF beginRow
  <2>2. new # NoRow /\ new.applied = a /\ new.single = s /\ new.uncertain = u
    BY <1>3 DEF NoRow
  <2> QED  BY <1>2, <2>1, <2>2 DEF Begun
<1>5. CASE history[f] # NoRow
  <2>1. PICK h : h = history[f].applied
    OBVIOUS
  <2>2. PICK w : w = IF u = Null THEN history[f].uncertain ELSE new.uncertain
    OBVIOUS
  <2>3. PICK z : z = [new EXCEPT !.applied = h, !.uncertain = w]
    OBVIOUS
  <2>4. beginRow(f, v, a, u) = z
    BY <1>1, <1>5, <2>1, <2>2, <2>3, Zenon DEF beginRow
  <2>5. z = [status |-> "running", single |-> s, sum |-> v, applied |-> h, uncertain |-> w]
    BY <1>3, <2>3
  <2>6. z # NoRow /\ z.applied = h /\ z.single = s /\ z.uncertain = w
    BY <2>5 DEF NoRow
  <2>7. h \in Nat
    BY <1>5, <2>1 DEF Resumable
  <2>8. u # Null => w = u
    BY <1>3, <2>2
  <2> QED  BY <1>2, <2>4, <2>6, <2>7, <2>8 DEF Begun
<1> QED  BY <1>4, <1>5

\* The same of a row that marks a segment.
LEMMA BeginMarkedFacts ==
    ASSUME Invariant, NEW f \in Files, NEW v, NEW a \in Nat, NEW u, u # Null, Resumable(history[f]),
           NEW row, row = beginRow(f, v, a, u)
    PROVE  row # NoRow /\ row.applied \in Nat /\ row.uncertain = u
<1>1. Begun(row, u)
  BY BeginRowFacts
<1> QED  BY <1>1 DEF Begun

\* A failure keeps the mark of the row it finds.
LEMMA MarkFailedFacts ==
    ASSUME Invariant, NEW f \in Files, NEW v, NEW a \in Nat
    PROVE  /\ Kept(markFailed(f, v, a))
           /\ Marked(history[f]) => Shown(markFailed(f, v, a))
<1>1. CASE history[f] = NoRow
  BY <1>1 DEF markFailed, RowOf, Kept, Resumable, Marked
<1>2. CASE history[f] # NoRow
  <2>1. PICK h : h = history[f]
    OBVIOUS
  <2>2. PICK z : z = [h EXCEPT !.status = "failed", !.applied = a]
    OBVIOUS
  <2>3. RowShape(h) /\ h # NoRow
    BY <1>2, <2>1 DEF Invariant, Shapes
  <2>4. z = [status |-> "failed", single |-> h.single, sum |-> h.sum,
             applied |-> a, uncertain |-> h.uncertain]
    BY <2>2, <2>3 DEF RowShape
  <2>5. z # NoRow /\ z.applied = a /\ z.single = h.single /\ z.uncertain = h.uncertain
    BY <2>4 DEF NoRow
  <2>6. markFailed(f, v, a) = z
    BY <1>2, <2>1, <2>2 DEF markFailed
  <2> QED  BY <2>1, <2>5, <2>6 DEF Kept, Resumable, Marked, Shown
<1> QED  BY <1>1, <1>2

-----------------------------------------------------------------------------
(* The steps of a run in a file.                                            *)

\* The run x takes up the file f, at place `at' of it.
Opens(x, y, f, pc, at, committed) ==
    /\ y.pc = pc /\ y.at = at /\ y.committed = committed
    /\ y.dir = x.dir /\ y.seen = x.seen /\ y.todo = x.todo /\ y.file = f

\* The row shows what was committed of the file.
Covers(f, row) == Kept(row) /\ (f \in touched => Shown(row))

\* A run begins a file.
LEMMA BeginTraced ==
    ASSUME Invariant, Traced, NEW r \in Runners, NEW f \in Files, Begins(r, f),
           NEW y, run' = [run EXCEPT ![r] = y],
           NEW p \in InFile, NEW i \in Nat, NEW c \in Nat, Opens(run[r], y, f, p, i, c),
           UNCHANGED <<disk, touched>>,
           NEW row, history' = [history EXCEPT ![f] = row], Covers(f, row), Guarded(y, row)
    PROVE  Traced'
<1>1. run[r].pc = "files" /\ run[r].pc \in Holding
  BY DEF Begins, Holding
<1>2. /\ y.pc = p /\ y.at = i /\ y.committed = c
      /\ y.dir = run[r].dir /\ y.seen = run[r].seen /\ y.todo = run[r].todo /\ y.file = f
  BY DEF Opens
<1>3. Placed(y)
  BY <1>1, <1>2 DEF Traced, Placed
<1>4. Kept(row) /\ (f \in touched => Shown(row))
  BY DEF Covers
<1> QED  BY <1>1, <1>2, <1>3, <1>4, StepWrites

\* What a run knows of the file it begins.
LEMMA BeginFacts ==
    ASSUME Invariant, Traced, NEW r \in Runners, NEW f \in Files, Begins(r, f)
    PROVE  /\ Resumable(run[r].seen[f]) /\ Resumable(history[f]) /\ Kept(history[f])
           /\ run[r].dir[f] \in DOMAIN Contents[f]
           /\ history = [history EXCEPT ![f] = history[f]]
           /\ f \in touched => Shown(history[f])
<1>1. run[r].pc = "files" /\ f \in run[r].todo
  BY DEF Begins, First
<1>2. Resumable(run[r].seen[f]) /\ run[r].dir[f] \in DOMAIN Contents[f]
  BY <1>1 DEF Traced, Placed, Readable
<1>3. ~isSettled(history[f])
  BY <1>1 DEF Invariant, Exclusive
<1>4. Kept(history[f]) /\ Resumable(history[f])
  BY <1>3 DEF Traced, Kept
<1> QED  BY <1>2, <1>4 DEF Traced, Invariant, Shapes

\* A content has segments.
LEMMA SegmentsType ==
    ASSUME NEW f \in Files, NEW v \in DOMAIN Contents[f]
    PROVE  /\ ContentOf(f, v).segments \in Seq(Seq(Statement))
           /\ Len(ContentOf(f, v).segments) \in Nat \ {0}
<1>1. Contents[f] \in Seq(Content) /\ Contents[f][v].segments # <<>>
  BY RunnerAssumption
<1>2. PICK c : c = Contents[f][v]
  OBVIOUS
<1>3. c \in Content
  BY <1>1, <1>2
<1>4. c.segments \in Seq(Seq(Statement))
  BY <1>3 DEF Content
<1>5. Len(c.segments) \in Nat \ {0}
  BY <1>1, <1>2, <1>4
<1> QED  BY <1>2, <1>4, <1>5 DEF ContentOf

\* A file of several transactions is marked before the first one.
LEMMA BeginSegmentsTraced ==
    ASSUME Invariant, Traced, NEW r \in Runners, NEW f \in Files, BeginSegments(r, f)
    PROVE  Traced'
<1>1. PICK v, c, n : /\ v = run[r].dir[f] /\ n = Len(ContentOf(f, v).segments)
                     /\ c = IF run[r].seen[f].status \in {"failed", "running"}
                            THEN run[r].seen[f].applied ELSE 0
  OBVIOUS
<1>2. /\ Goes(r, [At(r, f, "segment", 1) EXCEPT !.committed = c])
      /\ IF n > 1 THEN Write(f, beginRow(f, v, c, c)) ELSE UNCHANGED history
      /\ Begins(r, f) /\ UNCHANGED <<disk, touched>>
  BY <1>1 DEF BeginSegments, database
<1>3. /\ Resumable(run[r].seen[f]) /\ Resumable(history[f]) /\ Kept(history[f])
      /\ v \in DOMAIN Contents[f]
      /\ history = [history EXCEPT ![f] = history[f]]
      /\ f \in touched => Shown(history[f])
  BY <1>1, <1>2, BeginFacts
<1>4. n \in Nat \ {0}
  BY <1>1, <1>3, SegmentsType
<1>5. c \in Nat
  BY <1>1, <1>3 DEF Resumable, NoRow
<1>6. PICK x : x = At(r, f, "segment", 1)
  OBVIOUS
<1>7. PICK y : y = [x EXCEPT !.committed = c]
  OBVIOUS
<1>8. /\ y.pc = "segment" /\ y.at = 1 /\ y.committed = c
      /\ y.dir = run[r].dir /\ y.seen = run[r].seen /\ y.todo = run[r].todo /\ y.file = f
  BY <1>6, <1>7 DEF At
<1>14. Opens(run[r], y, f, "segment", 1, c)
  BY <1>8 DEF Opens
<1>9. run' = [run EXCEPT ![r] = y] /\ "segment" \in InFile
  BY <1>2, <1>6, <1>7 DEF Goes, InFile
<1>10. PICK row : row = IF n > 1 THEN beginRow(f, v, c, c) ELSE history[f]
  OBVIOUS
<1>11. history' = [history EXCEPT ![f] = row]
  BY <1>2, <1>3, <1>10 DEF Write
<1>12. CASE n > 1
  <2>0. c # Null /\ row = beginRow(f, v, c, c)
    BY <1>5, <1>10, <1>12 DEF Null
  <2>5. Resumable(history[f])
    BY <1>3
  <2>1. row # NoRow /\ row.applied \in Nat /\ row.uncertain = c
    BY <1>5, <2>0, <2>5, BeginMarkedFacts
  <2>2. Marked(row) /\ Kept(row)
    BY <2>0, <2>1 DEF Marked, Kept, Resumable
  <2>3. Guarded(y, row)
    BY <1>1, <1>4, <1>8, <2>2 DEF Guarded
  <2>4. Covers(f, row)
    BY <2>2 DEF Shown, Covers
  <2> QED  BY <1>2, <1>5, <1>9, <1>11, <1>14, <2>3, <2>4, BeginTraced
<1>13. CASE ~(n > 1)
  <2>1. row = history[f] /\ n = 1
    BY <1>4, <1>10, <1>13
  <2>2. Guarded(y, row)
    BY <1>1, <1>8, <2>1 DEF Guarded
  <2>3. Covers(f, row)
    BY <1>3, <2>1 DEF Covers
  <2> QED  BY <1>2, <1>5, <1>9, <1>11, <1>14, <2>2, <2>3, BeginTraced
<1> QED  BY <1>12, <1>13

\* A file without a transaction gets a row that is not `single`.
LEMMA BeginBareTraced ==
    ASSUME Invariant, Traced, NEW r \in Runners, NEW f \in Files, BeginBare(r, f)
    PROVE  Traced'
<1>1. PICK v, i, p : /\ v = run[r].dir[f] /\ i = resumeFrom(run[r].seen[f])
                     /\ p = Following(ContentOf(f, v), i)
  OBVIOUS
<1>2. /\ Goes(r, [At(r, f, p, i) EXCEPT !.from = data[f], !.mark = data[f]])
      /\ Write(f, beginRow(f, v, i, Null)) /\ ContentOf(f, v).mode = "none"
      /\ Begins(r, f) /\ UNCHANGED <<disk, touched>>
  BY <1>1, Zenon DEF BeginBare, database
<1>3. Resumable(run[r].seen[f]) /\ Resumable(history[f])
  BY <1>2, BeginFacts
<1>4. i \in Nat
  BY <1>1, <1>3 DEF resumeFrom, Resumable
<1>5. p \in InFile /\ p # "segment"
  BY <1>1 DEF Following, InFile
<1>6. PICK x, d : x = At(r, f, p, i) /\ d = data[f]
  OBVIOUS
<1>7. PICK y : y = [x EXCEPT !.from = d, !.mark = d]
  OBVIOUS
<1>8. /\ y.pc = p /\ y.at = i /\ y.committed = 0
      /\ y.dir = run[r].dir /\ y.seen = run[r].seen /\ y.todo = run[r].todo /\ y.file = f
  BY <1>6, <1>7 DEF At
<1>9. run' = [run EXCEPT ![r] = y]
  BY <1>2, <1>6, <1>7 DEF Goes
<1>10. PICK row : row = beginRow(f, v, i, Null)
  OBVIOUS
<1>11. row # NoRow /\ row.applied \in Nat /\ (ContentOf(f, v).mode # "transactional" => ~row.single)
  BY <1>3, <1>4, <1>10, BeginRowFacts DEF Begun
<1>12. ~row.single
  BY <1>2, <1>11
<1>13. Covers(f, row)
  BY <1>11, <1>12 DEF Marked, Kept, Resumable, Shown, Covers
<1>16. Opens(run[r], y, f, p, i, 0)
  BY <1>8 DEF Opens
<1>14. Guarded(y, row)
  BY <1>5, <1>8, <1>11, <1>12 DEF Guarded
<1>15. history' = [history EXCEPT ![f] = row]
  BY <1>2, <1>10 DEF Write
<1> QED  BY <1>2, <1>4, <1>5, <1>9, <1>13, <1>14, <1>15, <1>16, BeginTraced

\* A transaction of several finds the row marked; the last one settles it.
LEMMA CommitSegmentTraced ==
    ASSUME Invariant, Traced, NEW r \in Runners, CommitSegment(r)
    PROVE  Traced'
<1>1. PICK f, n : f = run[r].file /\ n = Len(Script(r).segments)
  OBVIOUS
<1>2. /\ run[r].pc = "segment" /\ run[r].pc \in InFile /\ "segment" \in InFile
      /\ UNCHANGED disk /\ touched' = touched \cup {f}
      /\ IF run[r].at = n
         THEN Write(f, recordApplied(f, Version(r))) /\ NextFile(r)
         ELSE Goes(r, [run[r] EXCEPT !.at = @ + 1]) /\ UNCHANGED history
  BY <1>1 DEF CommitSegment, InFile, Current
<1>3. /\ Within(run[r]) /\ f \in Files /\ run[r].at \in Nat /\ run[r].committed \in Nat
      /\ Version(r) \in DOMAIN Contents[f] /\ Guarded(run[r], history[f])
  BY <1>1, <1>2, WithinFacts
<1>4. /\ n = Len(ContentOf(f, Version(r)).segments)
      /\ n = Len(ContentOf(f, run[r].dir[f]).segments) /\ n \in Nat
  BY <1>1, <1>3, SegmentsType DEF Script, Version, Current
<1>5. run[r].at \in 1..n /\ (n = 1 \/ Marked(history[f]))
  BY <1>1, <1>2, <1>3, <1>4 DEF Guarded
<1>6. CASE run[r].at = n
  <2>1. PICK row : row = recordApplied(f, Version(r))
    OBVIOUS
  <2>2. row.status = "applied"
    BY <2>1 DEF recordApplied, RowOf
  <2>3. Kept(row) /\ Shown(row)
    BY <2>2 DEF Kept, isSettled, Shown
  <2>4. history' = [history EXCEPT ![run[r].file] = row] /\ NextFile(r)
    BY <1>1, <1>2, <1>6, <2>1 DEF Write
  <2> QED  BY <1>1, <1>2, <2>3, <2>4, LeavesFileTraced
<1>7. CASE run[r].at # n
  <2>1. PICK i, y : i = run[r].at + 1 /\ y = [run[r] EXCEPT !.at = i]
    OBVIOUS
  <2>2. Continues(run[r], y, "segment", i, run[r].committed)
    BY <1>2, <1>3, <2>1, GoesOn, Zenon
  <2>3. i \in 1..n /\ n # 1
    <3>1. PICK k : k = run[r].at
      OBVIOUS
    <3>2. k \in 1..n /\ k # n /\ i = k + 1
      BY <1>5, <1>7, <2>1, <3>1
    <3>3. n \in Nat
      BY <1>4
    <3>4. i \in 1..n /\ n # 1
      BY <3>2, <3>3
    <3> QED  BY <3>4
  <2>6. i \in Nat /\ Marked(history[f])
    BY <1>5, <2>3
  <2>4. Guarded(y, history[f])
    BY <1>1, <1>4, <2>2, <2>3, <2>6 DEF Guarded, Continues
  <2>5. run' = [run EXCEPT ![r] = y] /\ UNCHANGED history
    BY <1>2, <1>7, <2>1 DEF Goes
  <2> QED  BY <1>1, <1>2, <1>3, <2>2, <2>4, <2>5, <2>6, WithinTraced
<1> QED  BY <1>6, <1>7

\* A failed transaction keeps the mark, and with it all that was committed before.
LEMMA FailSegmentTraced ==
    ASSUME Invariant, Traced, NEW r \in Runners, FailSegment(r)
    PROVE  Traced'
<1>1. PICK f, b : f = run[r].file /\ b = Earlier(Script(r), run[r].at)
  OBVIOUS
<1>2. /\ run[r].pc = "segment" /\ run[r].pc \in InFile /\ "segment" \in InFile
      /\ UNCHANGED <<disk, touched>>
  BY DEF FailSegment, InFile, database
<1>3. /\ Within(run[r]) /\ f \in Files /\ run[r].committed \in Nat
      /\ Version(r) \in DOMAIN Contents[f] /\ Guarded(run[r], history[f])
      /\ ~isSettled(history[f])
  BY <1>1, <1>2, WithinFacts
<1>4. PICK n : /\ n = Len(ContentOf(f, run[r].dir[f]).segments) /\ n \in Nat \ {0}
               /\ n = Len(Script(r).segments) /\ Script(r).segments \in Seq(Seq(Statement))
  BY <1>1, <1>3, SegmentsType DEF Script, Version, Current
<1>5. run[r].at \in 1..n /\ (n = 1 \/ Marked(history[f]))
  BY <1>1, <1>2, <1>3, <1>4 DEF Guarded
<1>6. b \in Nat
  BY <1>1, <1>4, <1>5, EarlierType
<1>7. PICK c : c = IF b > run[r].committed THEN b ELSE run[r].committed
  OBVIOUS
<1>8. c \in Nat
  <2>1. PICK k : k = run[r].committed
    OBVIOUS
  <2>2. k \in Nat /\ c = IF b > k THEN b ELSE k
    BY <1>3, <1>7, <2>1
  <2> QED  BY <1>6, <2>2
<1>9. \/ /\ Goes(r, [run[r] EXCEPT !.at = 1, !.attempt = run[r].attempt + 1, !.committed = c])
         /\ UNCHANGED <<history, lock>>
      \/ Write(f, markFailed(f, Version(r), c)) /\ Leave(r)
  BY <1>1, <1>7 DEF FailSegment, Current
<1>10. CASE Write(f, markFailed(f, Version(r), c)) /\ Leave(r)
  <2>1. PICK row : row = markFailed(f, Version(r), c)
    OBVIOUS
  <2>2. Kept(row) /\ (Marked(history[f]) => Shown(row))
    BY <1>3, <1>8, <2>1, MarkFailedFacts
  <2>3. f \in touched => Marked(history[f])
    BY <1>3 DEF Traced, Shown, isSettled
  <2>4. history' = [history EXCEPT ![run[r].file] = row] /\ run' = [run EXCEPT ![r] = Off]
    BY <1>1, <1>10, <2>1 DEF Write, Leave, Goes
  <2> QED  BY <1>1, <1>2, <2>2, <2>3, <2>4, LeavesFileTraced
<1>11. CASE /\ Goes(r, [run[r] EXCEPT !.at = 1, !.attempt = run[r].attempt + 1, !.committed = c])
            /\ UNCHANGED <<history, lock>>
  <2>1. PICK a, i : a = run[r].attempt + 1 /\ i = 1
    OBVIOUS
  <2>2. PICK y : y = [run[r] EXCEPT !.at = i, !.attempt = a, !.committed = c]
    OBVIOUS
  <2>3. Continues(run[r], y, "segment", i, c)
    BY <1>2, <1>3, <2>2, GoesOn, Zenon
  <2>4. run' = [run EXCEPT ![r] = y]
    BY <1>11, <2>1, <2>2 DEF Goes
  <2>5. i \in Nat /\ i \in 1..n
    BY <1>4, <2>1
  <2>6. Guarded(y, history[f])
    BY <1>1, <1>4, <1>5, <2>3, <2>5 DEF Guarded, Continues
  <2> QED  BY <1>1, <1>2, <1>8, <1>11, <2>3, <2>4, <2>5, <2>6, WithinTraced
<1> QED  BY <1>9, <1>10, <1>11

\* A statement of a file without a transaction: what it commits is marked.
LEMMA BareFacts ==
    ASSUME Invariant, Traced, NEW r \in Runners, run[r].pc \in InFile \ {"segment"}
    PROVE  /\ ~history[run[r].file].single /\ Marked(history[run[r].file])
           /\ history[run[r].file] # NoRow /\ history[run[r].file].applied \in Nat
           /\ RowShape(history[run[r].file])
<1>1. Guarded(run[r], history[run[r].file]) /\ Resumable(history[run[r].file])
  BY WithinFacts
<1>2. ~history[run[r].file].single /\ history[run[r].file] # NoRow
  BY <1>1 DEF Guarded
<1>3. RowShape(history[run[r].file])
  BY WithinFacts DEF Invariant, Shapes
<1> QED  BY <1>1, <1>2, <1>3 DEF Marked, Resumable

\* A step of such a file that writes its row and stays in it.
LEMMA BareWrites ==
    ASSUME Invariant, Traced, NEW r \in Runners, run[r].pc \in InFile \ {"segment"},
           NEW y, NEW p \in InFile \ {"segment"}, NEW i \in Nat, NEW c \in Nat,
           Continues(run[r], y, p, i, c), run' = [run EXCEPT ![r] = y],
           UNCHANGED <<disk, touched>>,
           NEW row, history' = [history EXCEPT ![run[r].file] = row],
           row # NoRow, ~row.single, row.applied \in Nat
    PROVE  Traced'
<1>1. run[r].pc \in InFile /\ p \in InFile
  OBVIOUS
<1>2. run[r].pc \in Holding /\ run[r].file \in Files
  BY <1>1, WithinFacts
<1>3. Placed(y)
  BY <1>1, PlacedWithin
<1>4. Kept(row) /\ Shown(row)
  BY DEF Kept, Resumable, Shown, Marked
<1>5. y.file = run[r].file /\ Guarded(y, row)
  BY DEF Continues, Guarded
<1> QED  BY <1>2, <1>3, <1>4, <1>5, StepWrites

LEMMA MarkUncertainTraced ==
    ASSUME Invariant, Traced, NEW r \in Runners, MarkUncertain(r)
    PROVE  Traced'
<1>1. /\ run[r].pc = "mark" /\ run[r].pc \in InFile \ {"segment"}
      /\ "exec" \in InFile \ {"segment"} /\ UNCHANGED <<disk, touched>>
  BY DEF MarkUncertain, InFile, database
<1>2. Within(run[r]) /\ run[r].at \in Nat /\ run[r].committed \in Nat
  BY <1>1, WithinFacts
<1>3. PICK h, u : h = history[run[r].file] /\ u = run[r].at
  OBVIOUS
<1>4. RowShape(h) /\ h # NoRow /\ ~h.single /\ h.applied \in Nat
  BY <1>1, <1>3, BareFacts
<1>5. PICK row : row = [h EXCEPT !.uncertain = u]
  OBVIOUS
<1>6. row = [status |-> h.status, single |-> h.single, sum |-> h.sum, applied |-> h.applied,
             uncertain |-> u]
  BY <1>4, <1>5 DEF RowShape
<1>7. row # NoRow /\ ~row.single /\ row.applied \in Nat
  BY <1>4, <1>6 DEF NoRow
<1>8. history' = [history EXCEPT ![run[r].file] = row]
  BY <1>3, <1>5 DEF MarkUncertain, Write, Current
<1>9. PICK y : y = [run[r] EXCEPT !.pc = "exec", !.attempt = 1]
  OBVIOUS
<1>10. Continues(run[r], y, "exec", run[r].at, run[r].committed)
  BY <1>2, <1>9, GoesOn, Zenon
<1>11. run' = [run EXCEPT ![r] = y]
  BY <1>9 DEF MarkUncertain, Goes
<1> QED  BY <1>1, <1>2, <1>7, <1>8, <1>10, <1>11, BareWrites

LEMMA ExecutesTraced ==
    ASSUME Invariant, Traced, NEW r \in Runners, Execute(r) \/ StartBuild(r) \/ EndBuild(r)
    PROVE  Traced'
<1>1. PICK p \in {"ran", "building"} :
         /\ run[r].pc \in {"exec", "building"}
         /\ Goes(r, [run[r] EXCEPT !.pc = p])
         /\ UNCHANGED <<disk, history>>
         /\ touched' = touched \/ touched' = touched \cup {run[r].file}
  BY DEF Execute, StartBuild, EndBuild, Current
<1>2. run[r].pc \in InFile \ {"segment"} /\ p \in InFile \ {"segment"}
  BY <1>1 DEF InFile
<1>3. Within(run[r]) /\ run[r].at \in Nat /\ run[r].committed \in Nat
  BY <1>2, WithinFacts
<1>4. /\ ~history[run[r].file].single /\ Marked(history[run[r].file])
      /\ history[run[r].file] # NoRow
  BY <1>2, BareFacts
<1>5. PICK y : y = [run[r] EXCEPT !.pc = p]
  OBVIOUS
<1>6. Continues(run[r], y, p, run[r].at, run[r].committed)
  BY <1>3, <1>5, GoesOn, Zenon
<1>7. Guarded(y, history[run[r].file])
  BY <1>2, <1>4, <1>6 DEF Guarded, Continues
<1>8. run' = [run EXCEPT ![r] = y]
  BY <1>1, <1>5 DEF Goes
<1> QED  BY <1>1, <1>2, <1>3, <1>4, <1>6, <1>7, <1>8, WithinTraced

LEMMA BatchTraced ==
    ASSUME Invariant, Traced, NEW r \in Runners, Batch(r)
    PROVE  Traced'
<1>1. /\ run[r].pc = "exec" /\ run[r].pc \in InFile \ {"segment"}
      /\ UNCHANGED <<disk, history>>
  BY DEF Batch, InFile
<1>2. Within(run[r]) /\ run[r].at \in Nat /\ run[r].committed \in Nat
  BY <1>1, WithinFacts
<1>3. /\ ~history[run[r].file].single /\ Marked(history[run[r].file])
      /\ history[run[r].file] # NoRow
  BY <1>1, BareFacts
<1>4. PICK y, p : /\ Continues(run[r], y, p, run[r].at, run[r].committed) /\ p \in {"exec", "ran"}
                  /\ run' = [run EXCEPT ![r] = y]
                  /\ touched' = touched \/ touched' = touched \cup {run[r].file}
  <2>1. CASE run[r].mark + 1 <= Script(r).rows
    <3>1. PICK n, y : n = run[r].mark + 1 /\ y = [run[r] EXCEPT !.mark = n]
      OBVIOUS
    <3>2. Continues(run[r], y, "exec", run[r].at, run[r].committed)
      BY <1>1, <1>2, <3>1, GoesOn, Zenon
    <3>3. run' = [run EXCEPT ![r] = y] /\ touched' = touched \cup {run[r].file}
      BY <2>1, <3>1 DEF Batch, Goes, Current
    <3> QED  BY <3>2, <3>3
  <2>2. CASE ~(run[r].mark + 1 <= Script(r).rows)
    <3>1. PICK y : y = [run[r] EXCEPT !.pc = "ran"]
      OBVIOUS
    <3>2. Continues(run[r], y, "ran", run[r].at, run[r].committed)
      BY <1>2, <3>1, GoesOn, Zenon
    <3>3. run' = [run EXCEPT ![r] = y] /\ touched' = touched
      BY <2>2, <3>1 DEF Batch, Goes, Current
    <3> QED  BY <3>2, <3>3
  <2> QED  BY <2>1, <2>2
<1>5. p \in InFile /\ run[r].pc \in InFile /\ p # "segment"
  BY <1>1, <1>4 DEF InFile
<1>6. Guarded(y, history[run[r].file])
  BY <1>3, <1>4, <1>5 DEF Guarded, Continues
<1> QED  BY <1>1, <1>2, <1>3, <1>4, <1>5, <1>6, WithinTraced

LEMMA FailStatementTraced ==
    ASSUME Invariant, Traced, NEW r \in Runners, FailStatement(r)
    PROVE  Traced'
<1>1. /\ run[r].pc \in {"exec", "building"} /\ run[r].pc \in InFile \ {"segment"}
      /\ "exec" \in InFile \ {"segment"} /\ UNCHANGED <<disk, touched>>
  BY DEF FailStatement, InFile, database
<1>2. /\ Within(run[r]) /\ run[r].at \in Nat /\ run[r].committed \in Nat
      /\ run[r].file \in Files
  BY <1>1, WithinFacts
<1>3. /\ ~history[run[r].file].single /\ Marked(history[run[r].file])
      /\ history[run[r].file] # NoRow
  BY <1>1, BareFacts
<1>4. CASE Write(run[r].file, markFailed(run[r].file, Version(r), run[r].at)) /\ Leave(r)
  <2>1. PICK row : row = markFailed(run[r].file, Version(r), run[r].at)
    OBVIOUS
  <2>2. Kept(row) /\ Shown(row)
    BY <1>2, <1>3, <2>1, MarkFailedFacts
  <2>3. history' = [history EXCEPT ![run[r].file] = row] /\ run' = [run EXCEPT ![r] = Off]
    BY <1>4, <2>1 DEF Write, Leave, Goes
  <2> QED  BY <1>1, <2>2, <2>3, LeavesFileTraced
<1>5. CASE /\ Goes(r, [run[r] EXCEPT !.pc = "exec", !.attempt = run[r].attempt + 1,
                                     !.mark = run[r].from])
           /\ UNCHANGED <<history, lock>>
  <2>1. PICK a, m : a = run[r].attempt + 1 /\ m = run[r].from
    OBVIOUS
  <2>2. PICK y : y = [run[r] EXCEPT !.pc = "exec", !.attempt = a, !.mark = m]
    OBVIOUS
  <2>3. Continues(run[r], y, "exec", run[r].at, run[r].committed)
    BY <1>2, <2>2, GoesOn, Zenon
  <2>4. run' = [run EXCEPT ![r] = y]
    BY <1>5, <2>1, <2>2 DEF Goes
  <2>5. Guarded(y, history[run[r].file])
    BY <1>3, <2>3 DEF Guarded, Continues
  <2> QED  BY <1>1, <1>2, <1>5, <2>3, <2>4, <2>5, WithinTraced
<1> QED  BY <1>4, <1>5 DEF FailStatement, Current

LEMMA MarkStatementAppliedTraced ==
    ASSUME Invariant, Traced, NEW r \in Runners, MarkStatementApplied(r)
    PROVE  Traced'
<1>1. /\ run[r].pc = "ran" /\ run[r].pc \in InFile \ {"segment"} /\ UNCHANGED <<disk, touched>>
  BY DEF MarkStatementApplied, InFile, database
<1>2. Within(run[r]) /\ run[r].at \in Nat /\ run[r].committed \in Nat
  BY <1>1, WithinFacts
<1>3. PICK h, i : h = history[run[r].file] /\ i = run[r].at + 1
  OBVIOUS
<1>4. RowShape(h) /\ h # NoRow /\ ~h.single /\ h.applied \in Nat
  BY <1>1, <1>3, BareFacts
<1>5. PICK n : n = IF h.applied > i THEN h.applied ELSE i
  OBVIOUS
<1>6. i \in Nat /\ n \in Nat
  BY <1>2, <1>3, <1>4, <1>5
<1>7. PICK row : row = [h EXCEPT !.applied = n, !.uncertain = Null]
  OBVIOUS
<1>8. row = [status |-> h.status, single |-> h.single, sum |-> h.sum, applied |-> n,
             uncertain |-> Null]
  BY <1>4, <1>7 DEF RowShape
<1>9. row # NoRow /\ ~row.single /\ row.applied \in Nat
  BY <1>4, <1>6, <1>8 DEF NoRow
<1>10. row = markStatementApplied(h, run[r].at)
  BY <1>3, <1>5, <1>7 DEF markStatementApplied
<1>11. history' = [history EXCEPT ![run[r].file] = row]
  BY <1>3, <1>10 DEF MarkStatementApplied, Write, Current
<1>12. PICK p : p = Following(Script(r), i)
  OBVIOUS
<1>13. p \in InFile \ {"segment"}
  BY <1>12 DEF Following, InFile
<1>14. PICK y : y = [run[r] EXCEPT !.pc = p, !.at = i]
  OBVIOUS
<1>15. Continues(run[r], y, p, i, run[r].committed)
  BY <1>2, <1>14, GoesOn, Zenon
<1>16. run' = [run EXCEPT ![r] = y]
  BY <1>3, <1>12, <1>14 DEF MarkStatementApplied, Goes
<1> QED  BY <1>1, <1>2, <1>6, <1>9, <1>11, <1>13, <1>15, <1>16, BareWrites

LEMMA MarkAppliedTraced ==
    ASSUME Invariant, Traced, NEW r \in Runners, MarkApplied(r)
    PROVE  Traced'
<1>1. /\ run[r].pc = "finish" /\ run[r].pc \in InFile /\ run[r].pc \in InFile \ {"segment"}
      /\ UNCHANGED <<disk, touched>>
  BY DEF MarkApplied, InFile, database
<1>2. PICK h, n : h = history[run[r].file] /\ n = Total(Script(r))
  OBVIOUS
<1>3. RowShape(h) /\ h # NoRow
  BY <1>1, <1>2, BareFacts
<1>4. PICK row : row = [h EXCEPT !.status = "applied", !.uncertain = Null, !.applied = n]
  OBVIOUS
<1>5. row.status = "applied"
  BY <1>3, <1>4 DEF RowShape
<1>6. Kept(row) /\ Shown(row)
  BY <1>5 DEF Kept, isSettled, Shown
<1>7. NextFile(r) /\ history' = [history EXCEPT ![run[r].file] = row]
  BY <1>2, <1>4 DEF MarkApplied, Current, Write
<1> QED  BY <1>1, <1>6, <1>7, LeavesFileTraced

-----------------------------------------------------------------------------
\* The steps of no run.
LEMMA OthersTraced ==
    ASSUME Invariant, Traced,
           \/ OrphanEnds
           \/ \E f \in Files : Edit(f)
           \/ UNCHANGED vars
    PROVE  Traced'
<1>1. UNCHANGED <<history, run, touched>>
  BY DEF OrphanEnds, Edit, database, vars
<1>2. disk' = [f \in Files |-> disk'[f]] /\ Readable(disk)'
  <2>1. CASE UNCHANGED disk
    BY <2>1 DEF Traced, Readable
  <2>2. ASSUME NEW f \in Files, Edit(f) PROVE disk' = [g \in Files |-> disk'[g]] /\ Readable(disk)'
    <3>1. PICK v \in DOMAIN Contents[f] \cup {Absent} : disk' = [disk EXCEPT ![f] = v]
      BY <2>2 DEF Edit
    <3>2. /\ disk' = [g \in Files |-> disk'[g]]
          /\ disk'[f] = v /\ \A g \in Files \ {f} : disk'[g] = disk[g]
      BY <3>1 DEF Traced
    <3> QED  BY <3>2 DEF Traced, Readable
  <2> QED  BY <2>1, <2>2 DEF OrphanEnds, vars
<1> QED  BY <1>1, <1>2 DEF Traced

\* Traced is kept by every step.
LEMMA NextTraced == Invariant /\ Traced /\ [Next]_vars => Traced'
<1> SUFFICES ASSUME Invariant, Traced, [Next]_vars PROVE Traced'
  OBVIOUS
<1>1. ASSUME NEW r \in Runners, Start(r) \/ AcquireLock(r) \/ GiveUp(r) \/ Crash(r)
      PROVE  Traced'
  BY <1>1, ReadsTraced, EndsTraced
<1>2. ASSUME NEW r \in Runners, Works(r) PROVE Traced'
  BY <1>2, ReconcileTraced, RecordSupersededTraced, EndsTraced, BeginSegmentsTraced,
     BeginBareTraced, CommitSegmentTraced, FailSegmentTraced, MarkUncertainTraced,
     ExecutesTraced, BatchTraced, FailStatementTraced, MarkStatementAppliedTraced,
     MarkAppliedTraced DEF Works
<1> QED  BY <1>1, <1>2, OthersTraced DEF Next

\* What every row shows of its file, in every reachable state.
THEOREM TracedHolds == Spec => []Traced
<1> QED  BY InitTraced, NextTraced, InvariantHolds, PTL DEF Spec

\* A row that lets its file be deleted stands for a file of which nothing was
\* ever committed, under any of its contents (store.ts, leftNothing).
THEOREM WithdrawnHolds == Spec => []WithdrawnLeftNothing
<1>1. Traced => WithdrawnLeftNothing
  BY DEF Traced, WithdrawnLeftNothing, Shown, Marked, leftNothing
<1> QED  BY <1>1, TracedHolds, PTL

-----------------------------------------------------------------------------
(* A flattened sequence holds what its sequences hold.                      *)

\* What holds of 1 and goes from i to i + 1 holds of all numbers up to n.
LEMMA Upto ==
    ASSUME NEW n \in Nat, NEW T, 1 \in T, \A i \in 1..(n-1) : i \in T => i + 1 \in T
    PROVE  1..n \subseteq T
<1>1. SUFFICES ASSUME (1..n) \ T # {} PROVE FALSE
  OBVIOUS
<1>2. (1..n) \ T \subseteq Nat
  OBVIOUS
<1>3. PICK m \in (1..n) \ T : \A k \in (1..n) \ T : m <= k
  BY <1>1, <1>2, Least
<1>4. m # 1 /\ m \in 1..n
  OBVIOUS
<1>5. m - 1 \in 1..(n-1) /\ m - 1 \in 1..n /\ ~(m <= m - 1)
  BY <1>4
<1>6. m - 1 \in T
  BY <1>3, <1>5
<1>7. (m - 1) + 1 \in T
  BY <1>5, <1>6
<1> QED  BY <1>4, <1>7

\* All concatenations of one sequence of sequences agree where both are.
LEMMA FlattensOnce ==
    ASSUME NEW seqs, NEW n \in Nat, NEW k \in 1..n, NEW g, NEW h,
           Flattens(h, seqs, n), Flattens(g, seqs, k)
    PROVE  g[k] = h[k]
<1> DEFINE T == {i \in 1..k : g[i] = h[i]}
<1>1. /\ \A i \in 1..n : h[i] = IF i = 1 THEN seqs[i] ELSE h[i-1] \o seqs[i]
      /\ \A i \in 1..k : g[i] = IF i = 1 THEN seqs[i] ELSE g[i-1] \o seqs[i]
  BY DEF Flattens
<1>2. 1 \in T
  BY <1>1
<1>3. ASSUME NEW i \in 1..(k-1), i \in T PROVE i + 1 \in T
  <2>1. i + 1 \in 1..k /\ i + 1 \in 1..n /\ i + 1 # 1 /\ (i + 1) - 1 = i
    OBVIOUS
  <2>2. g[i + 1] = g[i] \o seqs[i + 1] /\ h[i + 1] = h[i] \o seqs[i + 1]
    BY <1>1, <2>1
  <2> QED  BY <1>3, <2>1, <2>2
<1>4. 1..k \subseteq T
  <2> HIDE DEF T
  <2> QED  BY <1>2, <1>3, Upto
<1> QED  BY <1>4

\* A concatenation of the first sequences is one of the shorter sequence.
LEMMA FlattensPrefix ==
    ASSUME NEW S, NEW seqs \in Seq(S), NEW k \in 1..Len(seqs), NEW g,
           Flattens(g, SubSeq(seqs, 1, k), k)
    PROVE  Flattens(g, seqs, k)
<1>1. \A i \in 1..k : SubSeq(seqs, 1, k)[i] = seqs[i]
  OBVIOUS
<1>2. ASSUME NEW i \in 1..k
      PROVE  (IF i = 1 THEN SubSeq(seqs, 1, k)[i] ELSE g[i-1] \o SubSeq(seqs, 1, k)[i])
             = (IF i = 1 THEN seqs[i] ELSE g[i-1] \o seqs[i])
  BY <1>1
<1>3. g = [i \in 1..k |-> IF i = 1 THEN SubSeq(seqs, 1, k)[i]
                          ELSE g[i-1] \o SubSeq(seqs, 1, k)[i]]
  BY DEF Flattens
<1>4. [i \in 1..k |-> IF i = 1 THEN SubSeq(seqs, 1, k)[i] ELSE g[i-1] \o SubSeq(seqs, 1, k)[i]]
      = [i \in 1..k |-> IF i = 1 THEN seqs[i] ELSE g[i-1] \o seqs[i]]
  BY <1>2
<1> QED  BY <1>3, <1>4 DEF Flattens

\* Every h[k] is a sequence.
LEMMA FlattensType ==
    ASSUME NEW S, NEW seqs \in Seq(Seq(S)), NEW n \in Nat, n <= Len(seqs), NEW h,
           Flattens(h, seqs, n)
    PROVE  \A i \in 1..n : h[i] \in Seq(S)
<1> DEFINE T == {i \in 1..n : h[i] \in Seq(S)}
<1>1. \A i \in 1..n : h[i] = IF i = 1 THEN seqs[i] ELSE h[i-1] \o seqs[i]
  BY DEF Flattens
<1>2. \A i \in 1..n : seqs[i] \in Seq(S)
  OBVIOUS
<1>3. ASSUME n # 0 PROVE 1 \in T
  <2>1. 1 \in 1..n /\ h[1] = seqs[1]
    BY <1>1, <1>3
  <2> QED  BY <1>2, <2>1
<1>4. ASSUME NEW i \in 1..(n-1), i \in T PROVE i + 1 \in T
  <2>1. i + 1 \in 1..n /\ i + 1 # 1 /\ (i + 1) - 1 = i
    OBVIOUS
  <2>2. h[i + 1] = h[i] \o seqs[i + 1]
    BY <1>1, <2>1
  <2>3. h[i] \in Seq(S) /\ seqs[i + 1] \in Seq(S)
    BY <1>2, <1>4, <2>1
  <2>4. h[i + 1] \in Seq(S)
    BY <2>2, <2>3
  <2> QED  BY <2>1, <2>4
<1>5. n = 0 \/ 1..n \subseteq T
  <2> HIDE DEF T
  <2> QED  BY <1>3, <1>4, Upto
<1> QED  BY <1>5

\* h[k] holds what is in the first k sequences, and nothing else.
Holds(h, seqs, k) ==
    /\ \A m \in 1..k : \A i \in DOMAIN seqs[m] : \E j \in DOMAIN h[k] : h[k][j] = seqs[m][i]
    /\ \A j \in DOMAIN h[k] : \E m \in 1..k : \E i \in DOMAIN seqs[m] : h[k][j] = seqs[m][i]
    /\ \A m \in 1..k : /\ Len(h[m]) <= Len(h[k])
                       /\ \A j \in DOMAIN h[m] : h[k][j] = h[m][j]

LEMMA FlattensHolds ==
    ASSUME NEW S, NEW seqs \in Seq(Seq(S)), NEW n \in Nat, n <= Len(seqs), NEW h,
           Flattens(h, seqs, n)
    PROVE  \A k \in 1..n : Holds(h, seqs, k)
<1> DEFINE T == {k \in 1..n : Holds(h, seqs, k)}
<1>1. \A i \in 1..n : h[i] = IF i = 1 THEN seqs[i] ELSE h[i-1] \o seqs[i]
  BY DEF Flattens
<1>2. \A i \in 1..n : h[i] \in Seq(S) /\ seqs[i] \in Seq(S)
  BY FlattensType
<1>3. ASSUME n # 0 PROVE 1 \in T
  <2>1. h[1] = seqs[1] /\ h[1] \in Seq(S) /\ 1 \in 1..n
    BY <1>1, <1>2, <1>3
  <2>2. Holds(h, seqs, 1)
    BY <2>1 DEF Holds
  <2> QED  BY <2>1, <2>2
<1>4. ASSUME NEW k \in 1..(n-1), k \in T PROVE k + 1 \in T
  <2>1. k + 1 \in 1..n /\ k + 1 # 1 /\ (k + 1) - 1 = k /\ k \in 1..n
    OBVIOUS
  <2>2. h[k + 1] = h[k] \o seqs[k + 1]
    BY <1>1, <2>1
  <2>3. PICK p, q, s : p = h[k] /\ q = seqs[k + 1] /\ s = h[k + 1]
    OBVIOUS
  <2>4. p \in Seq(S) /\ q \in Seq(S) /\ s = p \o q
    BY <1>2, <2>1, <2>2, <2>3
  <2>5. /\ Len(p) \in Nat /\ Len(q) \in Nat /\ Len(s) = Len(p) + Len(q)
        /\ DOMAIN p = 1..Len(p) /\ DOMAIN q = 1..Len(q) /\ DOMAIN s = 1..Len(s)
        /\ \A j \in 1..Len(p) : s[j] = p[j]
        /\ \A j \in 1..Len(q) : s[Len(p) + j] = q[j]
    BY <2>4
  <2>6. \A j \in DOMAIN s : j \in DOMAIN p \/ (j - Len(p) \in DOMAIN q /\ s[j] = q[j - Len(p)])
    BY <2>5
  <2>7. Holds(h, seqs, k)
    BY <1>4
  <2>8. ASSUME NEW m \in 1..(k + 1), NEW i \in DOMAIN seqs[m]
        PROVE  \E j \in DOMAIN s : s[j] = seqs[m][i]
    <3>1. CASE m = k + 1
      <4>2. seqs[m] = q
        BY <2>3, <3>1
      <4>3. i \in DOMAIN q
        BY <2>8, <4>2
      <4>0. i \in 1..Len(q) /\ Len(p) + i \in 1..Len(s)
        BY <2>5, <4>3
      <4>1. Len(p) + i \in DOMAIN s /\ s[Len(p) + i] = q[i]
        BY <2>5, <4>0
      <4> QED  BY <2>3, <3>1, <4>1
    <3>2. CASE m # k + 1
      <4>1. PICK j \in DOMAIN p : p[j] = seqs[m][i]
        <5>1. m \in 1..k
          BY <3>2
        <5> QED  BY <2>3, <2>7, <2>8, <5>1 DEF Holds
      <4>2. j \in DOMAIN s /\ s[j] = p[j]
        BY <2>5, <4>1
      <4> QED  BY <4>1, <4>2
    <3> QED  BY <3>1, <3>2
  <2>9. ASSUME NEW j \in DOMAIN s
        PROVE  \E m \in 1..(k + 1) : \E i \in DOMAIN seqs[m] : s[j] = seqs[m][i]
    <3>1. CASE j \in DOMAIN p
      <4>1. s[j] = p[j]
        BY <2>5, <3>1
      <4>2. PICK m \in 1..k : \E i \in DOMAIN seqs[m] : p[j] = seqs[m][i]
        BY <2>3, <2>7, <3>1 DEF Holds
      <4>3. m \in 1..(k + 1)
        OBVIOUS
      <4> QED  BY <4>1, <4>2, <4>3
    <3>2. CASE j \notin DOMAIN p
      <4>1. j - Len(p) \in DOMAIN q /\ s[j] = q[j - Len(p)]
        BY <2>6, <2>9, <3>2
      <4>2. k + 1 \in 1..(k + 1)
        OBVIOUS
      <4> QED  BY <2>3, <4>1, <4>2
    <3> QED  BY <3>1, <3>2
  <2>10. ASSUME NEW m \in 1..(k + 1)
         PROVE  Len(h[m]) <= Len(s) /\ \A j \in DOMAIN h[m] : s[j] = h[m][j]
    <3>1. CASE m = k + 1
      <4>1. h[m] = s
        BY <2>3, <3>1
      <4> QED  BY <2>5, <4>1
    <3>2. CASE m # k + 1
      <4>1. m \in 1..k /\ m \in 1..n
        BY <3>2
      <4>2. h[m] \in Seq(S) /\ Len(h[m]) \in Nat /\ DOMAIN h[m] = 1..Len(h[m])
        BY <1>2, <4>1
      <4>3. Len(h[m]) <= Len(p) /\ \A j \in DOMAIN h[m] : p[j] = h[m][j]
        BY <2>3, <2>7, <4>1 DEF Holds
      <4> QED  BY <2>5, <4>2, <4>3
    <3> QED  BY <3>1, <3>2
  <2>11. Holds(h, seqs, k + 1)
    BY <2>3, <2>8, <2>9, <2>10 DEF Holds
  <2> QED  BY <2>1, <2>11
<1>5. n = 0 \/ 1..n \subseteq T
  <2> HIDE DEF T
  <2> QED  BY <1>3, <1>4, Upto
<1> QED  BY <1>5

-----------------------------------------------------------------------------
(* The statements of a content and those of its segments.                   *)

LEMMA StatementsFlat ==
    ASSUME NEW c, c.segments \in Seq(Seq(Statement)), Len(c.segments) # 0
    PROVE  /\ StatementsOf(c) \in Seq(Statement)
           /\ \A m \in DOMAIN c.segments : \A i \in DOMAIN c.segments[m] :
                 \E j \in DOMAIN StatementsOf(c) : StatementsOf(c)[j] = c.segments[m][i]
           /\ \A j \in DOMAIN StatementsOf(c) :
                 \E m \in DOMAIN c.segments : \E i \in DOMAIN c.segments[m] :
                    StatementsOf(c)[j] = c.segments[m][i]
           /\ \A k \in 1..Len(c.segments) : \A j \in DOMAIN StatementsOf(c) :
                 j <= Earlier(c, k) =>
                    \E m \in 1..(k - 1) : \E i \in DOMAIN c.segments[m] :
                       StatementsOf(c)[j] = c.segments[m][i]
<1>1. PICK seqs, n : seqs = c.segments /\ n = Len(seqs)
  OBVIOUS
<1>2. seqs \in Seq(Seq(Statement)) /\ n \in Nat /\ n # 0 /\ n <= Len(seqs) /\ n \in 1..n
      /\ DOMAIN seqs = 1..n
  BY <1>1
<1>3. PICK h : h = CHOOSE g : Flattens(g, seqs, n)
  OBVIOUS
<1>4. Flattens(h, seqs, n)
  BY <1>2, <1>3, FlattensExists, Zenon
<1>5. FlattenSeq(seqs) = h[n]
  BY <1>1, <1>2, <1>3 DEF FlattenSeq, Flattens
<1>6. StatementsOf(c) = h[n]
  BY <1>1, <1>5 DEF StatementsOf
<1>7. \A k \in 1..n : h[k] \in Seq(Statement) /\ Holds(h, seqs, k)
  BY <1>2, <1>4, FlattensType, FlattensHolds
<1>8. h[n] \in Seq(Statement) /\ Holds(h, seqs, n)
  BY <1>2, <1>7
<1>9. ASSUME NEW k \in 1..n, k # 1 PROVE Earlier(c, k) = Len(h[k - 1])
  <2>1. k - 1 \in 1..n /\ k - 1 \in 1..Len(seqs) /\ k - 1 # 0 /\ k - 1 \in Nat
    BY <1>2, <1>9
  <2>2. PICK sub : sub = SubSeq(seqs, 1, k - 1)
    OBVIOUS
  <2>3. Len(sub) = k - 1
    BY <1>2, <2>1, <2>2
  <2>4. PICK g : g = CHOOSE x : Flattens(x, sub, k - 1)
    OBVIOUS
  <2>5. Flattens(g, sub, k - 1)
    BY <2>1, <2>4, FlattensExists, Zenon
  <2>6. FlattenSeq(sub) = g[k - 1]
    BY <2>1, <2>3, <2>4 DEF FlattenSeq, Flattens
  <2>7. Flattens(g, seqs, k - 1)
    BY <1>2, <2>1, <2>2, <2>5, FlattensPrefix
  <2>8. g[k - 1] = h[k - 1]
    BY <1>2, <1>4, <2>1, <2>7, FlattensOnce
  <2>9. SubSeq(c.segments, 1, k - 1) = sub
    BY <1>1, <2>2
  <2> QED  BY <2>6, <2>8, <2>9 DEF Earlier
<1>10. Earlier(c, 1) = 0
  <2>1. PICK sub : sub = SubSeq(seqs, 1, 1 - 1)
    OBVIOUS
  <2>2. sub = <<>> /\ Len(sub) = 0
    BY <1>2, <2>1
  <2>3. FlattenSeq(sub) = sub
    BY <2>2 DEF FlattenSeq
  <2> QED  BY <1>1, <2>1, <2>2, <2>3 DEF Earlier
<1>11. ASSUME NEW k \in 1..n, NEW j \in DOMAIN h[n], j <= Earlier(c, k)
       PROVE  \E m \in 1..(k - 1) : \E i \in DOMAIN seqs[m] : h[n][j] = seqs[m][i]
  <2>0. DOMAIN h[n] = 1..Len(h[n]) /\ Len(h[n]) \in Nat
    BY <1>8
  <2>1. k # 1
    BY <1>10, <1>11, <2>0
  <2>2. k - 1 \in 1..n
    BY <1>2, <2>1
  <2>3. Holds(h, seqs, k - 1) /\ h[k - 1] \in Seq(Statement)
    BY <1>7, <2>2
  <2>4. j \in DOMAIN h[k - 1]
    BY <1>9, <1>11, <2>0, <2>1, <2>3
  <2>5. h[n][j] = h[k - 1][j]
    BY <1>8, <2>2, <2>4 DEF Holds
  <2>6. PICK m \in 1..(k - 1) : \E i \in DOMAIN seqs[m] : h[k - 1][j] = seqs[m][i]
    BY <2>3, <2>4 DEF Holds
  <2> QED  BY <2>5, <2>6
<1>12. /\ \A m \in DOMAIN seqs : \A i \in DOMAIN seqs[m] : \E j \in DOMAIN h[n] : h[n][j] = seqs[m][i]
       /\ \A j \in DOMAIN h[n] : \E m \in DOMAIN seqs : \E i \in DOMAIN seqs[m] : h[n][j] = seqs[m][i]
  <2>1. /\ \A m \in 1..n : \A i \in DOMAIN seqs[m] : \E j \in DOMAIN h[n] : h[n][j] = seqs[m][i]
        /\ \A j \in DOMAIN h[n] : \E m \in 1..n : \E i \in DOMAIN seqs[m] : h[n][j] = seqs[m][i]
    BY <1>8, Zenon DEF Holds
  <2> QED  BY <1>2, <2>1
<1>13. \A k \in 1..n : \A j \in DOMAIN h[n] : j <= Earlier(c, k) =>
          \E m \in 1..(k - 1) : \E i \in DOMAIN seqs[m] : h[n][j] = seqs[m][i]
  BY <1>11, Zenon
<1> QED  BY <1>1, <1>6, <1>8, <1>12, <1>13

-----------------------------------------------------------------------------
(* What the statements of a file have left.                                 *)

RowsOf(f) == ContentOf(f, 1).rows
Rebuilds(f) ==
    \E i, j \in DOMAIN Steps(f) : Steps(f)[i].drops \cap Steps(f)[j].makes # {}
Slowly(o) == \E f \in Files : \E i \in DOMAIN Steps(f) : Steps(f)[i].slow /\ o \in Steps(f)[i].makes

\* The first n statements of f have left what they make in the database d, and
\* its rows, if it has any, are among w.
Stands(d, w, f, n) ==
    /\ \A i \in DOMAIN Steps(f) : i <= n => \A o \in Steps(f)[i].makes : d[o] = "valid"
    /\ n > 0 => 1..RowsOf(f) \subseteq w[f]

\* Only a build leaves something invalid.
Sound(d) ==
    /\ d = [o \in Objects |-> d[o]]
    /\ \A o \in Objects : d[o] \in {"none", "invalid", "valid"}
    /\ \A o \in Objects : d[o] = "invalid" => Slowly(o)

\* What the row of f says was applied is there.
Truthful(d, w, f, row) ==
    row # NoRow =>
      /\ row.status # "superseded" => row.sum \in DOMAIN Contents[f]
      /\ row.applied \in Nat
      /\ Stands(d, w, f, row.applied)
      /\ row.status = "applied" => row.applied >= Len(Steps(f))
      /\ Rebuilds(f) /\ row.uncertain # Null => row.applied < Len(Steps(f))

\* What the first n - 1 transactions of c make is there.
Ended(d, c, n) ==
    \A m \in DOMAIN c.segments : m < n =>
        \A i \in DOMAIN c.segments[m] : \A o \in c.segments[m][i].makes : d[o] = "valid"

\* The same of a run in a file whose row it is: its place, and what it counts as
\* committed.
InStep(d, w, x, row) ==
    LET f == x.file
        n == Len(Steps(f))
    IN /\ x.pc = "segment" =>
            /\ ContentOf(f, x.dir[f]).mode # "none"
            /\ Stands(d, w, f, x.committed)
            /\ Ended(d, ContentOf(f, x.dir[f]), x.at)
       /\ x.pc \in {"mark", "exec", "building", "ran"} =>
            /\ x.at < n /\ Stands(d, w, f, x.at)
            /\ Rebuilds(f) => row.applied < n
       /\ x.pc = "building" => RowsOf(f) = 0
       /\ x.pc = "ran" => Stands(d, w, f, x.at + 1)
       /\ x.pc = "finish" => Stands(d, w, f, n)

Abreast(d, w, h, x) ==
    /\ x.pc \in InFile \cup {"files"} =>
          \A f \in x.todo : (x.pc \in InFile => f # x.file) => x.seen[f] = h[f]
    /\ x.pc \in InFile => InStep(d, w, x, h[x.file])

InPlace ==
    /\ Sound(db)
    /\ \A f \in Files : Truthful(db, visited, f, history[f])
    /\ \A r \in Runners : Abreast(db, visited, history, run[r])

-----------------------------------------------------------------------------
(* The statements of a file, and what Fitting says of them.                 *)

LEMMA StepsType ==
    ASSUME NEW f \in Files
    PROVE  /\ Steps(f) \in Seq(Statement) /\ Len(Steps(f)) \in Nat
           /\ DOMAIN Steps(f) = 1..Len(Steps(f))
           /\ \A i \in DOMAIN Steps(f) :
                 /\ Steps(f)[i].makes \subseteq Objects /\ Steps(f)[i].drops \subseteq Objects
                 /\ Steps(f)[i].slow \in BOOLEAN
<1>1. 1 \in DOMAIN Contents[f]
  <2>1. Contents[f] \in Seq(Content) /\ Contents[f] # <<>>
    BY RunnerAssumption
  <2> QED  BY <2>1
<1>2. PICK c : c = ContentOf(f, 1)
  OBVIOUS
<1>3. c.segments \in Seq(Seq(Statement)) /\ Len(c.segments) # 0
  BY <1>1, <1>2, SegmentsType
<1>4. PICK s : s = Steps(f)
  OBVIOUS
<1>5. s \in Seq(Statement)
  BY <1>2, <1>3, <1>4, StatementsFlat DEF Steps
<1>6. \A i \in DOMAIN s : s[i] \in Statement
  BY <1>5
<1>7. \A t \in Statement : t.makes \subseteq Objects /\ t.drops \subseteq Objects /\ t.slow \in BOOLEAN
  BY DEF Statement
<1>8. Len(s) \in Nat /\ DOMAIN s = 1..Len(s)
  BY <1>5
<1> QED  BY <1>4, <1>5, <1>6, <1>7, <1>8

\* No statement of f is a build.
Quick(f) == \A i \in DOMAIN Steps(f) : ~Steps(f)[i].slow

LEMMA ContentFits ==
    ASSUME Fitting, NEW f \in Files, NEW v \in DOMAIN Contents[f], NEW c, c = ContentOf(f, v)
    PROVE  /\ StatementsOf(c) = Steps(f) /\ Total(c) = Len(Steps(f))
           /\ c.rows = RowsOf(f) /\ RowsOf(f) \in Nat
           /\ c.mode # "none" => RowsOf(f) = 0 /\ Quick(f)
           /\ RowsOf(f) > 0 => Len(Steps(f)) = 1 /\ Steps(f)[1].makes = {}
<1>1. /\ StatementsOf(c) = Steps(f) /\ c.rows = ContentOf(f, 1).rows
      /\ c.rows > 0 => Len(Steps(f)) = 1 /\ Steps(f)[1].makes = {}
      /\ c.rows > 0 \/ (\E i \in DOMAIN Steps(f) : Steps(f)[i].slow) => c.mode = "none"
  BY DEF Fitting
<1>2. c.rows \in Nat
  <2>1. Contents[f] \in Seq(Content)
    BY RunnerAssumption
  <2>2. c \in Content
    BY <2>1 DEF ContentOf
  <2> QED  BY <2>2 DEF Content
<1> QED  BY <1>1, <1>2 DEF Total, RowsOf, Quick

\* What is made is dropped by a later build only, and by nobody else.
LEMMA DropFits ==
    ASSUME Fitting, NEW f \in Files, NEW g \in Files, NEW i \in DOMAIN Steps(f),
           NEW j \in DOMAIN Steps(g), NEW o, o \in Steps(f)[i].drops, o \in Steps(g)[j].makes
    PROVE  f = g /\ Steps(g)[j].slow /\ j = Len(Steps(g)) /\ Rebuilds(f)
<1>1. Steps(f)[i].drops \cap Steps(g)[j].makes # {}
  OBVIOUS
<1>2. f = g /\ Steps(g)[j].slow /\ j = Len(Steps(g))
  BY <1>1 DEF Fitting
<1> QED  BY <1>1, <1>2 DEF Rebuilds

\* What is built is made in no other way.
LEMMA BuildFits ==
    ASSUME Fitting, NEW f \in Files, NEW i \in DOMAIN Steps(f), ~Steps(f)[i].slow,
           NEW o, o \in Steps(f)[i].makes
    PROVE  ~Slowly(o)
  BY DEF Fitting, Slowly

-----------------------------------------------------------------------------
(* What a statement does to what others have left.                          *)

\* From d to e nothing is lost but what the last statement of f builds.
Keeps(d, e, f) ==
    \A g \in Files : \A i \in DOMAIN Steps(g) : \A o \in Steps(g)[i].makes :
        d[o] = "valid" => e[o] = "valid" \/ (g = f /\ i = Len(Steps(f)) /\ Rebuilds(f))

\* A statement outside of a transaction.
LEMMA AfterKeeps ==
    ASSUME Fitting, NEW d, Sound(d), NEW f \in Files, NEW i \in DOMAIN Steps(f),
           NEW as \in {"valid", "invalid"}, as = "invalid" => Steps(f)[i].slow,
           NEW e, e = After(d, Steps(f)[i], as)
    PROVE  /\ Sound(e) /\ Keeps(d, e, f)
           /\ ~Steps(f)[i].slow => \A o \in Steps(f)[i].makes : e[o] = "valid"
<1>1. PICK s : s = Steps(f)[i]
  OBVIOUS
<1>2. s.makes \subseteq Objects /\ s.drops \subseteq Objects
  BY <1>1, StepsType
<1>3. e = [o \in Objects |-> IF o \in s.drops THEN "none"
                            ELSE IF o \in s.makes /\ d[o] = "none" THEN as ELSE d[o]]
  BY <1>1 DEF After
<1>4. /\ e = [o \in Objects |-> e[o]]
      /\ \A o \in Objects : e[o] = IF o \in s.drops THEN "none"
                            ELSE IF o \in s.makes /\ d[o] = "none" THEN as ELSE d[o]
  BY <1>3
<1>5. \A o \in Objects : d[o] \in {"none", "invalid", "valid"} /\ (d[o] = "invalid" => Slowly(o))
  BY DEF Sound
<1>6. Sound(e)
  <2>1. ASSUME NEW o \in Objects, e[o] = "invalid" PROVE Slowly(o)
    <3>1. CASE d[o] = "invalid"
      BY <1>5, <3>1
    <3>2. CASE d[o] # "invalid"
      <4>1. o \in s.makes /\ as = "invalid"
        BY <1>4, <2>1, <3>2
      <4> QED  BY <1>1, <4>1 DEF Slowly
    <3> QED  BY <3>1, <3>2
  <2>2. \A o \in Objects : e[o] \in {"none", "invalid", "valid"}
    BY <1>4, <1>5
  <2> QED  BY <1>4, <2>1, <2>2 DEF Sound
<1>7. Keeps(d, e, f)
  <2> SUFFICES ASSUME NEW g \in Files, NEW j \in DOMAIN Steps(g), NEW o \in Steps(g)[j].makes,
                      d[o] = "valid", e[o] # "valid"
               PROVE  g = f /\ j = Len(Steps(f)) /\ Rebuilds(f)
    BY DEF Keeps
  <2>1. o \in Objects
    BY StepsType
  <2>2. o \in Steps(f)[i].drops
    BY <1>1, <1>4, <2>1
  <2> QED  BY <2>2, DropFits
<1>8. ASSUME ~s.slow, NEW o \in s.makes PROVE e[o] = "valid"
  <2>1. o \notin s.drops
    BY <1>1, <1>8, DropFits
  <2>2. o \in Objects /\ ~Slowly(o) /\ as = "valid"
    BY <1>1, <1>2, <1>8, BuildFits
  <2> QED  BY <1>4, <1>5, <1>8, <2>1, <2>2
<1> QED  BY <1>1, <1>6, <1>7, <1>8

\* A transaction of a file without builds.
LEMMA TransactionKeeps ==
    ASSUME Fitting, NEW d, Sound(d), NEW f \in Files, Quick(f), NEW seq,
           \A i \in DOMAIN seq : \E j \in DOMAIN Steps(f) : Steps(f)[j] = seq[i],
           NEW e, e = AfterAll(d, seq)
    PROVE  /\ Sound(e) /\ Keeps(d, e, f)
           /\ \A i \in DOMAIN seq : \A o \in seq[i].makes : e[o] = "valid"
<1>1. /\ e = [o \in Objects |-> e[o]]
      /\ \A o \in Objects :
            e[o] = LET before == IF Dropped(o, seq) THEN "none" ELSE d[o]
                   IN IF before = "none" /\ Remade(o, seq) THEN "valid" ELSE before
  BY DEF AfterAll
<1>2. ASSUME NEW g \in Files, NEW j \in DOMAIN Steps(g), NEW o \in Steps(g)[j].makes
      PROVE  o \in Objects /\ \A i \in DOMAIN seq : o \notin seq[i].drops
  <2>1. o \in Objects
    BY <1>2, StepsType
  <2>2. ASSUME NEW i \in DOMAIN seq, o \in seq[i].drops PROVE FALSE
    <3>1. PICK k \in DOMAIN Steps(f) : Steps(f)[k] = seq[i]
      BY <2>2
    <3>2. f = g /\ Steps(g)[j].slow
      BY <1>2, <2>2, <3>1, DropFits
    <3> QED  BY <1>2, <3>2 DEF Quick
  <2> QED  BY <2>1, <2>2
<1>3. \A o \in Objects : d[o] \in {"none", "invalid", "valid"} /\ (d[o] = "invalid" => Slowly(o))
  BY DEF Sound
<1>4. Sound(e)
  BY <1>1, <1>3 DEF Sound
<1>5. Keeps(d, e, f)
  <2> SUFFICES ASSUME NEW g \in Files, NEW j \in DOMAIN Steps(g), NEW o \in Steps(g)[j].makes,
                      d[o] = "valid"
               PROVE  e[o] = "valid"
    BY DEF Keeps
  <2>1. o \in Objects /\ ~Dropped(o, seq)
    BY <1>2 DEF Dropped
  <2> QED  BY <1>1, <2>1
<1>6. ASSUME NEW i \in DOMAIN seq, NEW o \in seq[i].makes PROVE e[o] = "valid"
  <2>1. PICK k \in DOMAIN Steps(f) : Steps(f)[k] = seq[i]
    BY <1>6
  <2>2. o \in Steps(f)[k].makes
    BY <1>6, <2>1
  <2>3. o \in Objects /\ \A j \in DOMAIN seq : o \notin seq[j].drops
    BY <1>2, <2>2
  <2>4. ~Dropped(o, seq) /\ Remade(o, seq)
    BY <1>6, <2>3 DEF Dropped, Remade
  <2>5. ~Slowly(o)
    BY <2>2, BuildFits DEF Quick
  <2> QED  BY <1>1, <1>3, <2>3, <2>4, <2>5
<1> QED  BY <1>4, <1>5, <1>6

\* A build that ends leaves what it makes valid, and all else as it was.
LEMMA BuiltKeeps ==
    ASSUME NEW d, Sound(d), NEW B, NEW e, e = [o \in Objects |-> IF o \in B THEN "valid" ELSE d[o]]
    PROVE  Sound(e) /\ \A o \in Objects : (d[o] = "valid" \/ o \in B) => e[o] = "valid"
  BY DEF Sound

\* What stands goes on standing, if it does not end with a build that is dropped.
LEMMA StandsOn ==
    ASSUME NEW d, NEW e, NEW f, Keeps(d, e, f), NEW w, NEW w2, NEW g \in Files,
           w[g] \subseteq w2[g], NEW n \in Nat, Stands(d, w, g, n),
           g = f /\ Rebuilds(f) => n < Len(Steps(f))
    PROVE  Stands(e, w2, g, n)
<1>1. ASSUME NEW i \in DOMAIN Steps(g), i <= n, NEW o \in Steps(g)[i].makes
      PROVE  e[o] = "valid"
  <2>1. d[o] = "valid"
    BY <1>1 DEF Stands
  <2>2. g = f /\ Rebuilds(f) => i # Len(Steps(f))
    <3>1. i \in Nat /\ Len(Steps(g)) \in Nat
      BY StepsType
    <3> QED  BY <1>1, <3>1
  <2> QED  BY <2>1, <2>2 DEF Keeps
<1> QED  BY <1>1 DEF Stands

LEMMA StandsKept ==
    ASSUME NEW d, NEW e, NEW f \in Files, Keeps(d, e, f), NEW w, NEW w2, w[f] \subseteq w2[f],
           NEW n \in Nat, Stands(d, w, f, n), Rebuilds(f) => n < Len(Steps(f))
    PROVE  Stands(e, w2, f, n)
<1>1. PICK g : g = f
  OBVIOUS
<1>2. Stands(e, w2, g, n)
  BY <1>1, StandsOn
<1> QED  BY <1>1, <1>2

\* Fewer statements stand as well.
LEMMA StandsLess ==
    ASSUME NEW d, NEW w, NEW f \in Files, NEW n \in Nat, Stands(d, w, f, n), NEW m \in Nat, m <= n
    PROVE  Stands(d, w, f, m)
<1>1. DOMAIN Steps(f) \subseteq Nat
  BY StepsType
<1> QED  BY <1>1 DEF Stands

\* Before the first statement nothing has to stand.
LEMMA StandsNone == ASSUME NEW d, NEW w, NEW f \in Files PROVE Stands(d, w, f, 0)
<1>1. DOMAIN Steps(f) = 1..Len(Steps(f)) /\ Len(Steps(f)) \in Nat
  BY StepsType
<1> QED  BY <1>1 DEF Stands

-----------------------------------------------------------------------------
(* What a step has to show of InPlace.                                      *)

\* At the start there is nothing.
LEMMA InitInPlace == Init => InPlace
<1> SUFFICES ASSUME Init PROVE InPlace
  OBVIOUS
<1>1. Sound(db)
  BY DEF Init, Sound
<1>2. \A f \in Files : Truthful(db, visited, f, history[f])
  BY DEF Init, Truthful
<1>3. \A r \in Runners : Abreast(db, visited, history, run[r])
  BY DEF Init, Off, Abreast, InFile
<1> QED  BY <1>1, <1>2, <1>3 DEF InPlace

\* What the step leaves of other files.
Spares(f) ==
    \A g \in Files \ {f} : \A n \in Nat : Stands(db, visited, g, n) => Stands(db, visited, g, n)'

\* The holder of the lock writes the row of f, and no other run is in a file.
LEMMA StepInPlace ==
    ASSUME Invariant, InPlace, NEW r \in Runners, run[r].pc \in Holding,
           NEW y, run' = [run EXCEPT ![r] = y],
           NEW f \in Files, NEW row, history' = [history EXCEPT ![f] = row],
           Sound(db'), Spares(f), Truthful(db', visited', f, row),
           Abreast(db', visited', history', y)
    PROVE  InPlace'
<1>1. run'[r] = y /\ \A q \in Runners \ {r} : run'[q] = run[q]
  BY DEF Invariant, Shapes
<1>2. history'[f] = row /\ \A g \in Files \ {f} : history'[g] = history[g]
  BY DEF Invariant, Shapes
<1>3. \A q \in Runners \ {r} : run[q].pc \notin Holding
  BY RunnerAssumption DEF Invariant, Exclusive
<1>4. ASSUME NEW q \in Runners PROVE Abreast(db', visited', history', run'[q])
  <2>1. CASE q = r
    BY <1>1, <2>1
  <2>2. CASE q # r
    BY <1>1, <1>3, <2>2 DEF Abreast, Holding
  <2> QED  BY <2>1, <2>2
<1>5. ASSUME NEW g \in Files PROVE Truthful(db', visited', g, history'[g])
  <2>1. CASE g = f
    BY <1>2, <2>1
  <2>2. CASE g # f
    <3>1. Truthful(db, visited, g, history[g]) /\ history'[g] = history[g]
      BY <1>2, <2>2 DEF InPlace
    <3>2. \A n \in Nat : Stands(db, visited, g, n) => Stands(db', visited', g, n)
      BY <2>2 DEF Spares
    <3> QED  BY <3>1, <3>2 DEF Truthful
  <2> QED  BY <2>1, <2>2
<1> QED  BY <1>4, <1>5 DEF InPlace

\* A run that is in no file, while nothing else changes.
LEMMA IdleInPlace ==
    ASSUME Invariant, InPlace, NEW r \in Runners, NEW y, run' = [run EXCEPT ![r] = y],
           UNCHANGED <<db, visited, history>>, Abreast(db, visited, history, y)
    PROVE  InPlace'
<1>1. run'[r] = y /\ \A q \in Runners \ {r} : run'[q] = run[q]
  BY DEF Invariant, Shapes
<1>2. \A q \in Runners : Abreast(db, visited, history, run'[q])
  BY <1>1 DEF InPlace
<1> QED  BY <1>2 DEF InPlace

\* What is spared when nothing is touched but f.
LEMMA Untouched == ASSUME UNCHANGED <<db, visited>>, NEW f PROVE Spares(f)
  BY DEF Spares, Stands

\* A step within a file.
LEMMA WithinInPlace ==
    ASSUME Invariant, Traced, InPlace, NEW r \in Runners, run[r].pc \in InFile,
           NEW y, NEW p \in InFile, NEW i, NEW c, Continues(run[r], y, p, i, c),
           run' = [run EXCEPT ![r] = y],
           NEW row, history' = [history EXCEPT ![run[r].file] = row],
           Sound(db'), Spares(run[r].file), Truthful(db', visited', run[r].file, row),
           InStep(db', visited', y, row)
    PROVE  InPlace'
<1>1. run[r].pc \in Holding /\ run[r].file \in Files
  BY WithinFacts
<1>2. /\ y.pc = p /\ y.seen = run[r].seen /\ y.todo = run[r].todo /\ y.file = run[r].file
  BY DEF Continues
<1>3. /\ history'[run[r].file] = row
      /\ \A g \in Files \ {run[r].file} : history'[g] = history[g]
  BY <1>1 DEF Invariant, Shapes
<1>4. \A g \in run[r].todo : g \in Files
  BY DEF Traced, Placed
<1>5. \A g \in run[r].todo : g # run[r].file => run[r].seen[g] = history[g]
  BY DEF InPlace, Abreast
<1>6. Abreast(db', visited', history', y)
  BY <1>2, <1>3, <1>4, <1>5 DEF Abreast
<1> QED  BY <1>1, <1>6, StepInPlace

\* The end of a file: its row is written, the run goes on or ends.
LEMMA LeavesInPlace ==
    ASSUME Invariant, Traced, InPlace, NEW r \in Runners, run[r].pc \in InFile,
           NextFile(r) \/ run' = [run EXCEPT ![r] = Off],
           NEW row, history' = [history EXCEPT ![run[r].file] = row],
           Sound(db'), Spares(run[r].file), Truthful(db', visited', run[r].file, row)
    PROVE  InPlace'
<1>1. run[r].pc \in Holding /\ run[r].file \in Files
  BY WithinFacts
<1>2. /\ \A g \in Files \ {run[r].file} : history'[g] = history[g]
  BY <1>1 DEF Invariant, Shapes
<1>3. \A g \in run[r].todo : g \in Files
  BY DEF Traced, Placed
<1>4. \A g \in run[r].todo : g # run[r].file => run[r].seen[g] = history[g]
  BY DEF InPlace, Abreast
<1>5. PICK y : run' = [run EXCEPT ![r] = y] /\ Abreast(db', visited', history', y)
  <2>1. CASE NextFile(r)
    <3>1. PICK y : y = [pc |-> "files", dir |-> run[r].dir, seen |-> run[r].seen, jumped |-> {},
                        todo |-> run[r].todo \ {run[r].file}]
      OBVIOUS
    <3>2. run' = [run EXCEPT ![r] = y]
      BY <2>1, <3>1 DEF NextFile, Goes, Current
    <3>3. y.pc = "files" /\ y.seen = run[r].seen /\ y.todo = run[r].todo \ {run[r].file}
      BY <3>1
    <3>4. "files" \notin InFile
      BY DEF InFile
    <3>5. Abreast(db', visited', history', y)
      BY <1>2, <1>3, <1>4, <3>3, <3>4 DEF Abreast
    <3> QED  BY <3>2, <3>5
  <2>2. CASE run' = [run EXCEPT ![r] = Off]
    <3>1. Abreast(db', visited', history', Off)
      BY DEF Off, Abreast, InFile
    <3> QED  BY <2>2, <3>1
  <2> QED  BY <2>1, <2>2
<1> QED  BY <1>1, <1>5, StepInPlace

-----------------------------------------------------------------------------
(* InPlace at the start of a run.                                           *)

\* A run that is in no file relies on nothing.
LEMMA IdlesInPlace ==
    ASSUME Invariant, InPlace, NEW r \in Runners,
           Start(r) \/ AcquireLock(r) \/ GiveUp(r) \/ Finish(r) \/ Crash(r)
    PROVE  InPlace'
<1>1. PICK y : run' = [run EXCEPT ![r] = y] /\ y.pc \notin InFile \cup {"files"}
  <2>1. CASE Start(r)
    <3>1. PICK i : run' = [run EXCEPT ![r] = [pc |-> "waiting", dir |-> disk, ignore |-> i]]
      BY <2>1 DEF Start, Goes
    <3>2. PICK y : y = [pc |-> "waiting", dir |-> disk, ignore |-> i]
      OBVIOUS
    <3>3. y.pc = "waiting" /\ run' = [run EXCEPT ![r] = y]
      BY <3>1, <3>2
    <3> QED  BY <3>3 DEF InFile
  <2>2. CASE AcquireLock(r)
    <3>1. PICK y : y = [run[r] EXCEPT !.pc = "locked"]
      OBVIOUS
    <3>2. Unstarted(run[r]) /\ run' = [run EXCEPT ![r] = y]
      BY <2>2, <3>1 DEF AcquireLock, Goes, Invariant, Shapes, RunShape, Off, InFile
    <3>3. y.pc = "locked"
      BY <3>1, <3>2 DEF Unstarted
    <3> QED  BY <3>2, <3>3 DEF InFile
  <2>3. CASE GiveUp(r) \/ Finish(r) \/ Crash(r)
    <3>1. run' = [run EXCEPT ![r] = Off]
      BY <2>3 DEF GiveUp, Finish, Crash, Leave, Goes
    <3>2. Off.pc = "off"
      BY DEF Off
    <3> QED  BY <3>1, <3>2 DEF InFile
  <2> QED  BY <2>1, <2>2, <2>3
<1>2. UNCHANGED <<db, visited, history>>
  BY DEF Start, AcquireLock, GiveUp, Finish, Crash, database
<1>3. Abreast(db, visited, history, y)
  BY <1>1 DEF Abreast
<1> QED  BY <1>1, <1>2, <1>3, IdleInPlace

\* A run has seen the rows as they are.
LEMMA ReconcileInPlace ==
    ASSUME Invariant, InPlace, NEW r \in Runners, Reconcile(r)
    PROVE  InPlace'
<1> DEFINE jumped == Superseded(history, run[r].dir, run[r].ignore)
           pending == {f \in Files : run[r].dir[f] # Absent /\ ~isSettled(history[f])}
<1>1. UNCHANGED <<db, visited, history>>
  BY DEF Reconcile, database
<1>2. CASE Drifted(history, run[r].dir)
  <2>1. run' = [run EXCEPT ![r] = Off]
    BY <1>2 DEF Reconcile, Leave, Goes
  <2>2. Abreast(db, visited, history, Off)
    BY DEF Off, Abreast, InFile
  <2> QED  BY <1>1, <2>1, <2>2, IdleInPlace
<1>3. CASE ~Drifted(history, run[r].dir)
  <2>1. PICK y : y = [pc |-> "files", dir |-> run[r].dir, seen |-> history,
                      jumped |-> jumped, todo |-> pending \ jumped]
    OBVIOUS
  <2>2. run' = [run EXCEPT ![r] = y]
    BY <1>3, <2>1 DEF Reconcile, Goes
  <2>3. y.pc = "files" /\ y.seen = history
    BY <2>1
  <2>4. Abreast(db, visited, history, y)
    BY <2>3 DEF Abreast, InFile
  <2> QED  BY <1>1, <2>2, <2>4, IdleInPlace
<1> QED  BY <1>2, <1>3

\* A file that is jumped is not among those the run has left to do.
LEMMA RecordSupersededInPlace ==
    ASSUME Invariant, Traced, InPlace, NEW r \in Runners, RecordSuperseded(r)
    PROVE  InPlace'
<1>1. PICK f, row :
         /\ f \in run[r].jumped
         /\ row = IF history[f] = NoRow THEN RowOf(f, run[r].dir[f], "superseded", 0, Null)
                  ELSE history[f]
         /\ history' = [history EXCEPT ![f] = row]
         /\ Goes(r, [run[r] EXCEPT !.jumped = @ \ {f}])
  BY DEF RecordSuperseded, Write
<1>2. run[r].pc = "files" /\ run[r].pc \in Holding /\ UNCHANGED <<db, visited>>
  BY DEF RecordSuperseded, database, Holding
<1>3. Between(run[r])
  BY <1>2 DEF Invariant, Shapes, RunShape, Off, InFile
<1>4. PICK y : y = [run[r] EXCEPT !.jumped = run[r].jumped \ {f}]
  OBVIOUS
<1>5. y.pc = "files" /\ y.todo = run[r].todo /\ y.seen = run[r].seen
  BY <1>2, <1>3, <1>4 DEF Between
<1>6. run' = [run EXCEPT ![r] = y]
  BY <1>1, <1>4 DEF Goes
<1>7. f \notin run[r].todo
  BY <1>1, <1>2 DEF Invariant, Exclusive
<1>8. "files" \notin InFile /\ \A g \in run[r].todo : g \in Files /\ run[r].seen[g] = history[g]
  BY <1>2 DEF Traced, Placed, InPlace, Abreast, InFile
<1>9. \A g \in Files \ {f} : history'[g] = history[g]
  BY <1>1 DEF Invariant, Shapes
<1>10. Abreast(db, visited, history', y)
  BY <1>5, <1>7, <1>8, <1>9 DEF Abreast
<1>11. CASE f \in Files
  <2>1. Truthful(db, visited, f, row)
    <3>1. CASE history[f] # NoRow
      BY <1>1, <1>11, <3>1 DEF InPlace
    <3>2. CASE history[f] = NoRow
      <4>1. row.status = "superseded" /\ row.applied = 0 /\ row.uncertain = Null
        BY <1>1, <3>2 DEF RowOf
      <4> QED  BY <1>11, <4>1, StandsNone DEF Truthful
    <3> QED  BY <3>1, <3>2
  <2>2. Sound(db) /\ db' = db /\ visited' = visited
    BY <1>2 DEF InPlace
  <2>3. Spares(f)
    BY <1>2, Untouched
  <2> QED  BY <1>1, <1>2, <1>6, <1>10, <1>11, <2>1, <2>2, <2>3, StepInPlace
<1>12. CASE f \notin Files
  <2>1. history' = history
    BY <1>1, <1>12 DEF Invariant, Shapes
  <2> QED  BY <1>2, <1>6, <1>10, <2>1, IdleInPlace
<1> QED  BY <1>11, <1>12

-----------------------------------------------------------------------------
(* The rows that a run writes are true.                                     *)

\* A file without builds drops nothing that is made.
LEMMA QuickFits == ASSUME Fitting, NEW f \in Files, Quick(f) PROVE ~Rebuilds(f)
<1> SUFFICES ASSUME Rebuilds(f) PROVE FALSE
  OBVIOUS
<1>1. PICK i \in DOMAIN Steps(f), j \in DOMAIN Steps(f) :
         \E o : o \in Steps(f)[i].drops /\ o \in Steps(f)[j].makes
  BY DEF Rebuilds
<1>2. Steps(f)[j].slow
  BY <1>1, DropFits
<1> QED  BY <1>2 DEF Quick

LEMMA BeginRowTruthful ==
    ASSUME Invariant, InPlace, NEW f \in Files, NEW v \in DOMAIN Contents[f],
           NEW a \in Nat, Stands(db, visited, f, a), NEW u, Rebuilds(f) => u = Null,
           NEW row, row = beginRow(f, v, a, u)
    PROVE  /\ Truthful(db, visited, f, row)
           /\ row.applied = IF history[f] = NoRow THEN a ELSE history[f].applied
<1>1. PICK new : new = RowOf(f, v, "running", a, u)
  OBVIOUS
<1>2. PICK s : s = (ContentOf(f, v).mode = "transactional")
  OBVIOUS
<1>3. new = [status |-> "running", single |-> s, sum |-> v, applied |-> a, uncertain |-> u]
  BY <1>1, <1>2 DEF RowOf
<1>4. CASE history[f] = NoRow
  <2>1. row = new
    BY <1>1, <1>4 DEF beginRow
  <2>2. row.status = "running" /\ row.sum = v /\ row.applied = a /\ row.uncertain = u
    BY <1>3, <2>1
  <2> QED  BY <1>4, <2>2 DEF Truthful
<1>5. CASE history[f] # NoRow
  <2>1. PICK h : h = history[f].applied
    OBVIOUS
  <2>2. PICK w : w = IF u = Null THEN history[f].uncertain ELSE new.uncertain
    OBVIOUS
  <2>3. PICK z : z = [new EXCEPT !.applied = h, !.uncertain = w]
    OBVIOUS
  <2>4. row = z
    BY <1>1, <1>5, <2>1, <2>2, <2>3, Zenon DEF beginRow
  <2>5. z = [status |-> "running", single |-> s, sum |-> v, applied |-> h, uncertain |-> w]
    BY <1>3, <2>3
  <2>6. row.status = "running" /\ row.sum = v /\ row.applied = h /\ row.uncertain = w
    BY <2>4, <2>5
  <2>7. Truthful(db, visited, f, history[f])
    BY DEF InPlace
  <2>8. h \in Nat /\ Stands(db, visited, f, h)
    BY <1>5, <2>1, <2>7 DEF Truthful
  <2>9. Rebuilds(f) /\ w # Null => h < Len(Steps(f))
    BY <1>5, <2>1, <2>2, <2>7 DEF Truthful
  <2> QED  BY <1>5, <2>1, <2>6, <2>8, <2>9 DEF Truthful
<1> QED  BY <1>4, <1>5

LEMMA MarkFailedTruthful ==
    ASSUME Invariant, InPlace, NEW f \in Files, ~isSettled(history[f]),
           NEW v \in DOMAIN Contents[f], NEW a \in Nat, Stands(db, visited, f, a),
           Rebuilds(f) => a < Len(Steps(f))
    PROVE  Truthful(db, visited, f, markFailed(f, v, a))
<1>1. CASE history[f] = NoRow
  <2>1. PICK row : row = markFailed(f, v, a)
    OBVIOUS
  <2>2. row.status = "failed" /\ row.sum = v /\ row.applied = a /\ row.uncertain = Null
    BY <1>1, <2>1 DEF markFailed, RowOf
  <2> QED  BY <2>1, <2>2 DEF Truthful
<1>2. CASE history[f] # NoRow
  <2>1. PICK h : h = history[f]
    OBVIOUS
  <2>2. PICK z : z = [h EXCEPT !.status = "failed", !.applied = a]
    OBVIOUS
  <2>3. RowShape(h) /\ h # NoRow
    BY <1>2, <2>1 DEF Invariant, Shapes
  <2>4. z = [status |-> "failed", single |-> h.single, sum |-> h.sum,
             applied |-> a, uncertain |-> h.uncertain]
    BY <2>2, <2>3 DEF RowShape
  <2>5. z.status = "failed" /\ z.sum = h.sum /\ z.applied = a /\ z.uncertain = h.uncertain
    BY <2>4
  <2>6. markFailed(f, v, a) = z
    BY <1>2, <2>1, <2>2 DEF markFailed
  <2>7. Truthful(db, visited, f, h) /\ h.status # "superseded"
    BY <2>1 DEF InPlace, isSettled
  <2>8. h.sum \in DOMAIN Contents[f]
    BY <2>3, <2>7 DEF Truthful
  <2> QED  BY <2>5, <2>6, <2>8 DEF Truthful
<1> QED  BY <1>1, <1>2

-----------------------------------------------------------------------------
(* A run begins a file.                                                     *)

LEMMA BeginInPlace ==
    ASSUME Invariant, Traced, InPlace, NEW r \in Runners, NEW f \in Files, Begins(r, f),
           NEW y, run' = [run EXCEPT ![r] = y],
           NEW p \in InFile, NEW i, NEW c, Opens(run[r], y, f, p, i, c),
           UNCHANGED <<db, visited>>,
           NEW row, history' = [history EXCEPT ![f] = row],
           Truthful(db, visited, f, row), InStep(db, visited, y, row)
    PROVE  InPlace'
<1>1. run[r].pc = "files" /\ run[r].pc \in Holding /\ "files" \notin InFile
  BY DEF Begins, Holding, InFile
<1>2. /\ y.pc = p /\ y.seen = run[r].seen /\ y.todo = run[r].todo /\ y.file = f
  BY DEF Opens
<1>3. history'[f] = row /\ \A g \in Files \ {f} : history'[g] = history[g]
  BY DEF Invariant, Shapes
<1>4. \A g \in run[r].todo : g \in Files /\ run[r].seen[g] = history[g]
  BY <1>1 DEF Traced, Placed, InPlace, Abreast
<1>5. db' = db /\ visited' = visited /\ Sound(db) /\ Spares(f)
  BY Untouched DEF InPlace
<1>6. Abreast(db', visited', history', y)
  BY <1>2, <1>3, <1>4, <1>5 DEF Abreast
<1> QED  BY <1>1, <1>5, <1>6, StepInPlace

\* What a run has seen of the file it begins is its row.
LEMMA BeginsTruthful ==
    ASSUME Invariant, Traced, InPlace, NEW r \in Runners, NEW f \in Files, Begins(r, f)
    PROVE  /\ run[r].seen[f] = history[f] /\ Truthful(db, visited, f, history[f])
           /\ run[r].dir[f] \in DOMAIN Contents[f]
           /\ history = [history EXCEPT ![f] = history[f]]
<1>1. run[r].pc = "files" /\ f \in run[r].todo /\ "files" \notin InFile
  BY DEF Begins, First, InFile
<1>2. run[r].seen[f] = history[f]
  BY <1>1 DEF InPlace, Abreast
<1> QED  BY <1>2, BeginFacts DEF InPlace

LEMMA BeginSegmentsInPlace ==
    ASSUME Fitting, Invariant, Traced, InPlace, NEW r \in Runners, NEW f \in Files,
           BeginSegments(r, f)
    PROVE  InPlace'
<1>1. PICK v, c, n : /\ v = run[r].dir[f] /\ n = Len(ContentOf(f, v).segments)
                     /\ c = IF run[r].seen[f].status \in {"failed", "running"}
                            THEN run[r].seen[f].applied ELSE 0
  OBVIOUS
<1>2. /\ Goes(r, [At(r, f, "segment", 1) EXCEPT !.committed = c])
      /\ IF n > 1 THEN Write(f, beginRow(f, v, c, c)) ELSE UNCHANGED history
      /\ Begins(r, f) /\ UNCHANGED <<db, visited>> /\ ContentOf(f, v).mode # "none"
  BY <1>1 DEF BeginSegments, database
<1>3. /\ run[r].seen[f] = history[f] /\ Truthful(db, visited, f, history[f])
      /\ v \in DOMAIN Contents[f]
      /\ history = [history EXCEPT ![f] = history[f]]
  BY <1>1, <1>2, BeginsTruthful
<1>4. n \in Nat \ {0} /\ DOMAIN ContentOf(f, v).segments = 1..n
  BY <1>1, <1>3, SegmentsType
<1>5. c \in Nat /\ Stands(db, visited, f, c)
  <2>1. CASE run[r].seen[f].status \in {"failed", "running"}
    <3>1. history[f] # NoRow
      BY <1>3, <2>1 DEF NoRow
    <3> QED  BY <1>1, <1>3, <2>1, <3>1 DEF Truthful
  <2>2. CASE run[r].seen[f].status \notin {"failed", "running"}
    BY <1>1, <2>2, StandsNone
  <2> QED  BY <2>1, <2>2
<1>6. PICK x : x = At(r, f, "segment", 1)
  OBVIOUS
<1>7. PICK y : y = [x EXCEPT !.committed = c]
  OBVIOUS
<1>8. /\ y.pc = "segment" /\ y.at = 1 /\ y.committed = c
      /\ y.dir = run[r].dir /\ y.seen = run[r].seen /\ y.todo = run[r].todo /\ y.file = f
  BY <1>6, <1>7 DEF At
<1>9. Opens(run[r], y, f, "segment", 1, c)
  BY <1>8 DEF Opens
<1>10. run' = [run EXCEPT ![r] = y] /\ "segment" \in InFile
  BY <1>2, <1>6, <1>7 DEF Goes, InFile
<1>11. PICK row : row = IF n > 1 THEN beginRow(f, v, c, c) ELSE history[f]
  OBVIOUS
<1>12. history' = [history EXCEPT ![f] = row]
  BY <1>2, <1>3, <1>11 DEF Write
<1>13. ~Rebuilds(f)
  BY <1>2, <1>3, ContentFits, QuickFits
<1>14. Truthful(db, visited, f, row)
  <2>1. CASE n > 1
    <3>1. row = beginRow(f, v, c, c)
      BY <1>11, <2>1
    <3> QED  BY <1>3, <1>5, <1>13, <3>1, BeginRowTruthful
  <2>2. CASE ~(n > 1)
    BY <1>3, <1>11, <2>2
  <2> QED  BY <2>1, <2>2
<1>15. InStep(db, visited, y, row)
  <2>1. ContentOf(y.file, y.dir[y.file]) = ContentOf(f, v)
    BY <1>1, <1>8
  <2>2. Ended(db, ContentOf(f, v), y.at)
    BY <1>4, <1>8 DEF Ended
  <2> QED  BY <1>2, <1>5, <1>8, <2>1, <2>2 DEF InStep
<1> QED  BY <1>2, <1>9, <1>10, <1>12, <1>14, <1>15, BeginInPlace

LEMMA BeginBareInPlace ==
    ASSUME Fitting, Invariant, Traced, InPlace, NEW r \in Runners, NEW f \in Files,
           BeginBare(r, f)
    PROVE  InPlace'
<1>1. PICK v, i, p : /\ v = run[r].dir[f] /\ i = resumeFrom(run[r].seen[f])
                     /\ p = Following(ContentOf(f, v), i)
  OBVIOUS
<1>2. /\ Goes(r, [At(r, f, p, i) EXCEPT !.from = data[f], !.mark = data[f]])
      /\ Write(f, beginRow(f, v, i, Null))
      /\ Begins(r, f) /\ UNCHANGED <<db, visited>>
  BY <1>1, Zenon DEF BeginBare, database
<1>3. /\ run[r].seen[f] = history[f] /\ Truthful(db, visited, f, history[f])
      /\ v \in DOMAIN Contents[f]
  BY <1>1, <1>2, BeginsTruthful
<1>4. i \in Nat /\ Stands(db, visited, f, i)
  BY <1>1, <1>3, StandsNone DEF resumeFrom, Truthful
<1>5. p \in {"mark", "finish"} /\ p \in InFile
      /\ (p = "mark" => i < Len(Steps(f))) /\ (p = "finish" => ~(i < Len(Steps(f))))
  <2>1. Total(ContentOf(f, v)) = Len(Steps(f))
    BY <1>3, ContentFits
  <2> QED  BY <1>1, <2>1 DEF Following, InFile
<1>6. PICK x, d : x = At(r, f, p, i) /\ d = data[f]
  OBVIOUS
<1>7. PICK y : y = [x EXCEPT !.from = d, !.mark = d]
  OBVIOUS
<1>8. /\ y.pc = p /\ y.at = i /\ y.committed = 0
      /\ y.dir = run[r].dir /\ y.seen = run[r].seen /\ y.todo = run[r].todo /\ y.file = f
  BY <1>6, <1>7 DEF At
<1>9. run' = [run EXCEPT ![r] = y]
  BY <1>2, <1>6, <1>7 DEF Goes
<1>10. PICK row : row = beginRow(f, v, i, Null)
  OBVIOUS
<1>11. /\ Truthful(db, visited, f, row)
       /\ row.applied = IF history[f] = NoRow THEN i ELSE history[f].applied
  BY <1>3, <1>4, <1>10, BeginRowTruthful
<1>12. Rebuilds(f) /\ i < Len(Steps(f)) => row.applied < Len(Steps(f))
  <2>1. CASE history[f] = NoRow
    BY <1>11, <2>1
  <2>2. CASE history[f] # NoRow /\ history[f].uncertain = Null
    BY <1>1, <1>3, <1>11, <2>2 DEF resumeFrom
  <2>3. CASE history[f] # NoRow /\ history[f].uncertain # Null
    BY <1>3, <1>11, <2>3 DEF Truthful
  <2> QED  BY <2>1, <2>2, <2>3
<1>13. p = "finish" => Stands(db, visited, f, Len(Steps(f)))
  <2>1. Len(Steps(f)) \in Nat
    BY StepsType
  <2> QED  BY <1>4, <1>5, <2>1, StandsLess
<1>14. InStep(db, visited, y, row)
  BY <1>4, <1>5, <1>8, <1>12, <1>13 DEF InStep
<1>15. Opens(run[r], y, f, p, i, 0)
  BY <1>8 DEF Opens
<1>16. history' = [history EXCEPT ![f] = row]
  BY <1>2, <1>10 DEF Write
<1> QED  BY <1>2, <1>5, <1>9, <1>11, <1>14, <1>15, <1>16, BeginInPlace

-----------------------------------------------------------------------------
(* A run in a file.                                                         *)

\* What it relies on.
LEMMA RunFacts ==
    ASSUME Fitting, Invariant, Traced, InPlace, NEW r \in Runners, run[r].pc \in InFile,
           NEW f, f = run[r].file, NEW x, x = run[r], NEW row, row = history[f]
    PROVE  /\ f \in Files /\ Within(x) /\ x.at \in Nat /\ x.committed \in Nat
           /\ Sound(db) /\ Truthful(db, visited, f, row) /\ InStep(db, visited, x, row)
           /\ Script(r) = ContentOf(f, x.dir[f]) /\ x.dir[f] \in DOMAIN Contents[f]
           /\ Version(r) = x.dir[f]
           /\ ~isSettled(row) /\ RowShape(row)
           /\ Len(Steps(f)) \in Nat /\ DOMAIN Steps(f) = 1..Len(Steps(f))
<1>1. /\ f \in Files /\ Within(x) /\ x.at \in Nat /\ x.committed \in Nat
      /\ ~isSettled(row) /\ Version(r) \in DOMAIN Contents[f]
  BY WithinFacts
<1>2. Version(r) = x.dir[f] /\ Script(r) = ContentOf(f, x.dir[f])
  BY DEF Script, Version, Current
<1>3. InStep(db, visited, x, row)
  BY DEF InPlace, Abreast
<1>4. Sound(db) /\ Truthful(db, visited, f, row) /\ RowShape(row)
  BY <1>1 DEF InPlace, Invariant, Shapes
<1>5. Len(Steps(f)) \in Nat /\ DOMAIN Steps(f) = 1..Len(Steps(f))
  BY <1>1, StepsType
<1> QED  BY <1>1, <1>2, <1>3, <1>4, <1>5

\* A statement of it loses nothing of other files.
LEMMA KeepsSpares ==
    ASSUME NEW f, Keeps(db, db', f), \A g \in Files : visited[g] \subseteq visited'[g]
    PROVE  Spares(f)
<1> SUFFICES ASSUME NEW g \in Files \ {f}, NEW n \in Nat, Stands(db, visited, g, n)
             PROVE  Stands(db', visited', g, n)
  BY DEF Spares, Stands
<1> QED  BY StandsOn

\* A step that writes no row, and after which what its row counts still stands.
LEMMA KeepsInPlace ==
    ASSUME Fitting, Invariant, Traced, InPlace, NEW r \in Runners, run[r].pc \in InFile,
           NEW f, f = run[r].file, UNCHANGED history,
           NEW y, NEW p \in InFile, NEW i, NEW c, Continues(run[r], y, p, i, c),
           run' = [run EXCEPT ![r] = y],
           Sound(db'), Keeps(db, db', f), \A g \in Files : visited[g] \subseteq visited'[g],
           Rebuilds(f) => history[f].applied < Len(Steps(f)),
           InStep(db', visited', y, history[f])
    PROVE  InPlace'
<1>1. f \in Files /\ Truthful(db, visited, f, history[f])
  BY RunFacts
<1>2. Spares(f)
  BY KeepsSpares
<1>3. Truthful(db', visited', f, history[f])
  <2>1. CASE history[f] = NoRow
    BY <2>1 DEF Truthful
  <2>2. CASE history[f] # NoRow
    <3>1. PICK a : a = history[f].applied
      OBVIOUS
    <3>2. a \in Nat /\ Stands(db, visited, f, a)
      BY <1>1, <2>2, <3>1 DEF Truthful
    <3>3. PICK e, w : e = db' /\ w = visited'
      OBVIOUS
    <3>4. Stands(e, w, f, a)
      BY <1>1, <3>1, <3>2, <3>3, StandsKept
    <3>5. Truthful(e, w, f, history[f])
      BY <1>1, <3>1, <3>4 DEF Truthful
    <3> QED  BY <3>3, <3>5
  <2> QED  BY <2>1, <2>2
<1>4. history' = [history EXCEPT ![run[r].file] = history[f]]
  BY WithinFacts
<1> QED  BY <1>2, <1>3, <1>4, WithinInPlace

-----------------------------------------------------------------------------
(* InPlace in a file in transactions.                                       *)

LEMMA CommitSegmentInPlace ==
    ASSUME Fitting, Invariant, Traced, InPlace, NEW r \in Runners, CommitSegment(r)
    PROVE  InPlace'
<1>1. PICK f, x, c, seq, k :
         /\ f = run[r].file /\ x = run[r] /\ c = Script(r)
         /\ k = run[r].at /\ seq = c.segments[k]
  OBVIOUS
<1>2. /\ run[r].pc = "segment" /\ run[r].pc \in InFile /\ "segment" \in InFile
      /\ db' = AfterAll(db, seq) /\ UNCHANGED visited
      /\ IF k = Len(c.segments)
         THEN Write(f, recordApplied(f, Version(r))) /\ NextFile(r)
         ELSE Goes(r, [run[r] EXCEPT !.at = @ + 1]) /\ UNCHANGED history
  BY <1>1 DEF CommitSegment, InFile, Current
<1>3. /\ f \in Files /\ Within(x) /\ x.at \in Nat /\ x.committed \in Nat
      /\ Sound(db) /\ Truthful(db, visited, f, history[f]) /\ InStep(db, visited, x, history[f])
      /\ c = ContentOf(f, x.dir[f]) /\ x.dir[f] \in DOMAIN Contents[f] /\ Version(r) = x.dir[f]
      /\ Len(Steps(f)) \in Nat /\ DOMAIN Steps(f) = 1..Len(Steps(f))
  BY <1>1, <1>2, RunFacts
<1>4. /\ c.mode # "none" /\ Stands(db, visited, f, x.committed)
      /\ Ended(db, c, x.at)
  <2>1. x.pc = "segment" /\ x.file = f /\ InStep(db, visited, x, history[f])
    BY <1>1, <1>2, <1>3
  <2> QED  BY <1>3, <2>1 DEF InStep
<1>5. /\ StatementsOf(c) = Steps(f) /\ Total(c) = Len(Steps(f))
      /\ RowsOf(f) = 0 /\ Quick(f) /\ ~Rebuilds(f)
  BY <1>3, <1>4, ContentFits, QuickFits
<1>6. PICK n : /\ n = Len(c.segments) /\ n \in Nat \ {0} /\ DOMAIN c.segments = 1..n
               /\ c.segments \in Seq(Seq(Statement))
  BY <1>3, SegmentsType
<1>7. k \in 1..n
  <2>1. Guarded(run[r], history[f])
    BY <1>1, <1>2, WithinFacts
  <2> QED  BY <1>1, <1>2, <1>3, <1>6, <2>1 DEF Guarded
<1>8. /\ \A m \in DOMAIN c.segments : \A i \in DOMAIN c.segments[m] :
            \E j \in DOMAIN Steps(f) : Steps(f)[j] = c.segments[m][i]
      /\ \A j \in DOMAIN Steps(f) :
            \E m \in DOMAIN c.segments : \E i \in DOMAIN c.segments[m] :
               Steps(f)[j] = c.segments[m][i]
  <2>1. Len(c.segments) # 0
    BY <1>6
  <2>2. /\ \A m \in DOMAIN c.segments : \A i \in DOMAIN c.segments[m] :
              \E j \in DOMAIN StatementsOf(c) : StatementsOf(c)[j] = c.segments[m][i]
        /\ \A j \in DOMAIN StatementsOf(c) :
              \E m \in DOMAIN c.segments : \E i \in DOMAIN c.segments[m] :
                 StatementsOf(c)[j] = c.segments[m][i]
    BY <1>6, <2>1, StatementsFlat
  <2>3. StatementsOf(c) = Steps(f)
    BY <1>5
  <2> QED  BY <2>2, <2>3
<1>0. \A i \in DOMAIN seq : \E j \in DOMAIN Steps(f) : Steps(f)[j] = seq[i]
  BY <1>1, <1>6, <1>7, <1>8
<1>9. PICK e : e = db'
  OBVIOUS
<1>10. /\ Sound(e) /\ Keeps(db, e, f)
       /\ \A i \in DOMAIN seq : \A o \in seq[i].makes : e[o] = "valid"
  BY <1>0, <1>2, <1>3, <1>5, <1>9, TransactionKeeps
<1>11. ASSUME NEW m \in DOMAIN c.segments, m <= k, NEW i \in DOMAIN c.segments[m],
              NEW o \in c.segments[m][i].makes
       PROVE  e[o] = "valid"
  <2>1. CASE m = k
    BY <1>1, <1>10, <1>11, <2>1
  <2>2. CASE m # k
    <3>1. m < k
      BY <1>6, <1>7, <1>11, <2>2
    <3>2. db[o] = "valid"
      BY <1>1, <1>4, <1>11, <3>1 DEF Ended
    <3>3. PICK j \in DOMAIN Steps(f) : Steps(f)[j] = c.segments[m][i]
      BY <1>8, <1>11
    <3>4. o \in Steps(f)[j].makes
      BY <1>11, <3>3
    <3> QED  BY <1>3, <1>5, <1>10, <3>2, <3>4 DEF Keeps
  <2> QED  BY <2>1, <2>2
<1>12. Spares(f)
  BY <1>2, <1>9, <1>10, KeepsSpares
<1>13. CASE k = n
  <2>1. PICK row, s : row = recordApplied(f, Version(r))
                      /\ s = (ContentOf(f, Version(r)).mode = "transactional")
    OBVIOUS
  <2>2. row = [status |-> "applied", single |-> s, sum |-> Version(r), applied |-> Len(Steps(f)),
               uncertain |-> Null]
    BY <1>1, <1>3, <1>5, <2>1 DEF recordApplied, RowOf
  <2>3. /\ row.status = "applied" /\ row.sum = Version(r) /\ row.applied = Len(Steps(f))
        /\ row.uncertain = Null
    BY <2>2
  <2>4. Stands(e, visited, f, Len(Steps(f)))
    <3>1. ASSUME NEW j \in DOMAIN Steps(f), NEW o \in Steps(f)[j].makes PROVE e[o] = "valid"
      <4>1. PICK m \in DOMAIN c.segments : \E i \in DOMAIN c.segments[m] :
               Steps(f)[j] = c.segments[m][i]
        BY <1>8
      <4>2. m <= k
        BY <1>6, <1>13, <4>1
      <4> QED  BY <1>11, <3>1, <4>1, <4>2
    <3>2. 1..RowsOf(f) = {}
      BY <1>5
    <3> QED  BY <3>1, <3>2 DEF Stands
  <2>5. Truthful(db', visited', f, row)
    BY <1>2, <1>3, <1>9, <2>3, <2>4 DEF Truthful
  <2>6. history' = [history EXCEPT ![run[r].file] = row] /\ NextFile(r)
    BY <1>1, <1>2, <1>6, <1>13, <2>1 DEF Write
  <2> QED  BY <1>1, <1>2, <1>9, <1>10, <1>12, <2>5, <2>6, LeavesInPlace
<1>14. CASE k # n
  <2>1. PICK i, y : i = k + 1 /\ y = [run[r] EXCEPT !.at = i]
    OBVIOUS
  <2>2. Continues(run[r], y, "segment", i, run[r].committed)
    BY <1>1, <1>2, <1>3, <2>1, GoesOn, Zenon
  <2>3. run' = [run EXCEPT ![r] = y] /\ UNCHANGED history
    BY <1>1, <1>2, <1>6, <1>14, <2>1 DEF Goes
  <2>4. /\ y.pc = "segment" /\ y.at = i /\ y.committed = x.committed /\ y.file = f
        /\ ContentOf(y.file, y.dir[y.file]) = c
    BY <1>1, <1>3, <2>2 DEF Continues
  <2>5. Stands(e, visited, f, x.committed)
    BY <1>3, <1>4, <1>5, <1>10, StandsKept
  <2>6. Ended(e, c, i)
    <3>1. \A m \in DOMAIN c.segments : m < i => m <= k
      BY <1>6, <1>7, <2>1
    <3> QED  BY <1>11, <3>1 DEF Ended
  <2>7. InStep(db', visited', y, history[f])
    BY <1>2, <1>4, <1>9, <2>4, <2>5, <2>6 DEF InStep
  <2>8. \A g \in Files : visited[g] \subseteq visited'[g]
    BY <1>2
  <2> QED  BY <1>1, <1>2, <1>5, <1>9, <1>10, <2>2, <2>3, <2>7, <2>8, KeepsInPlace
<1> QED  BY <1>13, <1>14

\* What was committed before the transaction that failed stands.
LEMMA FailSegmentInPlace ==
    ASSUME Fitting, Invariant, Traced, InPlace, NEW r \in Runners, FailSegment(r)
    PROVE  InPlace'
<1>1. PICK f, x, s, b : /\ f = run[r].file /\ x = run[r] /\ s = Script(r)
                        /\ b = Earlier(s, x.at)
  OBVIOUS
<1>2. /\ run[r].pc = "segment" /\ run[r].pc \in InFile /\ "segment" \in InFile
      /\ UNCHANGED <<db, visited>>
  BY DEF FailSegment, InFile, database
<1>3. /\ f \in Files /\ Within(x) /\ x.at \in Nat /\ x.committed \in Nat
      /\ Sound(db) /\ Truthful(db, visited, f, history[f]) /\ InStep(db, visited, x, history[f])
      /\ s = ContentOf(f, x.dir[f]) /\ x.dir[f] \in DOMAIN Contents[f] /\ Version(r) = x.dir[f]
      /\ ~isSettled(history[f])
      /\ Len(Steps(f)) \in Nat /\ DOMAIN Steps(f) = 1..Len(Steps(f))
  BY <1>1, <1>2, RunFacts
<1>4. /\ s.mode # "none" /\ Stands(db, visited, f, x.committed)
      /\ Ended(db, s, x.at)
  <2>1. x.pc = "segment" /\ x.file = f /\ InStep(db, visited, x, history[f])
    BY <1>1, <1>2, <1>3
  <2> QED  BY <1>3, <2>1 DEF InStep
<1>5. StatementsOf(s) = Steps(f) /\ RowsOf(f) = 0 /\ ~Rebuilds(f)
  BY <1>3, <1>4, ContentFits, QuickFits
<1>6. PICK n : /\ n = Len(s.segments) /\ n \in Nat \ {0} /\ DOMAIN s.segments = 1..n
               /\ s.segments \in Seq(Seq(Statement))
  BY <1>3, SegmentsType
<1>7. x.at \in 1..n
  <2>1. Guarded(run[r], history[f])
    BY <1>1, <1>2, WithinFacts
  <2> QED  BY <1>1, <1>2, <1>3, <1>6, <2>1 DEF Guarded
<1>8. b \in Nat
  BY <1>1, <1>6, <1>7, EarlierType
<1>9. Stands(db, visited, f, b)
  <2>1. PICK k : k = x.at
    OBVIOUS
  <2>2. \A j \in DOMAIN StatementsOf(s) : j <= Earlier(s, k) =>
           \E m \in 1..(k - 1) : \E i \in DOMAIN s.segments[m] :
              StatementsOf(s)[j] = s.segments[m][i]
    <3>1. \A l \in 1..Len(s.segments) : \A j \in DOMAIN StatementsOf(s) : j <= Earlier(s, l) =>
             \E m \in 1..(l - 1) : \E i \in DOMAIN s.segments[m] :
                StatementsOf(s)[j] = s.segments[m][i]
      BY <1>6, StatementsFlat
    <3> QED  BY <1>6, <1>7, <2>1, <3>1, Zenon
  <2>3. ASSUME NEW j \in DOMAIN Steps(f), j <= b, NEW o \in Steps(f)[j].makes
        PROVE  db[o] = "valid"
    <3>1. PICK m \in 1..(k - 1) : \E i \in DOMAIN s.segments[m] : Steps(f)[j] = s.segments[m][i]
      BY <1>1, <1>5, <2>1, <2>2, <2>3
    <3>2. m \in DOMAIN s.segments /\ m < x.at
      BY <1>6, <1>7, <2>1, <3>1
    <3> QED  BY <1>4, <2>3, <3>1, <3>2 DEF Ended
  <2>4. 1..RowsOf(f) = {}
    BY <1>5
  <2> QED  BY <2>3, <2>4 DEF Stands
<1>10. PICK c : c = IF b > x.committed THEN b ELSE x.committed
  OBVIOUS
<1>11. c \in Nat /\ Stands(db, visited, f, c)
  <2>1. CASE b > x.committed
    BY <1>8, <1>9, <1>10, <2>1
  <2>2. CASE ~(b > x.committed)
    BY <1>3, <1>4, <1>10, <2>2
  <2> QED  BY <2>1, <2>2
<1>12. \/ /\ Goes(r, [run[r] EXCEPT !.at = 1, !.attempt = run[r].attempt + 1, !.committed = c])
          /\ UNCHANGED history
       \/ Write(f, markFailed(f, Version(r), c)) /\ Leave(r)
  BY <1>1, <1>10 DEF FailSegment, Current
<1>13. db' = db /\ visited' = visited /\ Spares(f)
  BY <1>2, Untouched
<1>14. CASE Write(f, markFailed(f, Version(r), c)) /\ Leave(r)
  <2>1. PICK row : row = markFailed(f, Version(r), c)
    OBVIOUS
  <2>2. Truthful(db, visited, f, row)
    BY <1>3, <1>5, <1>11, <2>1, MarkFailedTruthful
  <2>3. history' = [history EXCEPT ![run[r].file] = row] /\ run' = [run EXCEPT ![r] = Off]
    BY <1>1, <1>14, <2>1 DEF Write, Leave, Goes
  <2>4. Sound(db') /\ Spares(run[r].file) /\ Truthful(db', visited', run[r].file, row)
    BY <1>1, <1>3, <1>13, <2>2
  <2> QED  BY <1>2, <2>3, <2>4, LeavesInPlace
<1>15. CASE /\ Goes(r, [run[r] EXCEPT !.at = 1, !.attempt = run[r].attempt + 1, !.committed = c])
            /\ UNCHANGED history
  <2>1. PICK a, i : a = run[r].attempt + 1 /\ i = 1
    OBVIOUS
  <2>2. PICK y : y = [run[r] EXCEPT !.at = i, !.attempt = a, !.committed = c]
    OBVIOUS
  <2>3. Continues(run[r], y, "segment", i, c)
    BY <1>1, <1>2, <1>3, <2>2, GoesOn, Zenon
  <2>4. run' = [run EXCEPT ![r] = y]
    BY <1>15, <2>1, <2>2 DEF Goes
  <2>5. /\ y.pc = "segment" /\ y.at = 1 /\ y.committed = c /\ y.file = f
        /\ ContentOf(y.file, y.dir[y.file]) = s
    BY <1>1, <1>3, <2>1, <2>3 DEF Continues
  <2>6. Ended(db, s, y.at)
    BY <1>6, <2>5 DEF Ended
  <2>7. InStep(db, visited, y, history[f])
    BY <1>4, <1>11, <2>5, <2>6 DEF InStep
  <2>8. history' = [history EXCEPT ![run[r].file] = history[f]]
    BY <1>1, <1>2, <1>15, WithinFacts
  <2> QED  BY <1>1, <1>2, <1>3, <1>13, <2>3, <2>4, <2>7, <2>8, WithinInPlace
<1> QED  BY <1>12, <1>14, <1>15

-----------------------------------------------------------------------------
(* InPlace in a file without a transaction.                                 *)

\* What a run in such a file relies on.
LEMMA BareInPlace ==
    ASSUME Fitting, Invariant, Traced, InPlace, NEW r \in Runners,
           run[r].pc \in {"mark", "exec", "building", "ran"},
           NEW f, f = run[r].file, NEW k, k = run[r].at, NEW n, n = Len(Steps(f))
    PROVE  /\ run[r].pc \in InFile /\ run[r].pc \in InFile \ {"segment"}
           /\ f \in Files /\ n \in Nat /\ k \in Nat /\ k < n /\ k + 1 \in DOMAIN Steps(f)
           /\ Sound(db) /\ Truthful(db, visited, f, history[f]) /\ Stands(db, visited, f, k)
           /\ (Rebuilds(f) => history[f].applied < n)
           /\ Bare(r) = Steps(f)[k + 1] /\ Total(Script(r)) = n /\ Script(r).rows = RowsOf(f)
           /\ RowsOf(f) \in Nat
           /\ RowShape(history[f]) /\ history[f] # NoRow /\ history[f].applied \in Nat
           /\ ~isSettled(history[f])
           /\ history[f].sum \in DOMAIN Contents[f]
           /\ Stands(db, visited, f, history[f].applied)
           /\ Version(r) \in DOMAIN Contents[f]
<1>1. run[r].pc \in InFile /\ run[r].pc \in InFile \ {"segment"}
  BY DEF InFile
<1>2. PICK x : x = run[r]
  OBVIOUS
<1>3. /\ f \in Files /\ x.at \in Nat
      /\ Sound(db) /\ Truthful(db, visited, f, history[f]) /\ InStep(db, visited, x, history[f])
      /\ Script(r) = ContentOf(f, x.dir[f]) /\ x.dir[f] \in DOMAIN Contents[f]
      /\ Version(r) = x.dir[f] /\ ~isSettled(history[f]) /\ RowShape(history[f])
      /\ n \in Nat /\ DOMAIN Steps(f) = 1..n
  BY <1>1, <1>2, RunFacts
<1>4. /\ k < n /\ Stands(db, visited, f, k) /\ (Rebuilds(f) => history[f].applied < n)
  BY <1>2, <1>3 DEF InStep
<1>5. /\ StatementsOf(Script(r)) = Steps(f) /\ Total(Script(r)) = n
      /\ Script(r).rows = RowsOf(f) /\ RowsOf(f) \in Nat
  BY <1>3, ContentFits
<1>6. Bare(r) = Steps(f)[k + 1]
  BY <1>2, <1>5 DEF Bare
<1>7. history[f] # NoRow /\ history[f].applied \in Nat
  BY <1>1, BareFacts
<1>8. history[f].sum \in DOMAIN Contents[f] /\ Stands(db, visited, f, history[f].applied)
  BY <1>3, <1>7 DEF Truthful, isSettled
<1> QED  BY <1>1, <1>2, <1>3, <1>4, <1>5, <1>6, <1>7, <1>8

LEMMA MarkUncertainInPlace ==
    ASSUME Fitting, Invariant, Traced, InPlace, NEW r \in Runners, MarkUncertain(r)
    PROVE  InPlace'
<1>1. PICK f, h, k, n : f = run[r].file /\ h = history[f] /\ k = run[r].at /\ n = Len(Steps(f))
  OBVIOUS
<1>2. run[r].pc = "mark" /\ "exec" \in InFile /\ UNCHANGED <<db, visited>>
  BY DEF MarkUncertain, InFile, database
<1>3. /\ run[r].pc \in InFile /\ f \in Files /\ n \in Nat /\ k < n
      /\ Sound(db) /\ Truthful(db, visited, f, h) /\ Stands(db, visited, f, k)
      /\ (Rebuilds(f) => h.applied < n)
      /\ RowShape(h) /\ h # NoRow /\ h.applied \in Nat /\ ~isSettled(h)
      /\ h.sum \in DOMAIN Contents[f] /\ Stands(db, visited, f, h.applied)
  BY <1>1, <1>2, BareInPlace
<1>4. PICK row : row = [h EXCEPT !.uncertain = k]
  OBVIOUS
<1>5. row = [status |-> h.status, single |-> h.single, sum |-> h.sum, applied |-> h.applied,
             uncertain |-> k]
  BY <1>3, <1>4 DEF RowShape
<1>6. row.status = h.status /\ row.sum = h.sum /\ row.applied = h.applied
  BY <1>5
<1>7. Truthful(db, visited, f, row)
  BY <1>1, <1>3, <1>6 DEF Truthful, isSettled
<1>8. history' = [history EXCEPT ![run[r].file] = row]
  BY <1>1, <1>4 DEF MarkUncertain, Write, Current
<1>9. PICK y : y = [run[r] EXCEPT !.pc = "exec", !.attempt = 1]
  OBVIOUS
<1>10. Continues(run[r], y, "exec", k, run[r].committed)
  BY <1>1, <1>3, <1>9, WithinFacts, GoesOn, Zenon
<1>11. run' = [run EXCEPT ![r] = y]
  BY <1>9 DEF MarkUncertain, Goes
<1>12. InStep(db, visited, y, row)
  <2>1. y.pc = "exec" /\ y.at = k /\ y.file = f
    BY <1>1, <1>10 DEF Continues
  <2> QED  BY <1>1, <1>3, <1>6, <2>1 DEF InStep
<1>13. db' = db /\ visited' = visited /\ Spares(f)
  BY <1>2, Untouched
<1> QED  BY <1>1, <1>2, <1>3, <1>7, <1>8, <1>10, <1>11, <1>12, <1>13, WithinInPlace

\* A statement runs, begins to build or ends what it builds.
LEMMA ExecutesInPlace ==
    ASSUME Fitting, Invariant, Traced, InPlace, NEW r \in Runners,
           Execute(r) \/ StartBuild(r) \/ EndBuild(r)
    PROVE  InPlace'
<1>1. PICK f, h, k, n, s : /\ f = run[r].file /\ h = history[f] /\ k = run[r].at
                           /\ n = Len(Steps(f)) /\ s = Steps(f)[k + 1]
  OBVIOUS
<1>2. run[r].pc \in {"mark", "exec", "building", "ran"} /\ UNCHANGED <<history, visited>>
  BY DEF Execute, StartBuild, EndBuild
<1>3. /\ run[r].pc \in InFile /\ f \in Files /\ n \in Nat /\ k \in Nat /\ k < n
      /\ k + 1 \in DOMAIN Steps(f)
      /\ Sound(db) /\ Stands(db, visited, f, k) /\ (Rebuilds(f) => h.applied < n)
      /\ Bare(r) = s /\ Script(r).rows = RowsOf(f) /\ RowsOf(f) \in Nat
  BY <1>1, <1>2, BareInPlace
<1>4. s.makes \subseteq Objects /\ s.slow \in BOOLEAN
  BY <1>1, <1>3, StepsType
<1>5. PICK e : e = db'
  OBVIOUS
<1>6. PICK p \in {"ran", "building"} :
         /\ Goes(r, [run[r] EXCEPT !.pc = p]) /\ RowsOf(f) = 0
         /\ Sound(e) /\ Keeps(db, e, f) /\ (p = "ran" => \A o \in s.makes : e[o] = "valid")
  <2>1. CASE Execute(r)
    <3>1. /\ e = After(db, s, "valid") /\ ~s.slow /\ RowsOf(f) = 0
          /\ Goes(r, [run[r] EXCEPT !.pc = "ran"])
      BY <1>3, <1>5, <2>1 DEF Execute, IsBatch
    <3>2. Sound(e) /\ Keeps(db, e, f) /\ \A o \in s.makes : e[o] = "valid"
      BY <1>1, <1>3, <3>1, AfterKeeps
    <3> QED  BY <3>1, <3>2
  <2>2. CASE StartBuild(r)
    <3>1. /\ e = After(db, s, "invalid") /\ s.slow /\ RowsOf(f) = 0
          /\ Goes(r, [run[r] EXCEPT !.pc = "building"])
      BY <1>3, <1>5, <2>2 DEF StartBuild, IsBatch
    <3>2. Sound(e) /\ Keeps(db, e, f)
      BY <1>1, <1>3, <3>1, AfterKeeps
    <3> QED  BY <3>1, <3>2
  <2>3. CASE EndBuild(r)
    <3>1. /\ e = [o \in Objects |-> IF o \in s.makes THEN "valid" ELSE db[o]]
          /\ Goes(r, [run[r] EXCEPT !.pc = "ran"]) /\ run[r].pc = "building"
      BY <1>3, <1>5, <2>3 DEF EndBuild
    <3>2. RowsOf(f) = 0
      <4>1. InStep(db, visited, run[r], history[f])
        BY <1>1, <1>3, RunFacts
      <4> QED  BY <1>1, <3>1, <4>1 DEF InStep
    <3>3. Sound(e) /\ \A o \in Objects : (db[o] = "valid" \/ o \in s.makes) => e[o] = "valid"
      BY <1>3, <3>1, BuiltKeeps
    <3>4. Keeps(db, e, f)
      <4>1. \A g \in Files : \A i \in DOMAIN Steps(g) : Steps(g)[i].makes \subseteq Objects
        BY StepsType
      <4> QED  BY <3>3, <4>1 DEF Keeps
    <3> QED  BY <1>4, <3>1, <3>2, <3>3, <3>4
  <2> QED  BY <2>1, <2>2, <2>3
<1>7. PICK y : y = [run[r] EXCEPT !.pc = p]
  OBVIOUS
<1>8. Continues(run[r], y, p, k, run[r].committed) /\ p \in InFile
  <2>1. Continues(run[r], y, p, k, run[r].committed)
    BY <1>1, <1>3, <1>7, WithinFacts, GoesOn, Zenon
  <2> QED  BY <1>6, <2>1 DEF InFile
<1>9. run' = [run EXCEPT ![r] = y]
  BY <1>6, <1>7 DEF Goes
<1>10. Stands(e, visited, f, k)
  BY <1>1, <1>3, <1>6, StandsKept
<1>11. ASSUME p = "ran" PROVE Stands(e, visited, f, k + 1)
  <2>1. ASSUME NEW i \in DOMAIN Steps(f), i <= k + 1, NEW o \in Steps(f)[i].makes
        PROVE  e[o] = "valid"
    <3>1. CASE i = k + 1
      BY <1>1, <1>6, <1>11, <2>1, <3>1
    <3>2. CASE i # k + 1
      <4>1. i \in Nat
        BY <1>3, StepsType
      <4>2. i <= k
        BY <1>3, <2>1, <3>2, <4>1
      <4> QED  BY <1>10, <2>1, <4>2 DEF Stands
    <3> QED  BY <3>1, <3>2
  <2>2. 1..RowsOf(f) = {}
    BY <1>6
  <2> QED  BY <2>1, <2>2 DEF Stands
<1>12. InStep(db', visited', y, h)
  <2>1. y.pc = p /\ y.at = k /\ y.file = f
    BY <1>1, <1>8 DEF Continues
  <2> QED  BY <1>1, <1>2, <1>3, <1>5, <1>6, <1>10, <1>11, <2>1 DEF InStep
<1>13. \A g \in Files : visited[g] \subseteq visited'[g]
  BY <1>2
<1> QED  BY <1>1, <1>2, <1>3, <1>5, <1>6, <1>8, <1>9, <1>12, <1>13, KeepsInPlace

LEMMA BatchInPlace ==
    ASSUME Fitting, Invariant, Traced, InPlace, NEW r \in Runners, Batch(r)
    PROVE  InPlace'
<1>1. PICK f, h, k, n, m : /\ f = run[r].file /\ h = history[f] /\ k = run[r].at
                           /\ n = Len(Steps(f)) /\ m = run[r].mark
  OBVIOUS
<1>2. /\ run[r].pc = "exec" /\ run[r].pc \in {"mark", "exec", "building", "ran"}
      /\ UNCHANGED <<history, db>> /\ Script(r).rows > 0
  BY DEF Batch, IsBatch
<1>3. /\ run[r].pc \in InFile /\ f \in Files /\ n \in Nat /\ k \in Nat /\ k < n
      /\ Sound(db) /\ Stands(db, visited, f, k) /\ (Rebuilds(f) => h.applied < n)
      /\ Script(r).rows = RowsOf(f) /\ RowsOf(f) \in Nat
  BY <1>1, <1>2, BareInPlace
<1>4. Within(run[r])
  BY <1>3, WithinFacts
<1>5. n = 1 /\ Steps(f)[1].makes = {} /\ DOMAIN Steps(f) = 1..n
  <2>1. Script(r) = ContentOf(f, run[r].dir[f]) /\ run[r].dir[f] \in DOMAIN Contents[f]
    BY <1>1, <1>3, RunFacts
  <2> QED  BY <1>1, <1>2, <1>3, <2>1, ContentFits, StepsType
<1>6. m \in Nat /\ 1..m \subseteq visited[f]
  BY <1>1, <1>3 DEF Invariant, Progressed
<1>7. PICK e, w : e = db' /\ w = visited'
  OBVIOUS
<1>8. PICK y, p : /\ Continues(run[r], y, p, k, run[r].committed) /\ p \in {"exec", "ran"}
                  /\ run' = [run EXCEPT ![r] = y]
                  /\ \A g \in Files : visited[g] \subseteq w[g]
                  /\ p = "ran" => 1..RowsOf(f) \subseteq w[f]
  <2>1. CASE m + 1 <= Script(r).rows
    <3>1. PICK i, y : i = m + 1 /\ y = [run[r] EXCEPT !.mark = i]
      OBVIOUS
    <3>2. Continues(run[r], y, "exec", k, run[r].committed)
      BY <1>1, <1>2, <1>4, <3>1, GoesOn, Zenon
    <3>3. run' = [run EXCEPT ![r] = y] /\ visited' = [visited EXCEPT ![f] = @ \cup {i}]
      BY <1>1, <2>1, <3>1 DEF Batch, Goes, Current
    <3>4. \A g \in Files : visited[g] \subseteq w[g]
      <4>1. visited = [g \in Files |-> visited[g]]
        BY DEF Invariant, Progressed
      <4> QED  BY <1>7, <3>3, <4>1
    <3>5. PICK p : p = "exec"
      OBVIOUS
    <3>6. /\ Continues(run[r], y, p, k, run[r].committed) /\ p \in {"exec", "ran"} /\ p # "ran"
          /\ run' = [run EXCEPT ![r] = y]
      BY <3>2, <3>3, <3>5
    <3> QED  BY <3>4, <3>6
  <2>2. CASE ~(m + 1 <= Script(r).rows)
    <3>1. PICK y : y = [run[r] EXCEPT !.pc = "ran"]
      OBVIOUS
    <3>2. Continues(run[r], y, "ran", k, run[r].committed)
      BY <1>1, <1>4, <3>1, GoesOn, Zenon
    <3>3. run' = [run EXCEPT ![r] = y] /\ visited' = visited
      BY <1>1, <2>2, <3>1 DEF Batch, Goes, Current
    <3>4. 1..RowsOf(f) \subseteq 1..m
      BY <1>3, <1>6, <2>2
    <3> QED  BY <1>6, <1>7, <3>2, <3>3, <3>4
  <2> QED  BY <2>1, <2>2
<1>9. Keeps(db, e, f)
  BY <1>2, <1>7 DEF Keeps
<1>10. Stands(e, w, f, k)
  BY <1>1, <1>3, <1>8, <1>9, StandsKept
<1>11. ASSUME p = "ran" PROVE Stands(e, w, f, k + 1)
  <2>1. \A i \in DOMAIN Steps(f) : Steps(f)[i].makes = {}
    BY <1>5
  <2> QED  BY <1>8, <1>11, <2>1 DEF Stands
<1>12. p \in InFile
  BY <1>8 DEF InFile
<1>13. InStep(db', visited', y, h)
  <2>1. y.pc = p /\ y.at = k /\ y.file = f
    BY <1>1, <1>8 DEF Continues
  <2> QED  BY <1>1, <1>3, <1>7, <1>8, <1>10, <1>11, <2>1 DEF InStep
<1>14. /\ Sound(db') /\ Keeps(db, db', f) /\ \A g \in Files : visited[g] \subseteq visited'[g]
       /\ UNCHANGED history
  BY <1>2, <1>3, <1>7, <1>8, <1>9
<1> QED  BY <1>1, <1>3, <1>8, <1>12, <1>13, <1>14, KeepsInPlace

LEMMA FailStatementInPlace ==
    ASSUME Fitting, Invariant, Traced, InPlace, NEW r \in Runners, FailStatement(r)
    PROVE  InPlace'
<1>1. PICK f, k, n, v : /\ f = run[r].file /\ k = run[r].at /\ n = Len(Steps(f))
                        /\ v = Version(r)
  OBVIOUS
<1>2. /\ run[r].pc \in {"exec", "building"} /\ run[r].pc \in {"mark", "exec", "building", "ran"}
      /\ "exec" \in InFile /\ UNCHANGED <<db, visited>>
  BY DEF FailStatement, InFile, database
<1>3. /\ run[r].pc \in InFile /\ f \in Files /\ n \in Nat /\ k \in Nat /\ k < n
      /\ Sound(db) /\ Truthful(db, visited, f, history[f]) /\ Stands(db, visited, f, k)
      /\ (Rebuilds(f) => history[f].applied < n)
      /\ ~isSettled(history[f]) /\ v \in DOMAIN Contents[f]
  BY <1>1, <1>2, BareInPlace
<1>4. db' = db /\ visited' = visited /\ Spares(f)
  BY <1>2, Untouched
<1>5. CASE Write(f, markFailed(f, v, k)) /\ Leave(r)
  <2>1. PICK row : row = markFailed(f, v, k)
    OBVIOUS
  <2>2. Truthful(db, visited, f, row)
    BY <1>1, <1>3, <2>1, MarkFailedTruthful
  <2>3. history' = [history EXCEPT ![run[r].file] = row] /\ run' = [run EXCEPT ![r] = Off]
    BY <1>1, <1>5, <2>1 DEF Write, Leave, Goes
  <2> QED  BY <1>1, <1>3, <1>4, <2>2, <2>3, LeavesInPlace
<1>6. CASE /\ Goes(r, [run[r] EXCEPT !.pc = "exec", !.attempt = run[r].attempt + 1,
                                     !.mark = run[r].from])
           /\ UNCHANGED <<history, lock>>
  <2>1. PICK a, m : a = run[r].attempt + 1 /\ m = run[r].from
    OBVIOUS
  <2>2. PICK y : y = [run[r] EXCEPT !.pc = "exec", !.attempt = a, !.mark = m]
    OBVIOUS
  <2>3. Continues(run[r], y, "exec", k, run[r].committed)
    BY <1>1, <1>3, <2>2, WithinFacts, GoesOn, Zenon
  <2>4. run' = [run EXCEPT ![r] = y]
    BY <1>6, <2>1, <2>2 DEF Goes
  <2>5. y.pc = "exec" /\ y.at = k /\ y.file = f
    BY <1>1, <2>3 DEF Continues
  <2>6. InStep(db, visited, y, history[f])
    BY <1>1, <1>3, <2>5 DEF InStep
  <2>7. history' = [history EXCEPT ![run[r].file] = history[f]]
    BY <1>1, <1>3, <1>6, WithinFacts
  <2> QED  BY <1>1, <1>2, <1>3, <1>4, <2>3, <2>4, <2>6, <2>7, WithinInPlace
<1> QED  BY <1>1, <1>5, <1>6 DEF FailStatement, Current

LEMMA MarkStatementAppliedInPlace ==
    ASSUME Fitting, Invariant, Traced, InPlace, NEW r \in Runners, MarkStatementApplied(r)
    PROVE  InPlace'
<1>1. PICK f, h, k, n : f = run[r].file /\ h = history[f] /\ k = run[r].at /\ n = Len(Steps(f))
  OBVIOUS
<1>2. /\ run[r].pc = "ran" /\ run[r].pc \in {"mark", "exec", "building", "ran"}
      /\ UNCHANGED <<db, visited>>
  BY DEF MarkStatementApplied, database
<1>3. /\ run[r].pc \in InFile /\ f \in Files /\ n \in Nat /\ k \in Nat /\ k < n
      /\ Sound(db) /\ Truthful(db, visited, f, h)
      /\ (Rebuilds(f) => h.applied < n) /\ Total(Script(r)) = n
      /\ RowShape(h) /\ h # NoRow /\ h.applied \in Nat /\ ~isSettled(h)
      /\ h.sum \in DOMAIN Contents[f] /\ Stands(db, visited, f, h.applied)
  BY <1>1, <1>2, BareInPlace
<1>4. Stands(db, visited, f, k + 1)
  <2>1. InStep(db, visited, run[r], history[f])
    BY <1>1, <1>3, RunFacts
  <2> QED  BY <1>1, <1>2, <2>1 DEF InStep
<1>5. PICK i, a : i = k + 1 /\ a = IF h.applied > i THEN h.applied ELSE i
  OBVIOUS
<1>6. /\ i \in Nat /\ a \in Nat /\ Stands(db, visited, f, i) /\ Stands(db, visited, f, a)
      /\ (Rebuilds(f) /\ i < n => a < n)
  <2>1. CASE h.applied > i
    BY <1>3, <1>4, <1>5, <2>1
  <2>2. CASE ~(h.applied > i)
    BY <1>3, <1>4, <1>5, <2>2
  <2> QED  BY <2>1, <2>2
<1>7. PICK row : row = [h EXCEPT !.applied = a, !.uncertain = Null]
  OBVIOUS
<1>8. row = [status |-> h.status, single |-> h.single, sum |-> h.sum, applied |-> a,
             uncertain |-> Null]
  BY <1>3, <1>7 DEF RowShape
<1>9. row.status = h.status /\ row.sum = h.sum /\ row.applied = a /\ row.uncertain = Null
  BY <1>8
<1>10. Truthful(db, visited, f, row)
  BY <1>3, <1>6, <1>9 DEF Truthful, isSettled
<1>11. row = markStatementApplied(h, k)
  BY <1>5, <1>7 DEF markStatementApplied
<1>12. history' = [history EXCEPT ![run[r].file] = row]
  BY <1>1, <1>11 DEF MarkStatementApplied, Write, Current
<1>13. PICK p : p = Following(Script(r), i)
  OBVIOUS
<1>14. p \in InFile /\ p \in {"mark", "finish"} /\ (p = "mark" => i < n) /\ (p = "finish" => n <= i)
  BY <1>3, <1>6, <1>13 DEF Following, InFile
<1>15. PICK y : y = [run[r] EXCEPT !.pc = p, !.at = i]
  OBVIOUS
<1>16. Continues(run[r], y, p, i, run[r].committed)
  BY <1>3, <1>15, WithinFacts, GoesOn, Zenon
<1>17. run' = [run EXCEPT ![r] = y]
  BY <1>1, <1>5, <1>13, <1>15 DEF MarkStatementApplied, Goes
<1>18. p = "finish" => Stands(db, visited, f, n)
  BY <1>3, <1>6, <1>14, StandsLess
<1>19. InStep(db, visited, y, row)
  <2>1. y.pc = p /\ y.at = i /\ y.file = f
    BY <1>1, <1>16 DEF Continues
  <2> QED  BY <1>1, <1>6, <1>9, <1>14, <1>18, <2>1 DEF InStep
<1>20. db' = db /\ visited' = visited /\ Spares(f)
  BY <1>2, Untouched
<1> QED  BY <1>1, <1>3, <1>10, <1>12, <1>14, <1>16, <1>17, <1>19, <1>20, WithinInPlace

LEMMA MarkAppliedInPlace ==
    ASSUME Fitting, Invariant, Traced, InPlace, NEW r \in Runners, MarkApplied(r)
    PROVE  InPlace'
<1>1. /\ run[r].pc = "finish" /\ run[r].pc \in InFile /\ run[r].pc \in InFile \ {"segment"}
      /\ UNCHANGED <<db, visited>>
  BY DEF MarkApplied, InFile, database
<1>2. PICK f, h, n : f = run[r].file /\ h = history[f] /\ n = Len(Steps(f))
  OBVIOUS
<1>3. /\ f \in Files /\ n \in Nat /\ Sound(db) /\ Truthful(db, visited, f, h)
      /\ InStep(db, visited, run[r], h) /\ RowShape(h) /\ ~isSettled(h)
      /\ Script(r) = ContentOf(f, run[r].dir[f]) /\ run[r].dir[f] \in DOMAIN Contents[f]
  BY <1>1, <1>2, RunFacts
<1>4. h # NoRow
  BY <1>1, <1>2, BareFacts
<1>5. Stands(db, visited, f, n)
  BY <1>1, <1>2, <1>3 DEF InStep
<1>6. Total(Script(r)) = n
  BY <1>2, <1>3, ContentFits
<1>7. PICK row : row = [h EXCEPT !.status = "applied", !.uncertain = Null, !.applied = n]
  OBVIOUS
<1>8. row = [status |-> "applied", single |-> h.single, sum |-> h.sum, applied |-> n,
             uncertain |-> Null]
  BY <1>3, <1>4, <1>7 DEF RowShape
<1>9. /\ row.status = "applied" /\ row.sum = h.sum /\ row.applied = n
      /\ row.uncertain = Null
  BY <1>8
<1>10. Truthful(db, visited, f, row)
  BY <1>2, <1>3, <1>4, <1>5, <1>9 DEF Truthful, isSettled
<1>11. NextFile(r) /\ history' = [history EXCEPT ![run[r].file] = row]
  BY <1>2, <1>6, <1>7 DEF MarkApplied, Current, Write
<1>12. db' = db /\ visited' = visited /\ Spares(f)
  BY <1>1, Untouched
<1> QED  BY <1>1, <1>2, <1>3, <1>10, <1>11, <1>12, LeavesInPlace

-----------------------------------------------------------------------------
(* InPlace in the steps of no run, in every step, and at last.              *)

\* While an orphan holds the lock, no run relies on anything; what it builds
\* becomes valid, and nothing is lost.
LEMMA OrphanInPlace == ASSUME Invariant, InPlace, OrphanEnds PROVE InPlace'
<1>1. PICK B, e : e = db' /\ e = [o \in Objects |-> IF o \in B THEN "valid" ELSE db[o]]
  BY DEF OrphanEnds
<1>2. lock = Orphan /\ UNCHANGED <<history, visited, run>>
  BY DEF OrphanEnds
<1>3. Sound(e) /\ \A o \in Objects : db[o] = "valid" => e[o] = "valid"
  BY <1>1, BuiltKeeps DEF InPlace
<1>4. ASSUME NEW f \in Files PROVE Truthful(e, visited, f, history[f])
  <2>1. \A i \in DOMAIN Steps(f) : Steps(f)[i].makes \subseteq Objects
    BY StepsType
  <2>2. \A n : Stands(db, visited, f, n) => Stands(e, visited, f, n)
    BY <1>3, <2>1 DEF Stands
  <2>3. Truthful(db, visited, f, history[f])
    BY DEF InPlace
  <2> QED  BY <2>2, <2>3 DEF Truthful
<1>5. ASSUME NEW r \in Runners PROVE Abreast(e, visited, history, run[r])
  <2>1. run[r].pc \notin Holding
    BY <1>2, RunnerAssumption DEF Invariant, Exclusive
  <2> QED  BY <2>1 DEF Abreast, Holding
<1> QED  BY <1>1, <1>2, <1>3, <1>4, <1>5 DEF InPlace

\* InPlace is kept by every step.
LEMMA NextInPlace == Fitting /\ Invariant /\ Traced /\ InPlace /\ [Next]_vars => InPlace'
<1> SUFFICES ASSUME Fitting, Invariant, Traced, InPlace, [Next]_vars PROVE InPlace'
  OBVIOUS
<1>1. ASSUME NEW r \in Runners, Start(r) \/ AcquireLock(r) \/ GiveUp(r) \/ Crash(r)
      PROVE  InPlace'
  BY <1>1, IdlesInPlace
<1>2. ASSUME NEW r \in Runners, Works(r) PROVE InPlace'
  BY <1>2, ReconcileInPlace, RecordSupersededInPlace, IdlesInPlace, BeginSegmentsInPlace,
     BeginBareInPlace, CommitSegmentInPlace, FailSegmentInPlace, MarkUncertainInPlace,
     ExecutesInPlace, BatchInPlace, FailStatementInPlace, MarkStatementAppliedInPlace,
     MarkAppliedInPlace DEF Works
<1>3. ASSUME (\E f \in Files : Edit(f)) \/ UNCHANGED vars PROVE InPlace'
  <2>1. UNCHANGED <<history, db, visited, run>>
    BY <1>3 DEF Edit, database, vars
  <2> QED  BY <2>1 DEF InPlace
<1> QED  BY <1>1, <1>2, <1>3, OrphanInPlace DEF Next

\* What a content that has run leaves is what its statements make.
LEMMA LeavesMakes ==
    ASSUME NEW c, NEW o, o \in Leaves(c)
    PROVE  \E i \in DOMAIN StatementsOf(c) : o \in StatementsOf(c)[i].makes
<1>1. PICK d : d = [p \in Objects |-> "none"]
  OBVIOUS
<1>2. o \in Objects /\ AfterAll(d, StatementsOf(c))[o] = "valid" /\ d[o] = "none"
  BY <1>1 DEF Leaves
<1>3. Remade(o, StatementsOf(c))
  BY <1>2 DEF AfterAll
<1> QED  BY <1>3 DEF Remade

LEMMA InPlaceApplied == Fitting /\ InPlace => AppliedIsInPlace
<1> SUFFICES ASSUME Fitting, InPlace, NEW f \in Files, history[f].status = "applied",
                    NEW c, c = ContentOf(f, history[f].sum)
             PROVE  (\A o \in Leaves(c) : db[o] = "valid") /\ 1..c.rows \subseteq visited[f]
  BY DEF AppliedIsInPlace
<1>1. history[f] # NoRow
  BY DEF NoRow
<1>2. PICK a : a = history[f].applied
  OBVIOUS
<1>3. /\ history[f].sum \in DOMAIN Contents[f] /\ a \in Nat /\ Stands(db, visited, f, a)
      /\ a >= Len(Steps(f))
  BY <1>1, <1>2 DEF InPlace, Truthful
<1>4. /\ StatementsOf(c) = Steps(f) /\ c.rows = RowsOf(f) /\ RowsOf(f) \in Nat
      /\ RowsOf(f) > 0 => Len(Steps(f)) = 1
  BY <1>3, ContentFits
<1>5. ASSUME NEW o \in Leaves(c) PROVE db[o] = "valid"
  <2>1. PICK i \in DOMAIN Steps(f) : o \in Steps(f)[i].makes
    BY <1>4, LeavesMakes
  <2>2. i <= a
    BY <1>3, <2>1, StepsType
  <2> QED  BY <1>3, <2>1, <2>2 DEF Stands
<1>6. 1..c.rows \subseteq visited[f]
  <2>1. CASE RowsOf(f) > 0
    <3>1. Len(Steps(f)) = 1
      BY <1>4, <2>1
    <3>2. a > 0
      BY <1>3, <3>1
    <3>3. 1..RowsOf(f) \subseteq visited[f]
      BY <1>3, <3>2 DEF Stands
    <3> QED  BY <1>4, <3>3
  <2>2. CASE ~(RowsOf(f) > 0)
    BY <1>4, <2>2
  <2> QED  BY <2>1, <2>2
<1> QED  BY <1>5, <1>6

\* Where developers keep to Fitting: what the rows say was applied, and what a
\* run counts as applied, is in the database (run.ts, runFile; apply.ts).
THEOREM InPlaceHolds == Fitting => (Spec => []InPlace)
<1>1. ASSUME Fitting PROVE Spec => []InPlace
  <2>1. Invariant /\ Traced /\ InPlace /\ [Next]_vars => InPlace'
    BY <1>1, NextInPlace
  <2> QED  BY <2>1, InitInPlace, InvariantHolds, TracedHolds, PTL DEF Spec
<1> QED  BY <1>1

\* Where developers keep to Fitting: a file recorded as applied has left
\* everything it makes in the database, valid, and all its rows updated,
\* whatever died, was refused, retried or framed otherwise on the way.
THEOREM AppliedHolds == Fitting => (Spec => []AppliedIsInPlace)
<1>1. ASSUME Fitting PROVE Spec => []AppliedIsInPlace
  <2>1. InPlace => AppliedIsInPlace
    BY <1>1, InPlaceApplied
  <2>2. Spec => []InPlace
    BY <1>1, InPlaceHolds
  <2> QED  BY <2>1, <2>2, PTL
<1> QED  BY <1>1
=============================================================================
