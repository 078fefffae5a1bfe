--------------------------- MODULE MigrationRunner ---------------------------
(***************************************************************************)
(* `migrate apply` of pg-prime-kit (runner/run.ts, runner/apply.ts,        *)
(* history/store.ts, data/batch.ts): runners that race for one session     *)
(* advisory lock, reconcile the files of their checkout with               *)
(* pgprime.migrations, jump to a checkpoint or supersede it, and apply     *)
(* what is pending: in one transaction, segment by segment, or statement   *)
(* by statement with a mark before and after each one.  A runner may die,  *)
(* or lose its connection, between any two commits, and the backend it     *)
(* leaves behind goes on building while it holds the lock; a developer may *)
(* rewrite, delete or restore a file between two runs.                     *)
(*                                                                         *)
(* A file is a number; its contents say how the runner frames it and what  *)
(* its statements drop and make.  Left out: dry runs, --to, the            *)
(* fingerprint gate, repeatables, pooler detection, and the lease row,     *)
(* which only names the holder of the lock in a report.                    *)
(***************************************************************************)
EXTENDS Integers, Sequences, FiniteSets, SequencesExt

CONSTANTS
    Runners,        \* processes that run `migrate apply`, one after another or at once
    Contents,       \* file -> the contents a developer may give it, the first one at first
    Objects,        \* what the statements make and drop
    Budget,         \* executions allowed to a statement or file that fails retryably
    Ignores,        \* may a run be started with checkpoints: "ignore"?
    MaxFaults,      \* bound: runners that die, in all
    MaxFailures,    \* bound: statements the server refuses, in all
    MaxEdits        \* bound: edits of the directory, in all

Files == DOMAIN Contents
Null == -1          \* NULL in statement_uncertain
Absent == 0         \* a file that is not on disk
Free == "free"      \* nobody holds the advisory lock
Orphan == "orphan"  \* a backend whose client is gone holds it

Statement == [drops : SUBSET Objects, makes : SUBSET Objects,
              strict : BOOLEAN, slow : BOOLEAN]
Content == [mode : {"transactional", "segmented", "none"}, checkpoint : BOOLEAN,
            segments : Seq(Seq(Statement)), rows : Nat]

ASSUME RunnerAssumption ==
    /\ Files \in SUBSET (Nat \ {0}) /\ IsFiniteSet(Files)
    /\ \A f \in Files :
          /\ Contents[f] \in Seq(Content) /\ Contents[f] # <<>>
          /\ \A v \in DOMAIN Contents[f] : Contents[f][v].segments # <<>>
    /\ {Free, Orphan} \cap Runners = {}
    /\ Budget \in Nat \ {0} /\ Ignores \subseteq BOOLEAN
    /\ {MaxFaults, MaxFailures, MaxEdits} \subseteq Nat

VARIABLES
    disk,       \* file -> the content a checkout holds now, or Absent
    history,    \* file -> its row of pgprime.migrations, or NoRow
    db,         \* object -> "none", "invalid" (a build that did not end) or "valid"
    visited,    \* file -> the rows its batches have updated
    data,       \* file -> the watermark in pgprime.data_progress
    lock,       \* who holds the advisory lock
    building,   \* what the orphaned backend still builds
    run,        \* runner -> its run
    touched,    \* files of which some statement has committed
    spent       \* the bounds used up

vars == <<disk, history, db, visited, data, lock, building, run, touched, spent>>
database == <<db, visited, data, building, touched>>

NoRow == [status |-> "none"]
Row == [status : {"running", "failed", "applied", "superseded"}, single : BOOLEAN,
        sum : Nat \ {Absent}, applied : Nat, uncertain : Nat \cup {Null}]
Off == [pc |-> "off"]
-----------------------------------------------------------------------------
(* Files and their statements.                                              *)

ContentOf(f, v) == Contents[f][v]
StatementsOf(c) == FlattenSeq(c.segments)
Total(c) == Len(StatementsOf(c))
Earlier(c, k) == Len(FlattenSeq(SubSeq(c.segments, 1, k - 1)))

\* Does the statement run?  CREATE fails on an object of its name, be it
\* valid or not.
Runs(objects, s) == s.strict => \A o \in s.makes : objects[o] = "none"

\* IF NOT EXISTS leaves what is there as it is.
After(objects, s, as) ==
    [o \in Objects |-> IF o \in s.drops THEN "none"
                      ELSE IF o \in s.makes /\ objects[o] = "none" THEN as
                      ELSE objects[o]]

\* Is o dropped by some statement, and made after the last one that drops it?
Dropped(o, seq) == \E i \in DOMAIN seq : o \in seq[i].drops
Remade(o, seq) ==
    \E i \in DOMAIN seq : /\ o \in seq[i].makes
                          /\ \A j \in DOMAIN seq : j >= i => o \notin seq[j].drops

\* What a sequence of statements in one transaction does.
AfterAll(objects, seq) ==
    [o \in Objects |->
        LET before == IF Dropped(o, seq) THEN "none" ELSE objects[o]
        IN IF before = "none" /\ Remade(o, seq) THEN "valid" ELSE before]
RunsAll(objects, seq) ==
    \A i \in DOMAIN seq : Runs(AfterAll(objects, SubSeq(seq, 1, i - 1)), seq[i])

\* What a content leaves in the database once all of it has run.
Leaves(c) == {o \in Objects : AfterAll([p \in Objects |-> "none"], StatementsOf(c))[o] = "valid"}
-----------------------------------------------------------------------------
(* Rows of the history.                                                     *)

isSettled(row) == row.status \in {"applied", "superseded"}

\* A failed single transaction left nothing: its file may be deleted.
leftNothing(row) ==
    row.status = "failed" /\ row.single /\ row.applied = 0 /\ row.uncertain = Null

\* Mutants: a statement in flight counts as done; its mark is not looked at.
resumeFromNext(row) ==
    IF row = NoRow THEN 0 ELSE IF row.uncertain # Null THEN row.uncertain + 1 ELSE row.applied
resumeFromApplied(row) == IF row = NoRow THEN 0 ELSE row.applied

\* Where a file of mode none restarts.
resumeFrom(row) ==
    IF row = NoRow \/ row.uncertain # Null THEN 0 ELSE row.applied

RowOf(f, v, status, applied, uncertain) ==
    [status |-> status, single |-> ContentOf(f, v).mode = "transactional", sum |-> v,
     applied |-> applied, uncertain |-> uncertain]

\* Mutant: what may have committed is not marked.
beginRowUnmarked(f, v, applied, uncertain) ==
    LET new == RowOf(f, v, "running", applied, Null)
    IN IF history[f] = NoRow THEN new
       ELSE [new EXCEPT !.applied = history[f].applied, !.uncertain = history[f].uncertain]

beginRow(f, v, applied, uncertain) ==
    LET new == RowOf(f, v, "running", applied, uncertain)
    IN IF history[f] = NoRow THEN new
       ELSE [new EXCEPT !.applied = history[f].applied,
                        !.uncertain = IF uncertain = Null THEN history[f].uncertain ELSE @]

markFailed(f, v, applied) ==
    IF history[f] = NoRow THEN RowOf(f, v, "failed", applied, Null)
    ELSE [history[f] EXCEPT !.status = "failed", !.applied = applied]

recordApplied(f, v) == RowOf(f, v, "applied", Total(ContentOf(f, v)), Null)

markStatementApplied(row, i) ==
    [row EXCEPT !.applied = IF @ > i + 1 THEN @ ELSE i + 1, !.uncertain = Null]
-----------------------------------------------------------------------------
Spend(what, bound) == spent[what] < bound /\ spent' = [spent EXCEPT ![what] = @ + 1]

First(f, S) == f \in S /\ \A g \in S : f <= g
Current(r) == run[r].file
Version(r) == run[r].dir[Current(r)]
Script(r) == ContentOf(Current(r), Version(r))
Bare(r) == StatementsOf(Script(r))[run[r].at + 1]
IsBatch(r) == Script(r).rows > 0

Write(f, row) == history' = [history EXCEPT ![f] = row]
Goes(r, new) == run' = [run EXCEPT ![r] = new]

\* finish(): the lock is released, the process ends.
Leave(r) == Goes(r, Off) /\ lock' = Free

Init ==
    /\ disk = [f \in Files |-> 1]
    /\ history = [f \in Files |-> NoRow]
    /\ db = [o \in Objects |-> "none"]
    /\ visited = [f \in Files |-> {}]
    /\ data = [f \in Files |-> 0]
    /\ lock = Free
    /\ building = {}
    /\ run = [r \in Runners |-> Off]
    /\ touched = {}
    /\ spent = [faults |-> 0, failures |-> 0, edits |-> 0]
-----------------------------------------------------------------------------
(* The start of a run: files, lock, reconciliation.                         *)

\* The directory is read before the lock is waited for.
Start(r) ==
    /\ run[r].pc = "off"
    /\ \E ignore \in Ignores : Goes(r, [pc |-> "waiting", dir |-> disk, ignore |-> ignore])
    /\ UNCHANGED <<disk, history, database, lock, spent>>

\* Mutant: the answer of pg_try_advisory_lock is not looked at.
AcquireLockAnyway(r) ==
    /\ run[r].pc = "waiting"
    /\ lock' = r
    /\ Goes(r, [run[r] EXCEPT !.pc = "locked"])
    /\ UNCHANGED <<disk, history, database, spent>>

AcquireLock(r) ==
    /\ run[r].pc = "waiting" /\ lock = Free
    /\ lock' = r
    /\ Goes(r, [run[r] EXCEPT !.pc = "locked"])
    /\ UNCHANGED <<disk, history, database, spent>>

\* lockWaitMs is over: "locked", or "up_to_date" when nothing is pending.
GiveUp(r) ==
    /\ run[r].pc = "waiting" /\ lock # Free
    /\ Goes(r, Off)
    /\ UNCHANGED <<disk, history, database, lock, spent>>

Drifted(rows, dir) ==
    \E f \in Files :
        /\ rows[f] # NoRow
        /\ IF dir[f] = Absent THEN ~leftNothing(rows[f])
           ELSE rows[f].status = "applied" /\ rows[f].sum # dir[f]

Checkpoints(dir) == {f \in Files : dir[f] # Absent /\ ContentOf(f, dir[f]).checkpoint}

\* The files a run records as superseded: those before the newest checkpoint
\* on a database without history, the unrecorded checkpoints on any other.
Superseded(rows, dir, ignore) ==
    IF (\A f \in Files : rows[f] = NoRow) /\ Checkpoints(dir) # {} /\ ~ignore
    THEN {f \in Files : dir[f] # Absent /\ \E c \in Checkpoints(dir) : f < c}
    ELSE {c \in Checkpoints(dir) : rows[c] = NoRow}

Reconcile(r) ==
    /\ run[r].pc = "locked"
    /\ LET dir == run[r].dir
           jumped == Superseded(history, dir, run[r].ignore)
           pending == {f \in Files : dir[f] # Absent /\ ~isSettled(history[f])}
       IN IF Drifted(history, dir) THEN Leave(r)
          ELSE /\ Goes(r, [pc |-> "files", dir |-> dir, seen |-> history,
                           jumped |-> jumped, todo |-> pending \ jumped])
               /\ UNCHANGED lock
    /\ UNCHANGED <<disk, history, database, spent>>

\* One row, one commit.
RecordSuperseded(r) ==
    /\ run[r].pc = "files"
    /\ \E f \in run[r].jumped :
          /\ First(f, run[r].jumped)
          /\ Write(f, IF history[f] = NoRow THEN RowOf(f, run[r].dir[f], "superseded", 0, Null)
                      ELSE history[f])
          /\ Goes(r, [run[r] EXCEPT !.jumped = @ \ {f}])
    /\ UNCHANGED <<disk, database, lock, spent>>

Finish(r) ==
    /\ run[r].pc = "files" /\ run[r].jumped = {} /\ run[r].todo = {}
    /\ Leave(r)
    /\ UNCHANGED <<disk, history, database, spent>>

At(r, f, pc, i) ==
    [pc |-> pc, dir |-> run[r].dir, seen |-> run[r].seen, jumped |-> {}, todo |-> run[r].todo,
     file |-> f, at |-> i, attempt |-> 1, committed |-> 0, from |-> 0, mark |-> 0]

NextFile(r) ==
    Goes(r, [pc |-> "files", dir |-> run[r].dir, seen |-> run[r].seen, jumped |-> {},
             todo |-> run[r].todo \ {Current(r)}])
-----------------------------------------------------------------------------
(* A file in transactions.                                                  *)

Begins(r, f) == run[r].pc = "files" /\ run[r].jumped = {} /\ First(f, run[r].todo)

BeginSegments(r, f) ==
    /\ Begins(r, f)
    /\ LET v == run[r].dir[f]
           row == run[r].seen[f]
           committed == IF row.status \in {"failed", "running"} THEN row.applied ELSE 0
       IN /\ ContentOf(f, v).mode # "none"
          /\ Goes(r, [At(r, f, "segment", 1) EXCEPT !.committed = committed])
          /\ IF Len(ContentOf(f, v).segments) > 1
             THEN Write(f, beginRow(f, v, committed, committed))
             ELSE UNCHANGED history
    /\ UNCHANGED <<disk, database, lock, spent>>

\* One transaction; the last one also records the file.
CommitSegment(r) ==
    /\ run[r].pc = "segment"
    /\ LET f == Current(r)
           segments == Script(r).segments
       IN /\ RunsAll(db, segments[run[r].at])
          /\ db' = AfterAll(db, segments[run[r].at])
          /\ touched' = touched \cup {f}
          /\ IF run[r].at = Len(segments)
             THEN Write(f, recordApplied(f, Version(r))) /\ NextFile(r)
             ELSE Goes(r, [run[r] EXCEPT !.at = @ + 1]) /\ UNCHANGED history
    /\ UNCHANGED <<disk, visited, data, building, lock, spent>>

\* The server refuses a statement: for good, or (lock_timeout, a
\* serialization failure) so that it may be tried again.
Refused(objects, seq) ==
    {c \in {"duplicate", "fatal", "retryable"} :
        IF c = "duplicate" THEN ~RunsAll(objects, seq) ELSE spent["failures"] < MaxFailures}
Charge(class) ==
    IF class = "duplicate" THEN UNCHANGED spent ELSE Spend("failures", MaxFailures)
TriesAgain(r, class) == class = "retryable" /\ run[r].attempt < Budget

\* The transaction rolls back; the file is retried whole or recorded failed.
FailSegment(r) ==
    /\ run[r].pc = "segment"
    /\ LET f == Current(r)
           before == Earlier(Script(r), run[r].at)
           committed == IF before > run[r].committed THEN before ELSE run[r].committed
       IN \E class \in Refused(db, Script(r).segments[run[r].at]) :
            /\ Charge(class)
            /\ IF TriesAgain(r, class)
               THEN /\ Goes(r, [run[r] EXCEPT !.at = 1, !.attempt = @ + 1, !.committed = committed])
                    /\ UNCHANGED <<history, lock>>
               ELSE Write(f, markFailed(f, Version(r), committed)) /\ Leave(r)
    /\ UNCHANGED <<disk, database>>
-----------------------------------------------------------------------------
(* A file without a transaction.                                            *)

Following(c, i) == IF i < Total(c) THEN "mark" ELSE "finish"

BeginBare(r, f) ==
    /\ Begins(r, f)
    /\ LET v == run[r].dir[f]
           from == resumeFrom(run[r].seen[f])
       IN /\ ContentOf(f, v).mode = "none"
          /\ Write(f, beginRow(f, v, from, Null))
          /\ Goes(r, [At(r, f, Following(ContentOf(f, v), from), from)
                        EXCEPT !.from = data[f], !.mark = data[f]])
    /\ UNCHANGED <<disk, database, lock, spent>>

MarkUncertain(r) ==
    /\ run[r].pc = "mark"
    /\ Write(Current(r), [history[Current(r)] EXCEPT !.uncertain = run[r].at])
    /\ Goes(r, [run[r] EXCEPT !.pc = "exec", !.attempt = 1])
    /\ UNCHANGED <<disk, database, lock, spent>>

Execute(r) ==
    /\ run[r].pc = "exec" /\ ~IsBatch(r) /\ ~Bare(r).slow /\ Runs(db, Bare(r))
    /\ db' = After(db, Bare(r), "valid")
    /\ touched' = touched \cup {Current(r)}
    /\ Goes(r, [run[r] EXCEPT !.pc = "ran"])
    /\ UNCHANGED <<disk, history, visited, data, building, lock, spent>>

\* CREATE INDEX CONCURRENTLY: the catalog entry commits first, invalid.
StartBuild(r) ==
    /\ run[r].pc = "exec" /\ ~IsBatch(r) /\ Bare(r).slow /\ Runs(db, Bare(r))
    /\ db' = After(db, Bare(r), "invalid")
    /\ touched' = touched \cup {Current(r)}
    /\ Goes(r, [run[r] EXCEPT !.pc = "building"])
    /\ UNCHANGED <<disk, history, visited, data, building, lock, spent>>

EndBuild(r) ==
    /\ run[r].pc = "building"
    /\ db' = [o \in Objects |-> IF o \in Bare(r).makes THEN "valid" ELSE db[o]]
    /\ Goes(r, [run[r] EXCEPT !.pc = "ran"])
    /\ UNCHANGED <<disk, history, visited, data, building, touched, lock, spent>>

\* One batch: the rows after the watermark and the watermark itself commit
\* together; a batch without rows ends the statement.
Batch(r) ==
    /\ run[r].pc = "exec" /\ IsBatch(r)
    /\ LET f == Current(r)
           next == run[r].mark + 1
       IN IF next <= Script(r).rows
          THEN /\ visited' = [visited EXCEPT ![f] = @ \cup {next}]
               /\ data' = [data EXCEPT ![f] = next]
               /\ touched' = touched \cup {f}
               /\ Goes(r, [run[r] EXCEPT !.mark = next])
          ELSE /\ data' = [data EXCEPT ![f] = run[r].mark]
               /\ Goes(r, [run[r] EXCEPT !.pc = "ran"])
               /\ UNCHANGED <<visited, touched>>
    /\ UNCHANGED <<disk, history, db, building, lock, spent>>

\* Mutant: a batch that was rolled back has moved the watermark it retries from.
FailStatementMoved(r) ==
    /\ run[r].pc \in {"exec", "building"}
    /\ \E class \in Refused(db, IF run[r].pc = "exec" /\ ~IsBatch(r) THEN <<Bare(r)>> ELSE <<>>) :
         /\ Charge(class)
         /\ IF TriesAgain(r, class)
            THEN /\ Goes(r, [run[r] EXCEPT !.pc = "exec", !.attempt = @ + 1, !.mark = @ + 1])
                 /\ UNCHANGED <<history, lock>>
            ELSE Write(Current(r), markFailed(Current(r), Version(r), run[r].at)) /\ Leave(r)
    /\ UNCHANGED <<disk, database>>

\* A bare statement is retried alone; a batch statement is handed the
\* progress the file had before the statement.
FailStatement(r) ==
    /\ run[r].pc \in {"exec", "building"}
    /\ \E class \in Refused(db, IF run[r].pc = "exec" /\ ~IsBatch(r) THEN <<Bare(r)>> ELSE <<>>) :
         /\ Charge(class)
         /\ IF TriesAgain(r, class)
            THEN /\ Goes(r, [run[r] EXCEPT !.pc = "exec", !.attempt = @ + 1, !.mark = run[r].from])
                 /\ UNCHANGED <<history, lock>>
            ELSE Write(Current(r), markFailed(Current(r), Version(r), run[r].at)) /\ Leave(r)
    /\ UNCHANGED <<disk, database>>

MarkStatementApplied(r) ==
    /\ run[r].pc = "ran"
    /\ Write(Current(r), markStatementApplied(history[Current(r)], run[r].at))
    /\ Goes(r, [run[r] EXCEPT !.pc = Following(Script(r), run[r].at + 1), !.at = @ + 1])
    /\ UNCHANGED <<disk, database, lock, spent>>

MarkApplied(r) ==
    /\ run[r].pc = "finish"
    /\ Write(Current(r), [history[Current(r)] EXCEPT !.status = "applied", !.uncertain = Null,
                                                     !.applied = Total(Script(r))])
    /\ NextFile(r)
    /\ UNCHANGED <<disk, database, lock, spent>>
-----------------------------------------------------------------------------
(* What the runner has to survive.                                          *)

\* The process dies or loses its connection.  Its transaction rolls back, its
\* session lock goes with its backend, which first ends a build in flight.
Crash(r) ==
    /\ run[r].pc # "off" /\ Spend("faults", MaxFaults)
    /\ Goes(r, Off)
    /\ IF run[r].pc = "building"
       THEN building' = Bare(r).makes /\ lock' = Orphan
       ELSE lock' = (IF lock = r THEN Free ELSE lock) /\ UNCHANGED building
    /\ UNCHANGED <<disk, history, db, visited, data, touched>>

\* The orphan ends its build, or is terminated and leaves it invalid.
OrphanEnds ==
    /\ lock = Orphan
    /\ \E built \in SUBSET building : built \in {{}, building}
         /\ db' = [o \in Objects |-> IF o \in built THEN "valid" ELSE db[o]]
    /\ building' = {} /\ lock' = Free
    /\ UNCHANGED <<disk, history, visited, data, run, touched, spent>>

\* A developer rewrites, deletes or restores a file.
Edit(f) ==
    /\ Spend("edits", MaxEdits)
    /\ \E v \in (DOMAIN Contents[f] \cup {Absent}) \ {disk[f]} : disk' = [disk EXCEPT ![f] = v]
    /\ UNCHANGED <<history, database, lock, run>>

Works(r) ==
    \/ Reconcile(r) \/ RecordSuperseded(r) \/ Finish(r)
    \/ \E f \in Files : BeginSegments(r, f) \/ BeginBare(r, f)
    \/ CommitSegment(r) \/ FailSegment(r) \/ MarkUncertain(r) \/ Execute(r) \/ StartBuild(r) \/ EndBuild(r)
    \/ Batch(r) \/ FailStatement(r) \/ MarkStatementApplied(r) \/ MarkApplied(r)

Next ==
    \/ \E r \in Runners : Start(r) \/ AcquireLock(r) \/ GiveUp(r) \/ Works(r) \/ Crash(r)
    \/ OrphanEnds
    \/ \E f \in Files : Edit(f)

Spec == Init /\ [][Next]_vars

\* A deploy that failed is started again, a waiting runner gets the lock it
\* polls for, a run goes on and a server ends what it runs.
Fairness ==
    /\ WF_vars(\E r \in Runners : Start(r))
    /\ \A r \in Runners : SF_vars(AcquireLock(r)) /\ WF_vars(Works(r))
    /\ WF_vars(OrphanEnds)

FairSpec == Spec /\ Fairness
-----------------------------------------------------------------------------
(* Properties.                                                              *)

\* What developers have to keep to, or AppliedIsInPlace does not hold.  A file
\* that is rewritten keeps its statements and is only framed otherwise.  What is
\* made is not dropped, except by the file that builds it in its last statement.
\* Builds and batches are outside of transactions, a batch is alone in its file,
\* and what is built is not made in another way.
Steps(f) == StatementsOf(ContentOf(f, 1))
Fitting ==
    \A f \in Files :
        /\ \A v \in DOMAIN Contents[f] :
              LET c == ContentOf(f, v)
              IN /\ StatementsOf(c) = Steps(f) /\ c.rows = ContentOf(f, 1).rows
                 /\ c.rows > 0 => Len(Steps(f)) = 1 /\ Steps(f)[1].makes = {}
                 /\ c.rows > 0 \/ (\E i \in DOMAIN Steps(f) : Steps(f)[i].slow)
                       => c.mode = "none"
        /\ \A g \in Files : \A i \in DOMAIN Steps(f), j \in DOMAIN Steps(g) :
              LET s == Steps(f)[i]
                  t == Steps(g)[j]
              IN /\ s.drops \cap t.makes # {} => f = g /\ t.slow /\ j = Len(Steps(g))
                 /\ s.slow /\ ~t.slow => s.makes \cap t.makes = {}

\* A file recorded as applied has left everything it makes in the database,
\* valid, and all its rows updated: whatever died, was refused, retried or
\* rewritten on the way (run.ts, runFile and resumeFrom).
AppliedIsInPlace ==
    \A f \in Files :
        history[f].status = "applied" =>
            LET c == ContentOf(f, history[f].sum)
            IN (\A o \in Leaves(c) : db[o] = "valid") /\ 1..c.rows \subseteq visited[f]

\* A row that lets its file be deleted stands for a file of which nothing was
\* ever committed, under any of its contents (store.ts, leftNothing).
WithdrawnLeftNothing ==
    \A f \in Files : history[f] # NoRow /\ leftNothing(history[f]) => f \notin touched

\* The watermark never passes a row that was not updated (batch.ts).
WatermarkCommitsWithRows == \A f \in Files : 1..data[f] \subseteq visited[f]

\* What was recorded as applied or superseded is never run or recorded again,
\* not by a runner with an older view of the history or of the files.
SettledIsFinal ==
    [][\A f \in Files : isSettled(history[f]) => history'[f] = history[f]]_vars

\* When every file on disk is settled and nothing runs, what the superseded
\* files make is there: a checkpoint stood in for them (run.ts 5-bis).
SupersededIsInPlace ==
    (\A f \in Files : disk[f] # Absent => isSettled(history[f])) /\ lock = Free =>
        \A f \in Files : history[f].status = "superseded" =>
            \A o \in Leaves(ContentOf(f, history[f].sum)) : db[o] = "valid"

\* Every deploy ends: the files are settled, or the run refuses a directory
\* that lost or changed a file the database has.
EventuallyUpToDate ==
    <>[](\/ \A f \in Files : disk[f] # Absent => isSettled(history[f])
         \/ Drifted(history, disk))
=============================================================================
