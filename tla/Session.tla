------------------------------- MODULE Session -------------------------------
(***************************************************************************)
(* Transactions and sessions of pg-prime on a pool of connections: the     *)
(* retry loop of db.transaction, savepoints, rollbackWith, db.session and  *)
(* session.transaction, the queue of statements of a connection, and what  *)
(* the pool does with a connection that comes back.                        *)
(*                                                                         *)
(* Callbacks are arbitrary programs over the innermost handle.  They need  *)
(* not await their statements: the connection runs them in order anyway.   *)
(* Statements write; a write is named by its caller, attempt and number.   *)
(* The server executes the head of a connection's queue and its answer     *)
(* resumes the caller in the same step; a connection is lost before or     *)
(* after the server executed the head.                                     *)
(***************************************************************************)
EXTENDS Integers, Sequences, SequencesExt, FiniteSets

CONSTANTS
    Callers,      \* application code, each with one call of the library
    Conns,        \* slots of the pool
    KindOf,       \* the call each makes: "transaction" or "session"
    MaxAttempts,  \* retry.maxAttempts
    MaxNested,    \* bound: transactions of a session
    MaxWrites,    \* bound: statements of an attempt
    MaxDepth,     \* bound: nesting of savepoints
    MaxSavepoints,\* bound: savepoints of an attempt
    MaxFaults,    \* bound: lost connections and pool timeouts
    MaxErrors,    \* bound: statements and commits that the server rejects
    Late          \* whether code may use a handle after its callback returned

ASSUME SessionAssumption ==
    /\ KindOf \in [Callers -> {"transaction", "session"}] /\ Late \in BOOLEAN
    /\ MaxAttempts \in Nat \ {0} /\ MaxNested \in 0..MaxAttempts /\ MaxWrites \in Nat /\ MaxDepth \in Nat
    /\ MaxSavepoints \in Nat /\ MaxFaults \in Nat /\ MaxErrors \in Nat

VARIABLES
    conn,    \* a connection: lease, queue, and the state of its backend
    call,    \* the memory of a call and of the callbacks in it
    db,      \* committed writes
    res,     \* per caller and attempt: what the caller was told
    budget   \* faults and errors left

vars == <<conn, call, db, res, budget>>

Nobody == "nobody"
ASSUME NobodyAssumption == Nobody \notin Callers \cup Conns
Attempts == 0..MaxAttempts
Write == Callers \X Attempts \X (1..MaxWrites)
WritesOf(k, n) == {w \in Write : w[1] = k /\ w[2] = n}

\* A backend: status is the one of ReadyForQuery, xact the attempt that opened
\* the transaction, levels its writes, one set per savepoint and one below.
Fresh == [holder |-> Nobody, queue |-> <<>>, usable |-> TRUE,
          status |-> "I", xact |-> <<>>, levels |-> <<>>]
Told == [told |-> "none", kept |-> {}, tag |-> "none"]

Init ==
    /\ conn = [c \in Conns |-> Fresh]
    /\ call = [k \in Callers |->
                  [pc |-> "idle", kind |-> KindOf[k], n |-> 0, conn |-> Nobody, issued |-> 0,
                   opened |-> 0, scopes |-> <<>>, doomed |-> {}, cause |-> "none"]]
    /\ db = {}
    /\ res = [k \in Callers |-> [n \in Attempts |-> Told]]
    /\ budget = [faults |-> MaxFaults, errors |-> MaxErrors]

-----------------------------------------------------------------------------
(* The backend executes one command.                                       *)

Top(b) == Len(b.levels)
Idle(b) == [b EXCEPT !.status = "I", !.xact = <<>>, !.levels = <<>>]
Failed(b) == IF b.status = "I" THEN b ELSE [b EXCEPT !.status = "E"]
Open(b) == UNION Range(b.levels)

\* The backend after the command, what it commits, and whether it succeeds.
\* COMMIT of a failed transaction rolls back and succeeds; BEGIN in an open
\* one changes nothing; in a failed one only COMMIT and the rollbacks work.
Done(b) == [b |-> b, commits |-> {}, ok |-> TRUE]
Refused(b) == [b |-> Failed(b), commits |-> {}, ok |-> FALSE]
Executed(b, cmd) ==
    CASE cmd.op = "commit"   -> [Done(Idle(b)) EXCEPT !.commits = IF b.status = "T" THEN Open(b) ELSE {}]
      [] cmd.op = "rollback" -> Done(Idle(b))
      [] cmd.op = "rollbackTo" /\ Top(b) > 1 ->
             Done([b EXCEPT !.status = "T", !.levels[Top(b)] = {}])
      [] cmd.op = "begin" /\ b.status = "I" ->
             Done([b EXCEPT !.status = "T", !.xact = cmd.by, !.levels = <<{}>>])
      [] cmd.op = "begin" /\ b.status = "T" -> Done(b)
      [] cmd.op = "savepoint" /\ b.status = "T" -> Done([b EXCEPT !.levels = Append(@, {})])
      [] cmd.op = "release" /\ b.status = "T" /\ Top(b) > 1 ->
             Done([b EXCEPT !.levels = Append(Front(Front(@)), @[Top(b)] \cup @[Top(b) - 1])])
      [] cmd.op = "write" /\ b.status = "T" ->
             Done([b EXCEPT !.levels[Top(b)] = @ \cup {cmd.w}])
      [] cmd.op = "write" /\ b.status = "I" -> [Done(b) EXCEPT !.commits = {cmd.w}]
      [] OTHER -> Refused(b)

\* The server rejects it: a constraint, a serialization failure.
Rejected(b, cmd) == IF cmd.op = "commit" THEN [Refused(Idle(b)) EXCEPT !.b = Idle(b)] ELSE Refused(b)

-----------------------------------------------------------------------------
(* What a caller does next.  These operators give the next state of the    *)
(* caller and of its connection, and what it is told.                      *)

Attempt(k) == <<k, call[k].n>>
\* What a session does outside its transactions.
Outside(k) == <<k, 0>>
Depth(m) == Len(m.scopes) - 1
Cmd(k, op) == [op |-> op, by |-> Attempt(k), w |-> <<>>]

\* execute(): the command joins the queue of the connection and the caller
\* waits for its answer in pc.
Await(k, m, b, op, pc) ==
    /\ call' = [call EXCEPT ![k] = [m EXCEPT !.pc = pc]]
    /\ conn' = [conn EXCEPT ![m.conn] = [b EXCEPT !.queue = Append(@, Cmd(k, op))]]
    /\ UNCHANGED res

Continue(k, m, b, pc) ==
    /\ call' = [call EXCEPT ![k] = [m EXCEPT !.pc = pc]]
    /\ conn' = [conn EXCEPT ![m.conn] = b]
    /\ UNCHANGED res

\* Mutants of release(): the status is not looked at; a bad one is kept.
BackUnchecked(b, dispose) ==
    IF dispose \/ ~b.usable THEN Fresh ELSE [b EXCEPT !.holder = Nobody]
BackKept(b, dispose) ==
    IF dispose \/ ~b.usable \/ b.status # "I" THEN b ELSE [b EXCEPT !.holder = Nobody]

\* release(): a connection that is unusable, or in a transaction, or that its
\* holder gives up, is destroyed and replaced.
Back(b, dispose) ==
    IF dispose \/ ~b.usable \/ b.status # "I" THEN Fresh ELSE [b EXCEPT !.holder = Nobody]

\* Mutant: without the first hard exclusion.
shouldRetryUnknown(m, told) == told \in {"retryable", "indeterminate"} /\ m.n < MaxAttempts

\* shouldRetry(), with a predicate of the caller that may say yes to anything.
shouldRetry(m, told) == told = "retryable" /\ m.n < MaxAttempts

\* The attempt is over: its caller is told, or it is tried again.
Over(k, m, b, told, tag, dispose) ==
    /\ res' = [res EXCEPT ![k][m.n] =
                  [told |-> told, kept |-> IF m.scopes = <<>> THEN {} ELSE m.scopes[1], tag |-> tag]]
    /\ LET end == [m EXCEPT !.scopes = <<>>, !.doomed = {}, !.cause = "none"]
           left == [end EXCEPT !.conn = Nobody, !.issued = 0, !.opened = 0]
       IN  IF m.kind = "session"
           THEN /\ conn' = [conn EXCEPT ![m.conn] = b]
                /\ call' = [call EXCEPT ![k] = [end EXCEPT !.pc = "session"]]
           ELSE /\ conn' = [conn EXCEPT ![m.conn] = Back(b, dispose)]
                /\ \/ call' = [call EXCEPT ![k] = [left EXCEPT !.pc = "done", !.n = 0]]
                   \/ /\ shouldRetry(m, told)
                      /\ call' = [call EXCEPT ![k] = [left EXCEPT !.pc = "acquire", !.n = @ + 1]]

\* Mutant: a callback that threw releases its savepoint.
UndoReleases(k, m, b) == Await(k, m, b, "release", "undone")

\* The callback of the transaction or savepoint returned or threw.
RollBack(k, m, b, cause) == Await(k, [m EXCEPT !.cause = cause], b, "rollback", "rollback")
Undo(k, m, b) == Await(k, m, b, "rollbackTo", "undo")

Returned(k, m, b) ==
    CASE Depth(m) = 0 /\ 0 \in m.doomed -> RollBack(k, m, b, "rollback")
      [] Depth(m) = 0 /\ 0 \notin m.doomed -> Await(k, m, b, "commit", "commit")
      [] Depth(m) # 0 /\ Depth(m) \in m.doomed -> Undo(k, m, b)
      [] OTHER -> Await(k, m, b, "release", "release")

Threw(k, m, b, cause) == IF Depth(m) = 0 THEN RollBack(k, m, b, cause) ELSE Undo(k, m, b)

\* The scope ends: its writes belong to the enclosing one, or are gone.
Pop(m, keeps) ==
    LET d == Len(m.scopes)
        kept == IF keeps THEN m.scopes[d] ELSE {}
    IN  [m EXCEPT !.scopes = Append(Front(Front(@)), @[d - 1] \cup kept),
                  !.doomed = @ \ {d - 1}]

\* The answer r ("ok", "server" or "conn" for an error) to the command of k.
Begun(k, m, b, r) ==
    CASE r = "ok" -> Continue(k, [m EXCEPT !.scopes = <<{}>>], b, "body")
      [] r # "ok" /\ m.kind = "session" -> Over(k, m, b, "error", "none", FALSE)
      [] OTHER -> RollBack(k, m, b, "retryable")

\* COMMIT was written: if its answer is lost, it may have committed.
Committed(k, m, b, r, tag) ==
    CASE r = "ok" -> Over(k, m, b, "commit", tag, FALSE)
      [] r # "ok" /\ m.kind = "session" -> RollBack(k, m, b, "error")
      [] r = "conn" /\ m.kind = "transaction" -> Over(k, m, b, "indeterminate", tag, TRUE)
      [] OTHER -> Over(k, m, b, "retryable", tag, FALSE)

Answered(k, m, b, r, tag) ==
    CASE m.pc = "begin" -> Begun(k, m, b, r)
      [] m.pc = "commit" -> Committed(k, m, b, r, tag)
      [] m.pc = "rollback" -> Over(k, m, b, m.cause, "none", r = "conn")
      [] m.pc = "savepoint" ->
             Continue(k, IF r = "ok" THEN [m EXCEPT !.scopes = Append(@, {})] ELSE m, b, "body")
      [] m.pc = "release" -> IF r = "ok" THEN Continue(k, Pop(m, TRUE), b, "body") ELSE Undo(k, m, b)
      [] m.pc = "undo" -> Await(k, m, b, "release", "undone")
      [] m.pc = "undone" -> Continue(k, Pop(m, FALSE), b, "body")
      [] m.pc = "sql" -> Continue(k, m, b, "session")

\* A statement has no continuation here: the callback goes on by itself.
Noted(k, m, b, cmd, r) ==
    LET mine == r = "ok" /\ cmd.by = Attempt(k) /\ m.scopes # <<>>
    IN  /\ call' = IF mine THEN [call EXCEPT ![k].scopes[Len(m.scopes)] = @ \cup {cmd.w}] ELSE call
        /\ UNCHANGED res

Resume(c, b, cmd, r, tag) ==
    LET k == cmd.by[1]
    IN  IF cmd.op = "write"
        THEN Noted(k, call[k], b, cmd, r) /\ conn' = [conn EXCEPT ![c] = b]
        ELSE Answered(k, call[k], b, r, tag)

-----------------------------------------------------------------------------
(* The connection.                                                         *)

Popped(c) == [conn[c] EXCEPT !.queue = Tail(@)]
Waiting(c) == conn[c].queue # <<>>
Tag(c) == IF conn[c].status = "T" THEN "COMMIT" ELSE "ROLLBACK"

Answer(c) ==
    /\ Waiting(c) /\ conn[c].usable
    /\ LET cmd == Head(conn[c].queue)
           out == Executed(Popped(c), cmd)
       IN  /\ db' = db \cup out.commits
           /\ Resume(c, out.b, cmd, IF out.ok THEN "ok" ELSE "server", Tag(c))
    /\ UNCHANGED budget

Reject(c) ==
    /\ Waiting(c) /\ conn[c].usable
    /\ budget.errors > 0 /\ budget' = [budget EXCEPT !.errors = @ - 1]
    /\ LET cmd == Head(conn[c].queue)
       IN  /\ cmd.op \in {"write", "commit"} /\ conn[c].status # "E"
           /\ Resume(c, Rejected(Popped(c), cmd).b, cmd, "server", "none")
    /\ UNCHANGED db

\* The socket dies, before or after the server executed what was on the wire;
\* the server rolls back what is open.
Lose(c) ==
    /\ conn[c].holder # Nobody /\ conn[c].usable
    /\ budget.faults > 0 /\ budget' = [budget EXCEPT !.faults = @ - 1]
    /\ conn' = [conn EXCEPT ![c] = [Idle(@) EXCEPT !.usable = FALSE]]
    /\ \/ UNCHANGED db
       \/ Waiting(c) /\ db' = db \cup Executed(conn[c], Head(conn[c].queue)).commits
    /\ UNCHANGED <<call, res>>

\* Nothing is put on the wire of a dead connection: execute() rejects.
Dead(c) ==
    /\ Waiting(c) /\ ~conn[c].usable
    /\ Resume(c, Popped(c), Head(conn[c].queue), "conn", "none")
    /\ UNCHANGED <<db, budget>>

-----------------------------------------------------------------------------
(* The application.                                                        *)

Start(k) ==
    /\ call[k].pc = "idle"
    /\ call' = [call EXCEPT ![k] = [@ EXCEPT !.pc = "acquire",
                                              !.n = IF call[k].kind = "session" THEN 0 ELSE 1]]
    /\ UNCHANGED <<conn, db, res, budget>>

Acquire(k) ==
    /\ call[k].pc = "acquire"
    /\ \E c \in Conns :
           LET m == [call[k] EXCEPT !.conn = c]
               b == [conn[c] EXCEPT !.holder = k]
           IN  /\ conn[c].holder = Nobody
               /\ IF m.kind = "session" THEN Continue(k, m, b, "session")
                                        ELSE Await(k, m, b, "begin", "begin")
    /\ UNCHANGED <<db, budget>>

\* The pool does not give one in time.
AcquireFails(k) ==
    /\ call[k].pc = "acquire"
    /\ budget.faults > 0 /\ budget' = [budget EXCEPT !.faults = @ - 1]
    /\ \/ call' = [call EXCEPT ![k].pc = "done"]
       \/ /\ call[k].kind = "transaction" /\ shouldRetry(call[k], "retryable")
          /\ call' = [call EXCEPT ![k].n = @ + 1]
    /\ UNCHANGED <<conn, db, res>>

\* A statement on the innermost handle, or on any handle not closed yet by
\* code that outlived its callback.  A doomed handle refuses it.
Usable(m) ==
    /\ m.pc = "body" \/ (Late /\ m.pc \in {"commit", "rollback"})
    /\ Depth(m) \notin m.doomed
Issue(k) ==
    LET m == call[k]
        n == m.issued + 1
        by == IF m.pc = "session" THEN Outside(k) ELSE Attempt(k)
        cmd == [op |-> "write", by |-> by, w |-> Append(by, n)]
    IN  /\ Usable(m) \/ m.pc = "session"
        /\ n <= MaxWrites
        /\ call' = [call EXCEPT ![k].issued = n]
        /\ conn' = [conn EXCEPT ![m.conn].queue = Append(@, cmd)]
        /\ UNCHANGED <<db, res, budget>>

Body(k) == call[k].pc = "body" /\ UNCHANGED <<db, budget>>
Savepoint(k) ==
    LET m == call[k]
    IN  /\ Body(k) /\ Depth(m) < MaxDepth /\ m.opened < MaxSavepoints
        /\ Await(k, [m EXCEPT !.opened = @ + 1], conn[m.conn], "savepoint", "savepoint")

Return(k) == Body(k) /\ Returned(k, call[k], conn[call[k].conn])

\* An error the caller may have retried, or one that is never retried: an
\* AbortError, a UsageError, tx.rollback().
Throw(k) ==
    /\ Body(k)
    /\ \E cause \in {"retryable", "final"} : Threw(k, call[k], conn[call[k].conn], cause)

\* rollbackWith() on the handle of depth d dooms it and throws; the callback
\* may catch that and go on.
RollbackWith(k) ==
    /\ Body(k)
    /\ \E d \in 0..Depth(call[k]) :
           LET m == [call[k] EXCEPT !.doomed = @ \cup {d}]
           IN  /\ d \notin call[k].doomed
               /\ \/ Continue(k, m, conn[m.conn], "body")
                  \/ Threw(k, m, conn[m.conn], "rollback")

\* In a session: its own transaction, a BEGIN written by hand, the end.
SessionBody(k) == call[k].pc = "session" /\ UNCHANGED <<db, budget>>
SessionTransaction(k) ==
    LET m == [call[k] EXCEPT !.n = @ + 1]
    IN  /\ SessionBody(k) /\ call[k].n < MaxNested
        /\ call' = [call EXCEPT ![k] = [m EXCEPT !.pc = "begin"]]
        /\ conn' = [conn EXCEPT ![m.conn].queue =
                       Append(@, [op |-> "begin", by |-> <<k, m.n>>, w |-> <<>>])]
        /\ UNCHANGED res
RawBegin(k) ==
    LET m == call[k]
    IN  /\ SessionBody(k) /\ m.opened = 0
        /\ call' = [call EXCEPT ![k] = [m EXCEPT !.pc = "sql", !.opened = 1]]
        /\ conn' = [conn EXCEPT ![m.conn].queue =
                       Append(@, [op |-> "begin", by |-> Outside(k), w |-> <<>>])]
        /\ UNCHANGED res
EndSession(k) ==
    LET m == call[k]
    IN  /\ SessionBody(k)
        /\ Late \/ ~Waiting(m.conn)
        /\ \E threw \in BOOLEAN : conn' = [conn EXCEPT ![m.conn] = Back(@, threw)]
        /\ call' = [call EXCEPT ![k] = [@ EXCEPT !.pc = "done", !.n = 0, !.conn = Nobody,
                                                 !.issued = 0, !.opened = 0]]
        /\ UNCHANGED res

-----------------------------------------------------------------------------
Application(k) ==
    \/ Start(k) \/ Issue(k) \/ Savepoint(k) \/ Return(k) \/ Throw(k) \/ RollbackWith(k)
    \/ SessionTransaction(k) \/ RawBegin(k) \/ EndSession(k)

Next ==
    \/ \E c \in Conns : Answer(c) \/ Reject(c) \/ Lose(c) \/ Dead(c)
    \/ \E k \in Callers : Application(k) \/ Acquire(k) \/ AcquireFails(k)

\* Connections answer or fail, callbacks end, the pool hands out what it has.
Fairness ==
    /\ \A c \in Conns : WF_vars(Answer(c)) /\ WF_vars(Dead(c))
    /\ \A k \in Callers : WF_vars(Application(k)) /\ WF_vars(Acquire(k))

Spec == Init /\ [][Next]_vars
FairSpec == Spec /\ Fairness

-----------------------------------------------------------------------------
(* Properties.                                                             *)

\* What the caller is told is what happened (guides/transactions): a
\* transaction that resolved committed exactly what its callback and its
\* successful savepoints wrote, one that was rolled back or rejected left
\* nothing, and only an IndeterminateCommitError leaves it open.  Two cases
\* are outside: a COMMIT that PostgreSQL answers with ROLLBACK because the
\* callback swallowed an error, and session.transaction when the connection
\* was lost, which reports an ordinary error.
OutcomeTold ==
    \A k \in Callers, n \in Attempts :
        LET there == db \cap WritesOf(k, n)
            r == res[k][n]
        IN  /\ r.told = "commit" /\ r.tag = "COMMIT" => there = r.kept
            /\ r.told \in {"rollback", "retryable", "final"} => there = {}
            /\ r.told = "indeterminate" => there \in {{}, r.kept}

\* Whatever is retried, at most one attempt of db.transaction commits.
AtMostOneCommit ==
    \A k \in Callers :
        call[k].kind = "transaction" =>
            \A n1, n2 \in Attempts :
                db \cap WritesOf(k, n1) # {} /\ db \cap WritesOf(k, n2) # {} => n1 = n2

\* Nobody runs in another's transaction: a connection in the pool has no open
\* transaction and no statement on its way, and what a leased one has is of
\* the current attempt of its holder.
OwnConnection ==
    \A c \in Conns :
        LET b == conn[c]
        IN  /\ b.holder = Nobody => b.status = "I" /\ b.queue = <<>>
            /\ b.holder # Nobody =>
                  /\ call[b.holder].conn = c
                  /\ b.status # "I" => b.xact[1] = b.holder
                  /\ \A i \in DOMAIN b.queue :
                        b.queue[i].by \in {Attempt(b.holder), Outside(b.holder)}

\* Every call ends, whatever fails, and none waits for a connection that is
\* never given back.
CallsEnd == <>(\A k \in Callers : call[k].pc = "done")
=============================================================================
