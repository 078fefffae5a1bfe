--------------------------- MODULE MqWorkerProofs ---------------------------
(***************************************************************************)
(* Workers use the tables as MqMessages allows, so what is proved of the   *)
(* tables holds for them, and the tokens their runs carry are what keeps   *)
(* an active message with the run that handles it.                         *)
(***************************************************************************)
EXTENDS MqWorker, MqMessagesProofs

Sent == [msg : Msg, tok : Nat \ {0}, stmt : Stmt \cup {"none"}]

\* Runs and statements are what they should be, and no token but the ones
\* that were handed out is in use.
Shapes ==
    /\ runs \subseteq Run /\ wire \subseteq Sent
    /\ spent \in [{"defers", "faults", "admin", "stalls"} -> Nat]
    /\ beats \in [Worker -> SUBSET [msg : Msg, tok : Nat \ {0}, cancel : BOOLEAN]]

Issued ==
    /\ \A m \in Msg : serial[m] <= MaxClaims
    /\ \A r \in runs : r.tok <= serial[r.msg]
    /\ \A x \in wire : x.tok <= serial[x.msg]

Tables == TypeOK /\ Accounting

-----------------------------------------------------------------------------
(* The tables.                                                              *)

\* A statement with a token is a settle.
LEMMA EffectSettles ==
    ASSUME NEW m \in Msg, NEW tok, NEW st, Effect(m, tok, st)
    PROVE  Settle(m, tok)
<1>1. CASE st \in Finals /\ FinishByToken(m, tok, Outcome[st])
  <2>1. Outcome[st] \in Terminal
    BY <1>1 DEF Finals, Outcome, Terminal
  <2> QED
    BY <1>1, <2>1 DEF Settle
<1>2. CASE ~(st \in Finals /\ FinishByToken(m, tok, Outcome[st]))
  BY <1>2 DEF Effect, Settle
<1> QED
  BY <1>1, <1>2

LEMMA SettleIsNext ==
    ASSUME TypeOK, Issued, NEW m \in Msg, NEW tok \in Nat \ {0}, tok <= serial[m],
           Settle(m, tok)
    PROVE  Next
<1>1. tok \in 1..MaxClaims
  BY LimitsAssumption DEF TypeOK, Issued
<1> QED
  BY <1>1 DEF Next

LEMMA EffectIsNext ==
    ASSUME TypeOK, Issued, NEW m \in Msg, NEW tok \in Nat \ {0}, tok <= serial[m],
           NEW st, Effect(m, tok, st)
    PROVE  Next
BY EffectSettles, SettleIsNext

LEMMA RunOneTables ==
    ASSUME Tables, Shapes, Issued, NEW r \in runs, RunOne(r)
    PROVE  [Next]_vars
<1>1. /\ r.msg \in Msg /\ r.tok \in Nat \ {0} /\ r.tok <= serial[r.msg]
      /\ r.tok \in 1..MaxClaims
  BY LimitsAssumption DEF Shapes, Run, Issued, Tables, TypeOK
<1>2. CASE Answer(r)
  BY <1>1, <1>2, EffectIsNext DEF Answer, Tables
<1>3. CASE Commit(r)
  <2>1. Settle(r.msg, r.tok)
    BY <1>3 DEF Commit, Settle, Terminal
  <2> QED
    BY <1>1, <2>1, SettleIsNext DEF Tables
<1>4. CASE Spawns(r)
  <2>1. PICK c \in Children(r.msg) : Spawn(c, r.tok, "ready")
    BY <1>4 DEF Spawns
  <2> QED
    BY <1>1, <2>1 DEF Next, Children, Live
<1>5. CASE Hears(r) \/ Reread(r) \/ Recheck(r) \/ AfterTx(r) \/ Returns(r)
           \/ Throws(r) \/ Rollback(r)
  BY <1>5 DEF Hears, Reread, Recheck, AfterTx, Returns, Throws, Rollback
<1>6. CASE Defers(r) \/ TxComplete(r) \/ ConnectionFails(r) \/ RereadFails(r)
  BY <1>6 DEF Defers, TxComplete, ConnectionFails, RereadFails
<1> QED
  BY <1>2, <1>3, <1>4, <1>5, <1>6 DEF RunOne, Progress

LEMMA BeatTables ==
    ASSUME Tables, Shapes, Issued, NEW w \in Worker, NEW K, Beat(w, K)
    PROVE  [Next]_vars
<1> DEFINE L == {r \in On(w) : Beating(r)}
           X == {r \in L \ K : Ours(r) /\ ~Locked(r.msg)}
           M == {r.msg : r \in X}
<1>1. X \subseteq runs /\ M \in SUBSET Active
  BY DEF On, Ours, Holds, Active, Shapes, Run
<1>2. {<<r.msg, r.tok>> : r \in X} = {<<m, messages[m].token>> : m \in M}
  <2>1. \A r \in X : messages[r.msg].token = r.tok
    BY DEF Ours, Holds
  <2> QED
    BY <2>1
<1>3. UNCHANGED vars \/ Extend({<<r.msg, r.tok>> : r \in X})
  BY DEF Beat
<1> QED
  BY <1>1, <1>2, <1>3 DEF Next

LEMMA ScanTables ==
    ASSUME Tables, NEW w \in Worker, Scan(w)
    PROVE  [Next]_vars
<1>1. Expired \ Exhausted \in SUBSET Msg
  BY DEF Expired, Active
<1> QED
  BY <1>1 DEF Scan, Next

LEMMA FinishScannedTables ==
    ASSUME NEW w \in Worker, NEW m \in Msg, FinishScanned(w, m)
    PROVE  [Next]_vars
BY DEF FinishScanned, Next

LEMMA ClientsTables ==
    ASSUME NEW m \in Msg,
           Enqueue(m) \/ Administer(m) \/ LapseUnbeaten(m) \/ LapseStalled(m)
    PROVE  [Next]_vars
<1>1. CASE Enqueue(m)
  <2>1. {} \in SUBSET Msg
    OBVIOUS
  <2> QED
    BY <1>1, <2>1 DEF Enqueue, Next
<1>2. CASE Administer(m)
  <2>1. CASE Retry({m})
    <3>1. {m} \in SUBSET Msg
      OBVIOUS
    <3> QED
      BY <2>1, <3>1 DEF Next, Admin
  <2> QED
    BY <1>2, <2>1 DEF Administer, Next, Admin
<1>3. CASE LapseUnbeaten(m) \/ LapseStalled(m)
  BY <1>3 DEF LapseUnbeaten, LapseStalled, Next
<1> QED
  BY <1>1, <1>2, <1>3

\* Whatever a worker does is a statement of MqMessages, or leaves the tables
\* as they are.
LEMMA TablesStep ==
    ASSUME Tables, Shapes, Issued, [WorkerNext]_wvars
    PROVE  [Next]_vars
<1>1. CASE \E r \in runs : RunOne(r)
  BY <1>1, RunOneTables
<1>2. CASE \E x \in wire : LateAnswer(x) \/ NeverArrives(x)
  <2> PICK x \in wire : LateAnswer(x) \/ NeverArrives(x)
    BY <1>2
  <2>1. x.msg \in Msg /\ x.tok \in Nat \ {0} /\ x.tok <= serial[x.msg]
    BY DEF Shapes, Sent, Issued
  <2> QED
    BY <2>1, EffectIsNext DEF LateAnswer, NeverArrives, Tables
<1>3. CASE \E w \in Worker, S \in SUBSET Msg : ClaimRound(w, S)
  BY <1>3 DEF ClaimRound, Next, Claims
<1>4. CASE \E w \in Worker : Start(w) \/ ClaimLost(w) \/ Scan(w)
  BY <1>4, ScanTables DEF Start, ClaimLost
<1>5. CASE \E S \in SUBSET Msg : PromoteDue(S)
  BY <1>5 DEF PromoteDue, Next
<1>6. CASE \E w \in Worker, m \in Msg : FinishScanned(w, m)
  BY <1>6, FinishScannedTables
<1>7. CASE \E w \in Worker, K \in SUBSET runs : Beat(w, K)
  BY <1>7, BeatTables
<1>8. CASE \E w \in Worker : \E b \in beats[w] : Beaten(w, b)
  BY <1>8 DEF Beaten
<1>9. CASE \E w \in Worker : Close(w) \/ Grace(w) \/ Closed(w) \/ Crash(w) \/ Restart(w)
  BY <1>9 DEF Close, Grace, Closed, Crash, Restart
<1>10. CASE \E m \in Msg : Enqueue(m) \/ Administer(m) \/ LapseUnbeaten(m) \/ LapseStalled(m)
  BY <1>10, ClientsTables
<1>11. CASE \E q \in Queue : LimitPasses(q)
  BY <1>11 DEF LimitPasses, Next
<1>12. CASE UNCHANGED wvars
  BY <1>12 DEF wvars
<1> QED
  BY <1>1, <1>2, <1>3, <1>4, <1>5, <1>6, <1>7, <1>8, <1>9, <1>10, <1>11, <1>12 DEF WorkerNext

-----------------------------------------------------------------------------
(* Runs.                                                                    *)

\* What the answers a run heard tell it of its message: an accepted statement
\* took it, a refused one means that it was lost or that cancel() flagged it,
\* and a wait may be refused for a child.
Answered(r) ==
    /\ r.plan # "flagged"
    /\ r.phase \in {"sent", "no"} /\ r.stmt \in Moves => r.plan = r.stmt
    /\ r.phase = "yes" => ~Ours(r)
    /\ r.phase = "sent" /\ r.stmt = "flagged" /\ r.plan # "wait" /\ Ours(r)
       => messages[r.msg].cancel
    /\ r.phase = "no" /\ Ours(r)
       => \/ r.stmt \in Moves /\ (r.plan = "wait" \/ messages[r.msg].cancel)
          \/ r.stmt = "flagged" /\ r.plan = "wait"

RunsKnow == \A r \in runs : Answered(r)

WorkerInv == Shapes /\ Issued /\ LostIsFinal /\ ActiveHasRun /\ RunsKnow

\* s is r after the step: the same claim, told that it is lost only if it is.
Follows(s, r) ==
    /\ s \in Run /\ s.msg = r.msg /\ s.tok = r.tok
    /\ s.lost => r.lost \/ (~Ours(r) /\ UNCHANGED vars)

\* A step of r: it goes on, ends having lost its message, or ends by a fault.
RunStep(r) ==
    \/ \E s : Becomes(r, s) /\ Follows(s, r) /\ Answered(s)'
    \/ Ends(r) /\ (Ours(r) => spent'["faults"] # 0)
    \/ runs' = runs

LEMMA PlansAreStatements ==
    ASSUME NEW r, NEW final, NEW cancelled
    PROVE  /\ FailPlan(r, final, cancelled) \in {"cancel", "fail", "retry"}
           /\ CatchPlan(r) \in {"release", "cancel", "fail", "retry"}
BY DEF FailPlan, CatchPlan

\* A settle that is sent is a run still, and knows nothing of an answer.
LEMMA SendsFollows ==
    ASSUME NEW r \in Run, NEW plan \in (Stmt \cup {"none"}) \ {"flagged"}, NEW safe \in BOOLEAN
    PROVE  /\ Follows(Sends(r, plan, safe), r)
           /\ Answered(Sends(r, plan, safe))'
<1>1. Sends(r, plan, safe) \in Run
  BY DEF Sends, Run
<1>2. /\ Sends(r, plan, safe).msg = r.msg /\ Sends(r, plan, safe).tok = r.tok
      /\ Sends(r, plan, safe).lost = r.lost /\ Sends(r, plan, safe).phase = "sent"
      /\ Sends(r, plan, safe).stmt = plan /\ Sends(r, plan, safe).plan = plan
  BY DEF Sends, Run
<1> QED
  BY <1>1, <1>2 DEF Follows, Answered

LEMMA CaughtRun ==
    ASSUME NEW r \in Run, NEW last \in BOOLEAN
    PROVE  LET c == [r EXCEPT !.caught = TRUE, !.tries = 0, !.final = last]
           IN c \in Run /\ c.msg = r.msg /\ c.tok = r.tok /\ c.lost = r.lost
<1>1. \A x \in Run : [x EXCEPT !.tries = 0] \in Run
  BY DEF Run
<1>2. [r EXCEPT !.caught = TRUE, !.final = last] \in Run
  BY DEF Run
<1>3. [r EXCEPT !.caught = TRUE, !.tries = 0, !.final = last]
         = [[r EXCEPT !.caught = TRUE, !.final = last] EXCEPT !.tries = 0]
  BY DEF Run
<1>4. [r EXCEPT !.caught = TRUE, !.tries = 0, !.final = last] \in Run
  BY <1>1, <1>2, <1>3
<1> QED
  BY <1>4 DEF Run

LEMMA CaughtSteps ==
    ASSUME LostIsFinal, NEW r \in runs, r \in Run, Answered(r), Caught(r), UNCHANGED vars
    PROVE  RunStep(r)
<1>1. CASE r.inTx
  <2> DEFINE s == [r EXCEPT !.phase = "after", !.safe = FALSE, !.caught = TRUE]
  <2>1. Becomes(r, s)
    BY <1>1 DEF Caught
  <2>2. s \in Run /\ s.msg = r.msg /\ s.tok = r.tok /\ s.lost = r.lost
        /\ s.phase = "after" /\ s.plan = r.plan
    BY DEF Run
  <2> HIDE DEF s
  <2> QED
    BY <2>1, <2>2 DEF RunStep, Follows, Answered
<1>2. CASE ~r.inTx /\ r.lost
  <2>1. Ends(r) /\ ~Ours(r)
    BY <1>2 DEF Caught, LostIsFinal
  <2> QED
    BY <2>1 DEF RunStep
<1>3. CASE ~r.inTx /\ ~r.lost
  <2>1. PICK final \in BOOLEAN :
          LET c == [r EXCEPT !.caught = TRUE, !.tries = 0,
                             !.final = final \/ r.attempts + 1 >= MaxAttempts]
          IN Becomes(r, Sends(c, CatchPlan(c), TRUE))
    BY <1>3 DEF Caught
  <2> DEFINE last == final \/ r.attempts + 1 >= MaxAttempts
             c == [r EXCEPT !.caught = TRUE, !.tries = 0, !.final = last]
  <2>0. last \in BOOLEAN
    OBVIOUS
  <2> HIDE DEF last
  <2>2. c \in Run /\ c.msg = r.msg /\ c.tok = r.tok /\ c.lost = r.lost
    BY <2>0, CaughtRun
  <2>3. Becomes(r, Sends(c, CatchPlan(c), TRUE))
    BY <2>1 DEF last
  <2> HIDE DEF c
  <2>4. CatchPlan(c) \in (Stmt \cup {"none"}) \ {"flagged"}
    BY PlansAreStatements DEF Stmt, Moves, Finals
  <2>5. /\ Follows(Sends(c, CatchPlan(c), TRUE), c)
        /\ Answered(Sends(c, CatchPlan(c), TRUE))'
    BY <2>2, <2>4, SendsFollows
  <2>6. Follows(Sends(c, CatchPlan(c), TRUE), r)
    BY <2>2, <2>5 DEF Follows, Ours
  <2> QED
    BY <2>3, <2>5, <2>6 DEF RunStep
<1> QED
  BY <1>1, <1>2, <1>3

\* The statement of the run, its plan again or another, is sent.
LEMMA SendsSteps ==
    ASSUME NEW r \in Run, NEW plan \in (Stmt \cup {"none"}) \ {"flagged"}, NEW safe \in BOOLEAN,
           Becomes(r, Sends(r, plan, safe))
    PROVE  RunStep(r)
BY SendsFollows DEF RunStep

LEMMA AgainSteps ==
    ASSUME NEW r \in Run, Answered(r), Again(r)
    PROVE  RunStep(r)
<1>1. PlanOf(r) \in (Stmt \cup {"none"}) \ {"flagged"}
  BY PlansAreStatements DEF Run, PlanOf, Answered, Stmt, Moves, Finals
<1> QED
  BY <1>1, SendsSteps DEF Again

\* A refused statement found no row of the token, or one it may not touch.
LEMMA AnswerSteps ==
    ASSUME Tables, NEW r \in runs, r \in Run, Answered(r), Answer(r)
    PROVE  RunStep(r)
<1>1. CASE Effect(r.msg, r.tok, r.stmt) /\ Becomes(r, [r EXCEPT !.phase = "yes"])
  <2> DEFINE s == [r EXCEPT !.phase = "yes"]
  <2>1. r.msg \in Msg
    BY DEF Run
  <2>2. ~Holds(r.msg, r.tok)'
    BY <1>1, <2>1, EffectSettles, SettleLeaves DEF Tables, Leaves, Idle, Holds, Is
  <2>3. /\ s \in Run /\ s.msg = r.msg /\ s.tok = r.tok /\ s.lost = r.lost
        /\ s.phase = "yes" /\ s.plan = r.plan
    BY DEF Run
  <2>4. Becomes(r, s)
    BY <1>1
  <2> HIDE DEF s
  <2>5. Follows(s, r)
    BY <2>3 DEF Follows
  <2>6. Answered(s)'
    BY <2>2, <2>3 DEF Answered, Ours
  <2> QED
    BY <2>4, <2>5, <2>6 DEF RunStep
<1>2. CASE /\ ~Matches(r.msg, r.tok, r.stmt)
           /\ Becomes(r, [r EXCEPT !.phase = "no"])
           /\ UNCHANGED vars
  <2> DEFINE s == [r EXCEPT !.phase = "no"]
  <2>1. r.phase = "sent"
    BY DEF Answer
  <2>2. Ours(r) => \/ r.stmt \in Moves /\ (r.plan = "wait" \/ messages[r.msg].cancel)
                   \/ r.stmt = "flagged" /\ r.plan = "wait"
    BY <1>2, <2>1 DEF Matches, Answered, Ours, Moves
  <2>3. /\ s \in Run /\ s.msg = r.msg /\ s.tok = r.tok /\ s.lost = r.lost
        /\ s.phase = "no" /\ s.plan = r.plan /\ s.stmt = r.stmt
    BY DEF Run
  <2>4. Becomes(r, s)
    BY <1>2
  <2> HIDE DEF s
  <2>5. Follows(s, r)
    BY <2>3 DEF Follows
  <2>6. Ours(s)' <=> Ours(r)
    BY <1>2, <2>3 DEF Ours, Holds, Is, vars
  <2>7. messages'[s.msg].cancel <=> messages[r.msg].cancel
    BY <1>2, <2>3 DEF vars
  <2>8. Answered(s)'
    BY <2>1, <2>2, <2>3, <2>6, <2>7 DEF Answered
  <2> QED
    BY <2>4, <2>5, <2>8 DEF RunStep
<1> QED
  BY <1>1, <1>2 DEF Answer

\* A refusal that cancel() explains is settled as such; after any other the
\* run has nothing left to settle.
LEMMA HearsSteps ==
    ASSUME NEW r \in runs, r \in Run, Answered(r), Hears(r)
    PROVE  RunStep(r)
<1>0. UNCHANGED vars
  BY DEF Hears
<1>1. CASE r.phase = "no" /\ r.stmt \in Moves
  <2> DEFINE s == [r EXCEPT !.phase = "sent", !.stmt = "flagged"]
  <2>1. Becomes(r, s)
    BY <1>1 DEF Hears
  <2>2. /\ s \in Run /\ s.msg = r.msg /\ s.tok = r.tok /\ s.lost = r.lost
        /\ s.phase = "sent" /\ s.plan = r.plan /\ s.stmt = "flagged"
    BY DEF Run, Stmt
  <2> HIDE DEF s
  <2>3. /\ Ours(s)' <=> Ours(r)
        /\ messages'[s.msg].cancel <=> messages[r.msg].cancel
    BY <1>0, <2>2 DEF Ours, Holds, Is, vars
  <2>4. Answered(s)'
    BY <1>1, <2>2, <2>3 DEF Answered, Moves
  <2> QED
    BY <2>1, <2>2, <2>4 DEF RunStep, Follows
<1>2. CASE r.phase = "no" /\ r.stmt = "flagged" /\ r.plan = "wait"
  <2> DEFINE s == [r EXCEPT !.phase = "recheck", !.safe = FALSE]
  <2>1. Becomes(r, s)
    BY <1>2 DEF Hears, Moves
  <2>2. /\ s \in Run /\ s.msg = r.msg /\ s.tok = r.tok /\ s.lost = r.lost
        /\ s.phase = "recheck" /\ s.plan = r.plan
    BY DEF Run
  <2> HIDE DEF s
  <2> QED
    BY <2>1, <2>2 DEF RunStep, Follows, Answered
<1>3. CASE ~(r.phase = "no" /\ (r.stmt \in Moves \/ (r.stmt = "flagged" /\ r.plan = "wait")))
  <2>1. Ends(r)
    BY <1>3 DEF Hears
  <2>2. ~Ours(r)
    BY <1>3 DEF Hears, Answered
  <2> QED
    BY <2>1, <2>2 DEF RunStep
<1> QED
  BY <1>1, <1>2, <1>3

\* After a read of the row a run that lost it ends.
LEMMA ReadSteps ==
    ASSUME NEW r \in runs, r \in Run, Answered(r),
           Reread(r) \/ RereadFails(r) \/ Recheck(r) \/ AfterTx(r)
    PROVE  RunStep(r)
<1>1. CASE Ends(r) /\ ~Ours(r)
  BY <1>1 DEF RunStep
<1>2. CASE Again(r)
  BY <1>2, AgainSteps
<1>3. CASE Recheck(r) /\ Ours(r)
  <2>1. {"fail", "release"} \subseteq (Stmt \cup {"none"}) \ {"flagged"}
    BY DEF Stmt, Moves, Finals
  <2> QED
    BY <1>3, <2>1, SendsSteps DEF Recheck
<1>4. CASE AfterTx(r) /\ Ours(r)
  <2>1. PICK final \in BOOLEAN : Becomes(r, Sends(r, FailPlan(r, final, FALSE), FALSE))
    BY <1>4 DEF AfterTx
  <2>2. FailPlan(r, final, FALSE) \in (Stmt \cup {"none"}) \ {"flagged"}
    BY PlansAreStatements DEF Stmt, Moves, Finals
  <2> QED
    BY <2>1, <2>2, SendsSteps
<1> QED
  BY <1>1, <1>2, <1>3, <1>4 DEF Reread, RereadFails, Recheck, AfterTx

\* The handler's own steps.
LEMMA HandlerSteps ==
    ASSUME LostIsFinal, NEW r \in runs, r \in Run, Answered(r),
           \/ Returns(r) \/ Throws(r) \/ Defers(r) \/ Spawns(r) \/ TxComplete(r)
           \/ Commit(r) \/ Rollback(r)
    PROVE  RunStep(r)
<1>1. ASSUME NEW s \in Run, s.msg = r.msg, s.tok = r.tok, s.lost = r.lost,
             s.plan = r.plan, s.phase \in {"running", "tx", "after"}, Becomes(r, s)
      PROVE  RunStep(r)
  BY <1>1 DEF RunStep, Follows, Answered
<1>2. CASE Returns(r)
  <2>1. CASE r.inTx
    <3>1. Becomes(r, [r EXCEPT !.phase = "after", !.safe = FALSE])
      BY <1>2, <2>1 DEF Returns
    <3> QED
      BY <1>1, <3>1 DEF Run
  <2>2. CASE ~r.inTx
    <3>1. "complete" \in (Stmt \cup {"none"}) \ {"flagged"}
      BY DEF Stmt, Finals
    <3> QED
      BY <1>2, <2>2, <3>1, SendsSteps DEF Returns
  <2> QED
    BY <2>1, <2>2
<1>3. CASE Throws(r)
  BY <1>3, CaughtSteps DEF Throws
<1>4. CASE Defers(r)
  <2>1. PICK d \in Deferring : Becomes(r, Sends(r, d, TRUE))
    BY <1>4 DEF Defers
  <2>2. d \in (Stmt \cup {"none"}) \ {"flagged"}
    BY WorkerAssumption DEF Stmt, Moves
  <2> QED
    BY <2>1, <2>2, SendsSteps
<1>5. CASE Spawns(r)
  BY <1>5 DEF Spawns, local, RunStep
<1>6. CASE TxComplete(r)
  <2>1. CASE Ours(r)
    <3>1. Becomes(r, [r EXCEPT !.inTx = TRUE, !.phase = "tx", !.tx = TRUE])
      BY <1>6, <2>1 DEF TxComplete
    <3> QED
      BY <1>1, <3>1 DEF Run
  <2>2. CASE ~Ours(r)
    <3>1. Becomes(r, [r EXCEPT !.inTx = TRUE]) /\ r.phase = "running"
      BY <1>6, <2>2 DEF TxComplete
    <3> QED
      BY <1>1, <3>1 DEF Run
  <2> QED
    BY <2>1, <2>2
<1>7. CASE Commit(r) \/ Rollback(r)
  <2>1. PICK s : s = [r EXCEPT !.phase = "running", !.tx = FALSE]
    OBVIOUS
  <2>2. Becomes(r, s)
    BY <1>7, <2>1 DEF Commit, Rollback
  <2>3. /\ s \in Run /\ s.msg = r.msg /\ s.tok = r.tok /\ s.lost = r.lost
        /\ s.plan = r.plan /\ s.phase \in {"running", "tx", "after"}
    BY <2>1 DEF Run
  <2> QED
    BY <1>1, <2>2, <2>3
<1> QED
  BY <1>2, <1>3, <1>4, <1>5, <1>6, <1>7

\* Only a fault makes a run give up a message that is still its own.
LEMMA FaultSteps ==
    ASSUME Shapes, LostIsFinal, NEW r \in runs, r \in Run, Answered(r), ConnectionFails(r)
    PROVE  RunStep(r)
<1>1. UNCHANGED vars /\ Raised(r)
  BY DEF ConnectionFails
<1>2. spent'["faults"] # 0
  BY DEF ConnectionFails, Spend, Shapes
<1>3. CASE r.safe /\ r.tries < 2
  <2> DEFINE s == [r EXCEPT !.phase = "asleep", !.tries = r.tries + 1]
  <2>1. Becomes(r, s)
    BY <1>1, <1>3 DEF Raised
  <2>2. /\ s \in Run /\ s.msg = r.msg /\ s.tok = r.tok /\ s.lost = r.lost
        /\ s.phase = "asleep" /\ s.plan = r.plan
    <3>1. r.tries + 1 \in 0..2
      BY <1>3 DEF Run
    <3> QED
      BY <3>1 DEF Run
  <2> HIDE DEF s
  <2> QED
    BY <2>1, <2>2 DEF RunStep, Follows, Answered
<1>4. CASE ~(r.safe /\ r.tries < 2) /\ r.caught
  <2>1. Ends(r)
    BY <1>1, <1>4 DEF Raised
  <2> QED
    BY <1>2, <2>1 DEF RunStep
<1>5. CASE ~(r.safe /\ r.tries < 2) /\ ~r.caught
  <2>1. Caught(r)
    BY <1>1, <1>5 DEF Raised
  <2> QED
    BY <1>1, <2>1, CaughtSteps
<1> QED
  BY <1>3, <1>4, <1>5

LEMMA RunOneSteps ==
    ASSUME Tables, WorkerInv, NEW r \in runs, RunOne(r)
    PROVE  RunStep(r)
<1>1. r \in Run /\ Answered(r) /\ LostIsFinal /\ Shapes
  BY DEF WorkerInv, Shapes, RunsKnow
<1>2. CASE Answer(r)
  BY <1>1, <1>2, AnswerSteps
<1>3. CASE Hears(r)
  BY <1>1, <1>3, HearsSteps
<1>4. CASE Reread(r) \/ RereadFails(r) \/ Recheck(r) \/ AfterTx(r)
  BY <1>1, <1>4, ReadSteps
<1>5. CASE \/ Returns(r) \/ Throws(r) \/ Defers(r) \/ Spawns(r) \/ TxComplete(r)
           \/ Commit(r) \/ Rollback(r)
  BY <1>1, <1>5, HandlerSteps
<1>6. CASE ConnectionFails(r)
  BY <1>1, <1>6, FaultSteps
<1> QED
  BY <1>2, <1>3, <1>4, <1>5, <1>6 DEF RunOne, Progress

-----------------------------------------------------------------------------
(* All runs together.                                                       *)

\* A message a run holds after a step it held before: no claim gives an older
\* token, and the flag of cancel() stays.
LEMMA StillOurs ==
    ASSUME Tables, Accounting', Owners, NEW r \in Run, r.tok <= serial[r.msg], Ours(r)'
    PROVE  Ours(r) /\ (messages[r.msg].cancel => messages'[r.msg].cancel)
<1> DEFINE m == r.msg
<1>1. m \in Msg /\ m \in Active' /\ messages'[m].token = r.tok /\ r.tok \in Nat \ {0}
  BY DEF Ours, Holds, Is, Active, Run
<1>2. r.tok = serial'[m]
  BY <1>1 DEF Accounting, TokenFencing, NoToken
<1>3. serial[m] \in Nat
  BY <1>1 DEF Tables, TypeOK
<1>4. serial'[m] = serial[m] /\ m \in Active
  BY <1>1, <1>2, <1>3 DEF Owners
<1>5. messages[m].token = serial[m]
  BY <1>1, <1>4 DEF Tables, Accounting, TokenFencing
<1> QED
  BY <1>1, <1>2, <1>4, <1>5 DEF Owners, Ours, Holds, Active

\* So what a run knows stays true while it waits.
LEMMA AnsweredStays ==
    ASSUME Tables, Accounting', Owners, NEW r \in Run, r.tok <= serial[r.msg], Answered(r)
    PROVE  Answered(r)'
<1>1. Ours(r)' => Ours(r) /\ (messages[r.msg].cancel => messages'[r.msg].cancel)
  BY StillOurs
<1> QED
  BY <1>1 DEF Answered

\* A step of the tables that is no claim: every run after it is one from
\* before, and without a fault no run gives up its message.
Successors ==
    /\ \A s \in runs' : Answered(s)' /\ \E r \in runs : Follows(s, r)
    /\ \A r \in runs : Ours(r) /\ spent'["faults"] = 0
                       => \E s \in runs' : s.msg = r.msg /\ s.tok = r.tok

LEMMA UntouchedRuns ==
    ASSUME Tables, WorkerInv, Accounting', Owners
    PROVE  \A r \in runs : Answered(r)' /\ Follows(r, r)
<1> SUFFICES ASSUME NEW r \in runs PROVE Answered(r)' /\ Follows(r, r)
  OBVIOUS
<1>1. r \in Run /\ r.tok <= serial[r.msg] /\ Answered(r)
  BY DEF WorkerInv, Shapes, Issued, RunsKnow
<1> QED
  BY <1>1, AnsweredStays DEF Follows

LEMMA StepSuccessors ==
    ASSUME Tables, WorkerInv, Accounting', Owners, NEW r \in runs, RunStep(r)
    PROVE  Successors
<1>0. \A x \in runs : Answered(x)' /\ Follows(x, x)
  BY UntouchedRuns
<1>1. CASE \E s : Becomes(r, s) /\ Follows(s, r) /\ Answered(s)'
  <2> PICK s : Becomes(r, s) /\ Follows(s, r) /\ Answered(s)'
    BY <1>1
  <2>1. runs' = (runs \ {r}) \cup {s} /\ s.msg = r.msg /\ s.tok = r.tok
    BY DEF Becomes, Follows
  <2>2. \A x \in runs' : Answered(x)' /\ \E y \in runs : Follows(x, y)
    BY <1>0, <2>1
  <2>3. \A x \in runs : \E y \in runs' : y.msg = x.msg /\ y.tok = x.tok
    BY <2>1
  <2> QED
    BY <2>2, <2>3 DEF Successors
<1>2. CASE Ends(r) /\ (Ours(r) => spent'["faults"] # 0)
  <2>1. runs' = runs \ {r}
    BY <1>2 DEF Ends
  <2> QED
    BY <1>0, <1>2, <2>1 DEF Successors
<1>3. CASE runs' = runs
  BY <1>0, <1>3 DEF Successors
<1> QED
  BY <1>1, <1>2, <1>3 DEF RunStep

LEMMA SameRuns ==
    ASSUME Tables, WorkerInv, Accounting', Owners, runs' = runs
    PROVE  Successors
<1>0. \A x \in runs : Answered(x)' /\ Follows(x, x)
  BY UntouchedRuns
<1> QED
  BY <1>0 DEF Successors

\* The loop starts what it claimed.
LEMMA StartSuccessors ==
    ASSUME Tables, WorkerInv, Accounting', Owners, NEW w \in Worker, Start(w)
    PROVE  Successors
<1> DEFINE G == {r \in On(w) : r.phase = "granted"}
           run(r) == [r EXCEPT !.phase = "running"]
<1>0. \A x \in runs : Answered(x)' /\ Follows(x, x) /\ x \in Run
  BY UntouchedRuns DEF WorkerInv, Shapes
<1>1. runs' = (runs \ G) \cup {run(r) : r \in G} /\ G \subseteq runs
  BY DEF Start, On
<1>2. \A r \in G : /\ run(r) \in Run /\ run(r).msg = r.msg /\ run(r).tok = r.tok
                   /\ run(r).lost = r.lost /\ run(r).phase = "running"
                   /\ run(r).plan = r.plan
  BY <1>0, <1>1 DEF Run
<1> HIDE DEF G, run
<1>3. \A r \in G : Answered(run(r))' /\ Follows(run(r), r)
  BY <1>0, <1>1, <1>2 DEF Answered, Follows
<1>4. \A x \in runs' : Answered(x)' /\ \E y \in runs : Follows(x, y)
  BY <1>0, <1>1, <1>3
<1>5. \A x \in runs : \E y \in runs' : y.msg = x.msg /\ y.tok = x.tok
  BY <1>1, <1>2
<1> QED
  BY <1>4, <1>5 DEF Successors

\* graceMs passes: runs hear of the shutdown.
LEMMA GraceSuccessors ==
    ASSUME Tables, WorkerInv, Accounting', Owners, NEW w \in Worker, Grace(w)
    PROVE  Successors
<1> DEFINE told(r) == r.on = w /\ IsEntry(r)
           run(r) == [r EXCEPT !.shutdown = TRUE]
<1>0. \A x \in runs : Answered(x)' /\ Follows(x, x) /\ x \in Run
  BY UntouchedRuns DEF WorkerInv, Shapes
<1>1. runs' = {IF told(r) THEN run(r) ELSE r : r \in runs}
  BY Zenon DEF Grace
<1>2. \A r \in runs : /\ run(r) \in Run /\ run(r).msg = r.msg /\ run(r).tok = r.tok
                      /\ run(r).lost = r.lost /\ run(r).phase = r.phase
                      /\ run(r).plan = r.plan /\ run(r).stmt = r.stmt
  <2> SUFFICES ASSUME NEW r \in Run
               PROVE  /\ run(r) \in Run /\ run(r).msg = r.msg /\ run(r).tok = r.tok
                      /\ run(r).lost = r.lost /\ run(r).phase = r.phase
                      /\ run(r).plan = r.plan /\ run(r).stmt = r.stmt
    BY <1>0
  <2> QED
    BY DEF Run
<1> HIDE DEF told, run
<1>3. \A r \in runs : Answered(run(r))' /\ Follows(run(r), r)
  BY <1>0, <1>2 DEF Answered, Follows, Ours
<1>4. \A x \in runs' : Answered(x)' /\ \E y \in runs : Follows(x, y)
  BY <1>0, <1>1, <1>3
<1>5. \A x \in runs : \E y \in runs' : y.msg = x.msg /\ y.tok = x.tok
  BY <1>1, <1>2
<1> QED
  BY <1>4, <1>5 DEF Successors

Told(s, r, c, l) == s = [r EXCEPT !.cancelled = c, !.lost = l]

LEMMA ToldRun ==
    ASSUME NEW r \in Run, NEW c \in BOOLEAN, NEW l \in BOOLEAN, NEW s, Told(s, r, c, l)
    PROVE  /\ s \in Run /\ s.msg = r.msg /\ s.tok = r.tok /\ s.lost = l
           /\ s.phase = r.phase /\ s.plan = r.plan /\ s.stmt = r.stmt
<1>1. PICK t : t = [r EXCEPT !.cancelled = c]
  OBVIOUS
<1>2. /\ t \in Run /\ t.msg = r.msg /\ t.tok = r.tok
      /\ t.phase = r.phase /\ t.plan = r.plan /\ t.stmt = r.stmt
  BY <1>1 DEF Run
<1>3. s = [t EXCEPT !.lost = l]
  BY <1>1 DEF Told, Run
<1> QED
  BY <1>2, <1>3 DEF Run

\* A heartbeat's answer is processed: only a run that lost its message is told.
LEMMA BeatenSuccessors ==
    ASSUME Tables, WorkerInv, Accounting', Owners, NEW w \in Worker,
           NEW b \in beats[w], Beaten(w, b)
    PROVE  Successors
<1> DEFINE told(r) == r.on = w /\ r.msg = b.msg /\ r.tok = b.tok
           cancelled(r) == r.cancelled \/ b.cancel
           lost(r) == r.lost \/ (~b.cancel /\ ~Ours(r))
           run(r) == [r EXCEPT !.cancelled = cancelled(r), !.lost = lost(r)]
<1>0. \A x \in runs : Answered(x)' /\ Follows(x, x) /\ x \in Run
  BY UntouchedRuns DEF WorkerInv, Shapes
<1>1. runs' = {IF told(r) THEN run(r) ELSE r : r \in runs} /\ UNCHANGED vars
  BY Zenon DEF Beaten
<1>2. \A r \in runs : cancelled(r) \in BOOLEAN /\ lost(r) \in BOOLEAN
  OBVIOUS
<1>3. \A r \in runs : lost(r) => r.lost \/ ~Ours(r)
  OBVIOUS
<1> HIDE DEF cancelled, lost
<1>4. \A r \in runs : /\ run(r) \in Run /\ run(r).msg = r.msg /\ run(r).tok = r.tok
                      /\ run(r).lost = lost(r) /\ run(r).phase = r.phase
                      /\ run(r).plan = r.plan /\ run(r).stmt = r.stmt
  <2> SUFFICES ASSUME NEW r \in runs
               PROVE  /\ run(r) \in Run /\ run(r).msg = r.msg /\ run(r).tok = r.tok
                      /\ run(r).lost = lost(r) /\ run(r).phase = r.phase
                      /\ run(r).plan = r.plan /\ run(r).stmt = r.stmt
    OBVIOUS
  <2>1. r \in Run /\ cancelled(r) \in BOOLEAN /\ lost(r) \in BOOLEAN
    BY <1>0, <1>2
  <2>2. PICK c, l, x : c = cancelled(r) /\ l = lost(r) /\ x = run(r)
    OBVIOUS
  <2>3. c \in BOOLEAN /\ l \in BOOLEAN /\ Told(x, r, c, l)
    BY <2>1, <2>2 DEF Told
  <2> HIDE DEF run
  <2>4. /\ x \in Run /\ x.msg = r.msg /\ x.tok = r.tok /\ x.lost = l
        /\ x.phase = r.phase /\ x.plan = r.plan /\ x.stmt = r.stmt
    BY <2>1, <2>3, ToldRun
  <2> QED
    BY <2>2, <2>4
<1>5. \A r \in runs : run(r).lost => r.lost \/ ~Ours(r)
  BY <1>3, <1>4
<1>6. /\ \A x \in runs' : \E r \in runs : x = r \/ x = run(r)
      /\ \A r \in runs : r \in runs' \/ run(r) \in runs'
  <2> HIDE DEF told, run
  <2> QED
    BY <1>1
<1>7. \A x \in runs' : \E r \in runs :
         /\ x \in Run /\ x.msg = r.msg /\ x.tok = r.tok /\ x.phase = r.phase
         /\ x.plan = r.plan /\ x.stmt = r.stmt /\ (x.lost => r.lost \/ ~Ours(r))
  <2> HIDE DEF told, run
  <2> QED
    BY <1>0, <1>4, <1>5, <1>6
<1>8. \A x \in runs : \E y \in runs' : y.msg = x.msg /\ y.tok = x.tok
  BY <1>4, <1>6
<1>9. ASSUME NEW x \in runs' PROVE Answered(x)' /\ \E r \in runs : Follows(x, r)
  <2>1. PICK r \in runs :
           /\ x \in Run /\ x.msg = r.msg /\ x.tok = r.tok /\ x.phase = r.phase
           /\ x.plan = r.plan /\ x.stmt = r.stmt /\ (x.lost => r.lost \/ ~Ours(r))
    BY <1>7
  <2>2. Follows(x, r)
    BY <1>1, <2>1 DEF Follows
  <2>3. Answered(x)'
    BY <1>0, <2>1 DEF Answered, Ours
  <2> QED
    BY <2>2, <2>3
<1> QED
  BY <1>8, <1>9 DEF Successors

\* Rows whose answer was lost, and a process that dies: both are faults.
LEMMA DroppedSuccessors ==
    ASSUME Tables, WorkerInv, Accounting', Owners, NEW w \in Worker,
           ClaimLost(w) \/ Crash(w)
    PROVE  Successors
<1>0. \A x \in runs : Answered(x)' /\ Follows(x, x)
  BY UntouchedRuns
<1>1. runs' \subseteq runs
  BY DEF ClaimLost, Crash
<1>2. spent'["faults"] # 0
  BY DEF ClaimLost, Crash, Spend, WorkerInv, Shapes
<1> QED
  BY <1>0, <1>1, <1>2 DEF Successors

-----------------------------------------------------------------------------
(* Everything else a worker keeps.                                          *)

\* Statements on their way carry the token of a run; what was spent stays so.
Bookkeeping ==
    /\ wire' \subseteq Sent
    /\ \A x \in wire' : x \in wire \/ \E r \in runs : x.msg = r.msg /\ x.tok = r.tok
    /\ spent' \in [{"defers", "faults", "admin", "stalls"} -> Nat]
    /\ spent'["faults"] = 0 => spent["faults"] = 0
    /\ beats' \in [Worker -> SUBSET [msg : Msg, tok : Nat \ {0}, cancel : BOOLEAN]]

LEMMA SpendTypes ==
    ASSUME Shapes, NEW b \in {"defers", "faults", "admin", "stalls"}, NEW max, Spend(b, max)
    PROVE  /\ spent' \in [{"defers", "faults", "admin", "stalls"} -> Nat]
           /\ spent'["faults"] = 0 => spent["faults"] = 0
<1>1. spent' = [spent EXCEPT ![b] = spent[b] + 1] /\ spent[b] + 1 \in Nat
  BY DEF Spend, Shapes
<1> QED
  BY <1>1 DEF Shapes

LEMMA SentTypes ==
    ASSUME Shapes, NEW r \in runs
    PROVE  [msg |-> r.msg, tok |-> r.tok, stmt |-> r.stmt] \in Sent
<1>1. r \in Run
  BY DEF Shapes
<1> QED
  BY <1>1 DEF Run, Sent

LEMMA RunOneBooks ==
    ASSUME Shapes, NEW r \in runs, RunOne(r)
    PROVE  Bookkeeping
<1>1. CASE ConnectionFails(r)
  <2>1. wire' \subseteq wire \cup {[msg |-> r.msg, tok |-> r.tok, stmt |-> r.stmt]}
    BY <1>1 DEF ConnectionFails
  <2>2. /\ spent' \in [{"defers", "faults", "admin", "stalls"} -> Nat]
        /\ spent'["faults"] = 0 => spent["faults"] = 0
    BY <1>1, SpendTypes DEF ConnectionFails
  <2>3. beats' = beats
    BY <1>1 DEF ConnectionFails
  <2>4. [msg |-> r.msg, tok |-> r.tok, stmt |-> r.stmt] \in Sent
    BY SentTypes
  <2>5. wire' \subseteq Sent
    BY <2>1, <2>4 DEF Shapes
  <2>6. \A x \in wire' : x \in wire \/ (x.msg = r.msg /\ x.tok = r.tok)
    BY <2>1
  <2> QED
    BY <2>2, <2>3, <2>5, <2>6 DEF Bookkeeping, Shapes
<1>2. CASE wire' = wire /\ beats' = beats /\ (Spend("faults", MaxFaults) \/ Spend("defers", MaxDefers))
  <2>1. /\ spent' \in [{"defers", "faults", "admin", "stalls"} -> Nat]
        /\ spent'["faults"] = 0 => spent["faults"] = 0
    BY <1>2, SpendTypes
  <2> QED
    BY <1>2, <2>1 DEF Bookkeeping, Shapes
<1>3. CASE wire' = wire /\ beats' = beats /\ spent' = spent
  BY <1>3 DEF Bookkeeping, Shapes
<1>4. CASE Progress(r) \/ Spawns(r) \/ TxComplete(r)
  BY <1>3, <1>4 DEF Progress, Answer, Hears, Reread, Recheck, AfterTx, Returns, Throws,
                    Commit, Rollback, Spawns, local, TxComplete
<1> QED
  BY <1>1, <1>2, <1>4 DEF RunOne, Defers, RereadFails

LEMMA BeatBooks ==
    ASSUME Shapes, NEW w \in Worker, NEW K, Beat(w, K)
    PROVE  Bookkeeping
<1> DEFINE L == {r \in On(w) : Beating(r)}
           X == {r \in L \ K : Ours(r) /\ ~Locked(r.msg)}
           B == {[msg |-> r.msg, tok |-> r.tok, cancel |-> TRUE] :
                    r \in {x \in X : messages[x.msg].cancel /\ ~x.cancelled}}
                \cup {[msg |-> r.msg, tok |-> r.tok, cancel |-> FALSE] : r \in L \ X}
<1>1. /\ beats' = [beats EXCEPT ![w] = B]
      /\ wire' = wire /\ spent' = spent
  BY DEF Beat
<1>2. L \subseteq runs /\ X \subseteq runs
  BY DEF On
<1> HIDE DEF L, X
<1>3. \A r \in runs, c \in BOOLEAN :
         [msg |-> r.msg, tok |-> r.tok, cancel |-> c]
            \in [msg : Msg, tok : Nat \ {0}, cancel : BOOLEAN]
  BY DEF Shapes, Run
<1>4. B \subseteq [msg : Msg, tok : Nat \ {0}, cancel : BOOLEAN]
  BY <1>2, <1>3
<1> HIDE DEF B
<1> QED
  BY <1>1, <1>4 DEF Bookkeeping, Shapes

LEMMA CrashBooks ==
    ASSUME Shapes, NEW w \in Worker, Crash(w)
    PROVE  Bookkeeping
<1> DEFINE X == {x \in On(w) : x.phase = "sent"}
<1>1. /\ wire' = wire \cup {[msg |-> r.msg, tok |-> r.tok, stmt |-> r.stmt] : r \in X}
      /\ beats' = [beats EXCEPT ![w] = {}]
  BY DEF Crash
<1>2. X \subseteq runs
  BY DEF On
<1>3. /\ spent' \in [{"defers", "faults", "admin", "stalls"} -> Nat]
      /\ spent'["faults"] = 0 => spent["faults"] = 0
  BY SpendTypes DEF Crash
<1> HIDE DEF X
<1>4. \A r \in X : [msg |-> r.msg, tok |-> r.tok, stmt |-> r.stmt] \in Sent
  BY <1>2, SentTypes
<1>5. wire' \subseteq Sent
  BY <1>1, <1>4 DEF Shapes
<1>6. \A x \in wire' : x \in wire \/ \E r \in runs : x.msg = r.msg /\ x.tok = r.tok
  BY <1>1, <1>2
<1>7. beats' \in [Worker -> SUBSET [msg : Msg, tok : Nat \ {0}, cancel : BOOLEAN]]
  BY <1>1 DEF Shapes
<1> QED
  BY <1>3, <1>5, <1>6, <1>7 DEF Bookkeeping

LEMMA StepBooks ==
    ASSUME Shapes, [WorkerNext]_wvars
    PROVE  Bookkeeping
<1>0. ASSUME wire' \subseteq wire, beats' = beats, spent' = spent PROVE Bookkeeping
  BY <1>0 DEF Bookkeeping, Shapes
<1>1. ASSUME wire' = wire, beats' = beats, NEW b \in {"defers", "faults", "admin", "stalls"},
             NEW max, Spend(b, max)
      PROVE  Bookkeeping
  BY <1>1, SpendTypes DEF Bookkeeping, Shapes
<1>2. CASE \E r \in runs : RunOne(r)
  BY <1>2, RunOneBooks
<1>3. CASE \E x \in wire : LateAnswer(x) \/ NeverArrives(x)
  BY <1>0, <1>3 DEF LateAnswer, NeverArrives
<1>4. CASE \E w \in Worker, S \in SUBSET Msg : ClaimRound(w, S)
  BY <1>0, <1>4 DEF ClaimRound
<1>5. CASE \E w \in Worker : Start(w) \/ Scan(w)
  BY <1>0, <1>5 DEF Start, Scan
<1>6. CASE \E w \in Worker : ClaimLost(w)
  BY <1>1, <1>6 DEF ClaimLost
<1>7. CASE \E S \in SUBSET Msg : PromoteDue(S)
  BY <1>0, <1>7 DEF PromoteDue, local
<1>8. CASE \E w \in Worker, m \in Msg : FinishScanned(w, m)
  BY <1>0, <1>8 DEF FinishScanned
<1>9. CASE \E w \in Worker, K \in SUBSET runs : Beat(w, K)
  BY <1>9, BeatBooks
<1>10. CASE \E w \in Worker : \E b \in beats[w] : Beaten(w, b)
  BY <1>10 DEF Beaten, Bookkeeping, Shapes
<1>11. CASE \E w \in Worker : Close(w)
  BY <1>1, <1>11 DEF Close
<1>12. CASE \E w \in Worker : Grace(w) \/ Closed(w) \/ Restart(w)
  BY <1>0, <1>12 DEF Grace, Closed, Restart
<1>13. CASE \E w \in Worker : Crash(w)
  BY <1>13, CrashBooks
<1>14. CASE \E m \in Msg : Enqueue(m) \/ LapseUnbeaten(m)
  BY <1>0, <1>14 DEF Enqueue, LapseUnbeaten, local
<1>15. CASE \E m \in Msg : Administer(m) \/ LapseStalled(m)
  BY <1>1, <1>15 DEF Administer, LapseStalled
<1>16. CASE \E q \in Queue : LimitPasses(q)
  BY <1>0, <1>16 DEF LimitPasses, local
<1>17. CASE UNCHANGED wvars
  BY <1>0, <1>17 DEF wvars, local
<1> QED
  BY <1>2, <1>3, <1>4, <1>5, <1>6, <1>7, <1>8, <1>9, <1>10, <1>11, <1>12, <1>13, <1>14,
     <1>15, <1>16, <1>17 DEF WorkerNext

-----------------------------------------------------------------------------
(* The step.                                                                *)

\* Only a claim hands out tokens.
LEMMA SettlesKeepSerial ==
    ASSUME Tables, NEW m \in Msg, NEW tok, NEW st, Effect(m, tok, st)
    PROVE  serial' = serial
BY EffectSettles, SettleLeaves DEF Tables, Leaves

LEMMA SerialStays ==
    ASSUME Tables, Shapes, [WorkerNext]_wvars,
           ~\E w \in Worker, S \in SUBSET Msg : ClaimRound(w, S)
    PROVE  serial' = serial
<1>1. CASE \E r \in runs : RunOne(r)
  <2> PICK r \in runs : RunOne(r)
    BY <1>1
  <2>1. r.msg \in Msg
    BY DEF Shapes, Run
  <2>2. CASE Answer(r)
    BY <2>1, <2>2, SettlesKeepSerial DEF Answer, vars
  <2>3. CASE Commit(r)
    BY <2>3 DEF Commit, FinishByToken, Finish
  <2>4. CASE Spawns(r)
    BY <2>4 DEF Spawns, Spawn
  <2> QED
    BY <2>2, <2>3, <2>4 DEF RunOne, Progress, Hears, Reread, Recheck, AfterTx, Returns,
          Throws, Rollback, Defers, TxComplete, ConnectionFails, RereadFails, vars
<1>2. CASE \E x \in wire : LateAnswer(x) \/ NeverArrives(x)
  <2> PICK x \in wire : LateAnswer(x) \/ NeverArrives(x)
    BY <1>2
  <2>1. x.msg \in Msg
    BY DEF Shapes, Sent
  <2> QED
    BY <2>1, SettlesKeepSerial DEF LateAnswer, NeverArrives, vars
<1>3. CASE \E w \in Worker : Start(w) \/ ClaimLost(w) \/ Scan(w)
  BY <1>3 DEF Start, ClaimLost, Scan, Expire, vars
<1>4. CASE \E S \in SUBSET Msg : PromoteDue(S)
  BY <1>4 DEF PromoteDue, Promote
<1>5. CASE \E w \in Worker, m \in Msg : FinishScanned(w, m)
  BY <1>5 DEF FinishScanned, FinishExpired, Finish, vars
<1>6. CASE \E w \in Worker, K \in SUBSET runs : Beat(w, K)
  BY <1>6 DEF Beat, Extend, vars
<1>7. CASE \E w \in Worker : \E b \in beats[w] : Beaten(w, b)
  BY <1>7 DEF Beaten, vars
<1>8. CASE \E w \in Worker : Close(w) \/ Grace(w) \/ Closed(w) \/ Crash(w) \/ Restart(w)
  BY <1>8 DEF Close, Grace, Closed, Crash, Restart, vars
<1>9. CASE \E m \in Msg : Enqueue(m) \/ Administer(m) \/ LapseUnbeaten(m) \/ LapseStalled(m)
  BY <1>9 DEF Enqueue, Send, Administer, FlagCancel, CancelIdle, Finish, Retry,
              LapseUnbeaten, LapseStalled, Lapse
<1>10. CASE \E q \in Queue : LimitPasses(q)
  BY <1>10 DEF LimitPasses, LimitEnds
<1>11. CASE UNCHANGED wvars
  BY <1>11 DEF wvars, vars
<1> QED
  BY <1>1, <1>2, <1>3, <1>4, <1>5, <1>6, <1>7, <1>8, <1>9, <1>10, <1>11 DEF WorkerNext

LEMMA StepRuns ==
    ASSUME Tables, WorkerInv, Accounting', Owners, [WorkerNext]_wvars,
           ~\E w \in Worker, S \in SUBSET Msg : ClaimRound(w, S)
    PROVE  Successors
<1>0. ASSUME runs' = runs PROVE Successors
  BY <1>0, SameRuns
<1>1. CASE \E r \in runs : RunOne(r)
  BY <1>1, RunOneSteps, StepSuccessors
<1>2. CASE \E x \in wire : LateAnswer(x) \/ NeverArrives(x)
  BY <1>0, <1>2 DEF LateAnswer, NeverArrives
<1>3. CASE \E w \in Worker : Start(w) \/ ClaimLost(w) \/ Scan(w)
  BY <1>0, <1>3, StartSuccessors, DroppedSuccessors DEF Scan
<1>4. CASE \E S \in SUBSET Msg : PromoteDue(S)
  BY <1>0, <1>4 DEF PromoteDue, local
<1>5. CASE \E w \in Worker, m \in Msg : FinishScanned(w, m)
  BY <1>0, <1>5 DEF FinishScanned
<1>6. CASE \E w \in Worker, K \in SUBSET runs : Beat(w, K)
  BY <1>0, <1>6 DEF Beat
<1>7. CASE \E w \in Worker : \E b \in beats[w] : Beaten(w, b)
  BY <1>7, BeatenSuccessors
<1>8. CASE \E w \in Worker : Close(w) \/ Grace(w) \/ Closed(w) \/ Crash(w) \/ Restart(w)
  <2>1. CASE \E w \in Worker : Grace(w)
    BY <2>1, GraceSuccessors
  <2>2. CASE \E w \in Worker : Crash(w)
    BY <2>2, DroppedSuccessors
  <2> QED
    BY <1>0, <1>8, <2>1, <2>2 DEF Close, Closed, Restart
<1>9. CASE \E m \in Msg : Enqueue(m) \/ Administer(m) \/ LapseUnbeaten(m) \/ LapseStalled(m)
  BY <1>0, <1>9 DEF Enqueue, Administer, LapseUnbeaten, LapseStalled, local
<1>10. CASE \E q \in Queue : LimitPasses(q)
  BY <1>0, <1>10 DEF LimitPasses, local
<1>11. CASE UNCHANGED wvars
  BY <1>0, <1>11 DEF wvars, local
<1> QED
  BY <1>1, <1>2, <1>3, <1>4, <1>5, <1>6, <1>7, <1>8, <1>9, <1>10, <1>11 DEF WorkerNext

\* A step without a claim.
LEMMA SuccessorsKeep ==
    ASSUME Tables, WorkerInv, TypeOK', Accounting', Owners, Successors, Bookkeeping,
           serial' = serial
    PROVE  WorkerInv'
<1>1. \A s \in runs' : s \in Run
  BY DEF Successors, Follows
<1>2. Shapes'
  BY <1>1 DEF Shapes, Bookkeeping
<1>3. Issued'
  <2>1. \A r \in runs : r.tok <= serial[r.msg]
    BY DEF WorkerInv, Issued
  <2>2. \A s \in runs' : s.tok <= serial[s.msg]
    BY <2>1 DEF Successors, Follows
  <2>3. \A x \in wire' : x.tok <= serial[x.msg]
    BY <2>1 DEF Bookkeeping, WorkerInv, Issued
  <2> QED
    BY <2>2, <2>3 DEF WorkerInv, Issued
<1>4. LostIsFinal'
  <2> SUFFICES ASSUME NEW s \in runs', s.lost PROVE ~Holds(s.msg, s.tok)'
    BY DEF LostIsFinal, Ours
  <2>1. PICK r \in runs : Follows(s, r)
    BY DEF Successors
  <2>2. r \in Run /\ r.tok <= serial[r.msg] /\ s.msg = r.msg /\ s.tok = r.tok
    BY <2>1 DEF WorkerInv, Shapes, Issued, Follows
  <2>3. ~Ours(r)
    BY <2>1 DEF Follows, WorkerInv, LostIsFinal
  <2>4. ~Ours(r)'
    BY <2>2, <2>3, StillOurs
  <2> QED
    BY <2>2, <2>4 DEF Ours
<1>5. ActiveHasRun'
  <2> SUFFICES ASSUME spent'["faults"] = 0, NEW m \in Active'
               PROVE  \E s \in runs' : s.msg = m /\ Holds(s.msg, s.tok)'
    BY DEF ActiveHasRun, Ours
  <2>1. m \in Msg /\ m \in Active /\ serial[m] \in Nat
    BY DEF Active, Owners, Tables, TypeOK
  <2>2. messages[m].token = serial[m] /\ messages'[m].token = serial[m]
    BY <2>1 DEF Tables, Accounting, TokenFencing
  <2>3. spent["faults"] = 0
    BY DEF Bookkeeping
  <2>4. PICK r \in runs : r.msg = m /\ Ours(r)
    BY <2>1, <2>3 DEF WorkerInv, ActiveHasRun
  <2>5. PICK s \in runs' : s.msg = m /\ s.tok = r.tok
    BY <2>4 DEF Successors
  <2>6. s.tok = serial[m]
    BY <2>2, <2>4, <2>5 DEF Ours, Holds
  <2> QED
    BY <2>2, <2>5, <2>6 DEF Holds, Is, Active
<1>6. RunsKnow'
  BY DEF RunsKnow, Successors
<1> QED
  BY <1>2, <1>3, <1>4, <1>5, <1>6 DEF WorkerInv

\* A claim: its runs have the tokens it gave.
LEMMA ClaimKeeps ==
    ASSUME Tables, WorkerInv, TypeOK', Accounting', Owners, Bookkeeping,
           NEW w \in Worker, NEW S \in SUBSET Msg, ClaimRound(w, S)
    PROVE  WorkerInv'
<1> DEFINE new == {Granted(m, w) : m \in S}
<1>1. runs' = runs \cup new /\ wire' = wire /\ spent' = spent
  BY DEF ClaimRound
<1>2. \A m \in S : serial'[m] = serial[m] + 1 /\ m \notin Active
  BY DEF ClaimRound, Claim, ClaimGroups, ClaimCommon, Active, Is
<1>3. \A m \in Msg \ S : serial'[m] = serial[m]
  BY DEF ClaimRound, Claim, ClaimGroups, ClaimCommon
<1>4. \A m \in S : /\ Granted(m, w) \in Run /\ Granted(m, w).msg = m
                   /\ Granted(m, w).tok = serial[m] + 1
                   /\ Granted(m, w).phase = "granted" /\ Granted(m, w).plan = "none"
                   /\ Granted(m, w).lost = FALSE
  <2> SUFFICES ASSUME NEW m \in S
               PROVE  /\ Granted(m, w) \in Run /\ Granted(m, w).msg = m
                      /\ Granted(m, w).tok = serial[m] + 1
                      /\ Granted(m, w).phase = "granted" /\ Granted(m, w).plan = "none"
                      /\ Granted(m, w).lost = FALSE
    OBVIOUS
  <2>1. serial[m] + 1 \in Nat \ {0} /\ messages[m].attempts \in Nat /\ m \in Msg
    BY DEF Tables, TypeOK, Row
  <2> QED
    BY <2>1 DEF Granted, Run
<1>5. \A s \in new : /\ s \in Run /\ s.msg \in S /\ s.tok = serial'[s.msg]
                     /\ s.phase = "granted" /\ s.plan = "none" /\ ~s.lost
  BY <1>2, <1>4
<1>6. \A m \in S : \E s \in new : s.msg = m
  BY <1>4
<1> HIDE DEF new
<1>7. \A r \in runs : Answered(r)' /\ Follows(r, r)
  BY UntouchedRuns
<1>8. Shapes'
  BY <1>1, <1>5 DEF WorkerInv, Shapes, Bookkeeping
<1>9. \A m \in Msg : serial[m] \in Nat /\ serial'[m] \in Nat /\ serial[m] <= serial'[m]
                     /\ serial'[m] <= MaxClaims
  <2>1. \A m \in Msg : /\ serial[m] \in Nat /\ serial[m] <= MaxClaims /\ MaxClaims \in Nat
                       /\ \/ serial'[m] = serial[m]
                          \/ serial'[m] = serial[m] + 1 /\ serial[m] < MaxClaims
    BY LimitsAssumption DEF Tables, TypeOK, WorkerInv, Issued, Owners
  <2> QED
    BY <2>1
<1>10. Issued'
  <2>1. \A r \in runs : r.tok <= serial'[r.msg]
    BY <1>9 DEF WorkerInv, Shapes, Run, Issued
  <2>2. \A s \in new : s.tok <= serial'[s.msg]
    BY <1>5, <1>9
  <2>3. \A x \in wire : x.tok <= serial'[x.msg]
    BY <1>9 DEF WorkerInv, Shapes, Sent, Issued
  <2> QED
    BY <1>1, <1>9, <2>1, <2>2, <2>3 DEF Issued
<1>11. LostIsFinal'
  <2> SUFFICES ASSUME NEW s \in runs', s.lost PROVE ~Ours(s)'
    BY DEF LostIsFinal
  <2>1. s \in runs /\ s \in Run /\ s.tok <= serial[s.msg] /\ ~Ours(s)
    BY <1>1, <1>5 DEF WorkerInv, Shapes, Issued, LostIsFinal
  <2> QED
    BY <2>1, StillOurs
<1>12. ActiveHasRun'
  <2> SUFFICES ASSUME spent'["faults"] = 0, NEW m \in Active'
               PROVE  \E s \in runs' : s.msg = m /\ Holds(s.msg, s.tok)'
    BY DEF ActiveHasRun, Ours
  <2>1. m \in Msg /\ messages'[m].token = serial'[m] /\ messages'[m].state = "active"
    BY DEF Active, Is, Accounting, TokenFencing
  <2>2. CASE m \in S
    <3>1. PICK s \in new : s.msg = m
      BY <1>6, <2>2
    <3>2. s.tok = serial'[m]
      BY <1>5, <3>1
    <3> QED
      BY <1>1, <2>1, <3>1, <3>2 DEF Holds, Is
  <2>3. CASE m \notin S
    <3>1. serial'[m] = serial[m] /\ serial[m] \in Nat
      BY <1>3, <1>9, <2>1, <2>3
    <3>2. m \in Active
      BY <2>1, <3>1 DEF Owners
    <3>3. PICK r \in runs : r.msg = m /\ Ours(r)
      BY <1>1, <3>2 DEF WorkerInv, ActiveHasRun
    <3>4. r.tok = serial'[m]
      BY <2>1, <3>1, <3>2, <3>3 DEF Ours, Holds, Tables, Accounting, TokenFencing
    <3> QED
      BY <1>1, <2>1, <3>3, <3>4 DEF Holds, Is
  <2> QED
    BY <2>2, <2>3
<1>13. RunsKnow'
  <2>1. \A s \in new : Answered(s)'
    BY <1>5 DEF Answered
  <2> QED
    BY <1>1, <1>7, <2>1 DEF RunsKnow
<1> QED
  BY <1>8, <1>10, <1>11, <1>12, <1>13 DEF WorkerInv

LEMMA WorkerStep ==
    ASSUME Tables, WorkerInv, [WorkerNext]_wvars
    PROVE  WorkerInv' /\ Tables' /\ [Next]_vars
<1>1. Shapes /\ Issued
  BY DEF WorkerInv
<1>2. [Next]_vars
  BY <1>1, TablesStep
<1>3. TypeOK' /\ Accounting' /\ Owners
  BY <1>2, TypeStep, AccountingStep DEF Tables
<1>4. Bookkeeping
  BY <1>1, StepBooks
<1>5. CASE \E w \in Worker, S \in SUBSET Msg : ClaimRound(w, S)
  BY <1>2, <1>3, <1>4, <1>5, ClaimKeeps DEF Tables
<1>6. CASE ~\E w \in Worker, S \in SUBSET Msg : ClaimRound(w, S)
  <2>1. Successors
    BY <1>3, <1>6, StepRuns
  <2>2. serial' = serial
    BY <1>1, <1>6, SerialStays
  <2> QED
    BY <1>2, <1>3, <1>4, <2>1, <2>2, SuccessorsKeep DEF Tables
<1> QED
  BY <1>5, <1>6

-----------------------------------------------------------------------------
(* Leases.                                                                  *)

\* The statements of a token take its own message out of active, no other.
LEMMA EffectTakes ==
    ASSUME Tables, NEW m \in Msg, NEW tok, NEW st, Effect(m, tok, st),
           NEW n \in Active, messages'[n].state # "active"
    PROVE  n = m /\ Holds(m, tok)
<1>1. Leaves({m})
  BY EffectSettles, SettleLeaves DEF Tables
<1>2. n = m
  BY <1>1 DEF Leaves, Kept
<1>3. Holds(m, tok)
  BY DEF Effect, FinishByToken, FinishFlagged, MoveRetry, MoveDefer, MoveRelease,
         MoveLimit, MoveWait, Move
<1> QED
  BY <1>2, <1>3

\* What the other statements leave active.
LEMMA OthersKeepActive ==
    ASSUME Tables, NEW n \in Active, ~messages[n].lapsed
    PROVE  /\ \A q, S, limited, k : ClaimCommon(q, S, limited, k) => n \in Active'
           /\ \A r, D : Send(r, D) => n \in Active'
           /\ \A c, tok, to : Spawn(c, tok, to) => n \in Active'
           /\ \A S : Promote(S) => n \in Active'
           /\ \A q, S : Expire(q, S) => n \in Active'
           /\ \A H : Extend(H) => n \in Active'
           /\ \A m \in Msg : FlagCancel(m) \/ Lapse(m) => n \in Active'
           /\ \A S : Retry(S) => n \in Active'
<1>0. n \in Msg /\ messages[n].state = "active" /\ messages \in [Msg -> Row] /\ messages[n] \in Row
  BY DEF Active, Is, Tables, TypeOK
<1>1. ASSUME NEW q, NEW S, NEW limited, NEW k, ClaimCommon(q, S, limited, k)
      PROVE  n \in Active'
  BY <1>0, <1>1 DEF ClaimCommon, Take, Active, Is
<1>2. ASSUME NEW r, NEW D, Send(r, D) PROVE n \in Active'
  BY <1>0, <1>2 DEF Send, Active, Is
<1>3. ASSUME NEW c, NEW tok, NEW to, Spawn(c, tok, to) PROVE n \in Active'
  BY <1>0, <1>3 DEF Spawn, Active, Is, Row
<1>4. ASSUME NEW S, Promote(S) PROVE n \in Active'
  BY <1>0, <1>4 DEF Promote, Active, Is
<1>5. ASSUME NEW q, NEW S, Expire(q, S) PROVE n \in Active'
  BY <1>0, <1>5 DEF Expire, Active, Is
<1>6. ASSUME NEW H, Extend(H) PROVE n \in Active'
  BY <1>0, <1>6 DEF Extend, Active, Is, Row
<1>7. ASSUME NEW m \in Msg, FlagCancel(m) \/ Lapse(m) PROVE n \in Active'
  BY <1>0, <1>7 DEF FlagCancel, Lapse, Active, Is, Row
<1>8. ASSUME NEW S, Retry(S) PROVE n \in Active'
  BY <1>0, <1>8 DEF Retry, Terminal, Active, Is
<1> QED
  BY <1>1, <1>2, <1>3, <1>4, <1>5, <1>6, <1>7, <1>8

\* The token of a lease that runs is the only way out of active.
LEMMA LeaseStep ==
    ASSUME Tables, Shapes, [WorkerNext]_wvars,
           NEW n \in Active, ~messages[n].lapsed, messages'[n].state # "active"
    PROVE  \/ \E r \in runs : r.msg = n /\ Ours(r) /\ r.phase \in {"sent", "tx"}
           \/ \E x \in wire \ wire' : x.msg = n /\ Holds(n, x.tok)
<1>0. n \notin Active' /\ n \in Msg /\ messages' # messages
  BY DEF Active, Is
<1>1. ASSUME NEW m \in Msg, NEW to \in Terminal, Finish(m, to) PROVE n = m
  BY <1>1, FinishLeaves DEF Tables, Leaves, Kept
<1>2. CASE \E r \in runs : RunOne(r)
  <2> PICK r \in runs : RunOne(r)
    BY <1>2
  <2>1. r.msg \in Msg
    BY DEF Shapes, Run
  <2>2. CASE Answer(r)
    <3>1. Effect(r.msg, r.tok, r.stmt) /\ r.phase = "sent"
      BY <1>0, <2>2 DEF Answer, vars
    <3> QED
      BY <2>1, <3>1, EffectTakes DEF Ours
  <2>3. CASE Commit(r)
    <3>1. FinishByToken(r.msg, r.tok, "completed") /\ r.phase = "tx"
      BY <2>3 DEF Commit
    <3> QED
      BY <1>1, <2>1, <3>1 DEF FinishByToken, Ours, Terminal
  <2>4. CASE Spawns(r)
    BY <1>0, <2>4, OthersKeepActive DEF Spawns
  <2> QED
    BY <1>0, <2>2, <2>3, <2>4 DEF RunOne, Progress, Hears, Reread, Recheck, AfterTx, Returns,
          Throws, Rollback, Defers, TxComplete, ConnectionFails, RereadFails, vars
<1>3. CASE \E x \in wire : LateAnswer(x) \/ NeverArrives(x)
  <2> PICK x \in wire : LateAnswer(x) \/ NeverArrives(x)
    BY <1>3
  <2>1. x.msg \in Msg
    BY DEF Shapes, Sent
  <2>2. Effect(x.msg, x.tok, x.stmt) /\ wire' = wire \ {x}
    BY <1>0 DEF LateAnswer, NeverArrives, vars
  <2>3. n = x.msg /\ Holds(x.msg, x.tok)
    BY <2>1, <2>2, EffectTakes
  <2>4. x \in wire \ wire'
    BY <2>2
  <2> QED
    BY <2>3, <2>4
<1>4. CASE \E w \in Worker, S \in SUBSET Msg : ClaimRound(w, S)
  BY <1>0, <1>4, OthersKeepActive DEF ClaimRound, Claim, ClaimGroups
<1>5. CASE \E w \in Worker : Start(w) \/ ClaimLost(w) \/ Scan(w)
  BY <1>0, <1>5, OthersKeepActive DEF Start, ClaimLost, Scan, vars
<1>6. CASE \E S \in SUBSET Msg : PromoteDue(S)
  BY <1>0, <1>6, OthersKeepActive DEF PromoteDue
<1>7. CASE \E w \in Worker, m \in Msg : FinishScanned(w, m)
  BY <1>0, <1>1, <1>7 DEF FinishScanned, FinishExpired, vars, Terminal
<1>8. CASE \E w \in Worker, K \in SUBSET runs : Beat(w, K)
  BY <1>0, <1>8, OthersKeepActive DEF Beat, vars
<1>9. CASE \E w \in Worker : \E b \in beats[w] : Beaten(w, b)
  BY <1>0, <1>9 DEF Beaten, vars
<1>10. CASE \E w \in Worker : Close(w) \/ Grace(w) \/ Closed(w) \/ Crash(w) \/ Restart(w)
  BY <1>0, <1>10 DEF Close, Grace, Closed, Crash, Restart, vars
<1>11. CASE \E m \in Msg : Enqueue(m) \/ Administer(m) \/ LapseUnbeaten(m) \/ LapseStalled(m)
  <2>1. ASSUME NEW m \in Msg, CancelIdle(m) PROVE FALSE
    BY <1>1, <2>1 DEF CancelIdle, Terminal, Live, Active, Is
  <2> QED
    BY <1>0, <1>11, <2>1, OthersKeepActive
       DEF Enqueue, Administer, LapseUnbeaten, LapseStalled
<1>12. CASE \E q \in Queue : LimitPasses(q)
  BY <1>0, <1>12 DEF LimitPasses, LimitEnds
<1>13. CASE UNCHANGED wvars
  BY <1>0, <1>13 DEF wvars, vars
<1> QED
  BY <1>2, <1>3, <1>4, <1>5, <1>6, <1>7, <1>8, <1>9, <1>10, <1>11, <1>12, <1>13
     DEF WorkerNext

-----------------------------------------------------------------------------
(* The theorems.                                                            *)

LEMMA WorkerInitially == ASSUME WorkerInit PROVE Tables /\ WorkerInv
<1>1. Init /\ runs = {} /\ wire = {}
  BY DEF WorkerInit
<1>2. Tables
  BY <1>1, InitType, AccountingInit DEF Tables
<1>3. Active = {}
  BY <1>1 DEF Init, Active, Is, Blank
<1>4. Shapes
  BY <1>1 DEF WorkerInit, Shapes
<1>5. Issued
  BY <1>1, LimitsAssumption DEF Init, Issued
<1> QED
  BY <1>1, <1>2, <1>3, <1>4, <1>5 DEF WorkerInv, LostIsFinal, ActiveHasRun, RunsKnow

\* The runs of workers, the answers they heard and the tokens they carry fit
\* the tables: the inductive invariant of workers.
THEOREM WorkerInvariant == WorkerSpec => [](Tables /\ WorkerInv)
<1>1. WorkerInit => Tables /\ WorkerInv
  BY WorkerInitially
<1>2. Tables /\ WorkerInv /\ [WorkerNext]_wvars => (Tables /\ WorkerInv)'
  BY WorkerStep
<1> QED
  BY <1>1, <1>2, PTL DEF WorkerSpec

\* Workers implement the tables: every step of claim loops, handlers,
\* heartbeats, scans and crashes is a statement MqMessages allows to clients, or
\* changes no row (queue/worker.ts, queue/settle.ts over sql/).
THEOREM TablesImplemented == WorkerSpec => Spec
<1>1. WorkerInit => Init
  BY DEF WorkerInit
<1>2. Tables /\ WorkerInv /\ [WorkerNext]_wvars => [Next]_vars
  BY WorkerStep
<1> QED
  BY <1>1, <1>2, WorkerInvariant, PTL DEF WorkerSpec, Spec

\* So every token, the groups' counter and the queues' counter are right while
\* workers run, crash and come back.
THEOREM WorkersFenced ==
    WorkerSpec => [](TokenFencing /\ GroupCountersMatch /\ QueueCountersMatch)
<1>1. WorkerSpec => Spec
  BY TablesImplemented
<1>2. Accounting => TokenFencing /\ GroupCountersMatch /\ QueueCountersMatch
  BY DEF Accounting
<1> QED
  BY <1>1, <1>2, AccountingInvariant, PTL

\* And parents count their children, wait for them and run after them, and
\* claims stay within their limits, while workers do.
THEOREM WorkersKeepFamilies ==
    WorkerSpec => /\ [](PendingMatches /\ DepsAgree /\ BlockedWaits)
                  /\ ParentRunsAfterChildren /\ ClaimsWithinLimits
<1>1. WorkerSpec => Spec
  BY TablesImplemented
<1> QED
  BY <1>1, PendingMatchesHolds, DepsAgreeHolds, BlockedWaitsHolds,
     ParentRunsAfterChildrenHolds, ClaimsWithinLimitsHolds, PTL

\* A run that was told its lease is lost has lost it for good (worker.ts,
\* holder() before the abort).
THEOREM LostIsFinalHolds == WorkerSpec => []LostIsFinal
<1>1. WorkerInv => LostIsFinal
  BY DEF WorkerInv
<1> QED
  BY <1>1, WorkerInvariant, PTL

\* Without faults an active message has a run that holds it: no refused settle,
\* cancel or expiry makes a run give up a message that is still its own.
THEOREM ActiveHasRunHolds == WorkerSpec => []ActiveHasRun
<1>1. WorkerInv => ActiveHasRun
  BY DEF WorkerInv
<1> QED
  BY <1>1, WorkerInvariant, PTL

\* While a lease runs only a statement with its token takes the message out of
\* active.
THEOREM LeaseProtectsHolds == WorkerSpec => LeaseProtects
<1>1. Tables /\ WorkerInv /\ [WorkerNext]_wvars =>
        [\A m \in Active :
          ~messages[m].lapsed /\ messages'[m].state # "active"
          => \/ \E r \in runs : r.msg = m /\ Ours(r) /\ r.phase \in {"sent", "tx"}
             \/ \E x \in wire \ wire' : x.msg = m /\ Holds(m, x.tok)]_wvars
  BY LeaseStep DEF WorkerInv
<1> QED
  BY <1>1, WorkerInvariant, PTL DEF WorkerSpec, LeaseProtects

=============================================================================
