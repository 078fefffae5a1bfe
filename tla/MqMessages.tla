----------------------------- MODULE MqMessages -----------------------------
(***************************************************************************)
(* The tables of @pg-prime/mq (messages, queues, groups, deps) and the SQL *)
(* statements that change them, one action per statement or short          *)
(* transaction of packages/pg-prime-mq/src/sql.                            *)
(*                                                                         *)
(* A statement is one atomic step: every row it changes is locked until it *)
(* commits, and at READ COMMITTED its conditions are evaluated again on    *)
(* the locked version of the row.  Clients are arbitrary here: whoever     *)
(* was ever given a token of a message may issue a settle with it at any   *)
(* time.  MqWorker adds what the workers really do.                        *)
(*                                                                         *)
(* Columns that never change after the insert (queue, group_key, parent,   *)
(* on_fail, retry) are constants indexed by the message id: ids come from  *)
(* a sequence and are never reused.                                        *)
(***************************************************************************)
EXTENDS Integers, FiniteSets

CONSTANTS
    Queue,          \* names of queues
    Group,          \* (queue, key) of the groups
    Msg,            \* ids the sequence hands out
    None,           \* SQL NULL, for a group, a parent or a limit
    queueOf,        \* messages.queue
    groupOf,        \* messages.group_key, a Group or None
    parentOf,       \* messages.parent, a Msg or None
    onFail,         \* messages.on_fail: "wait", "fail" or "ignore"
    Spawned,        \* children inserted by ctx.spawn rather than with their flow
    KeepCompleted,  \* queues that keep their completed messages
    Rated,          \* queues that declare a global rate
    QueueCaps,      \* values deployments declare for queues.concurrency
    GroupCaps,      \* values setGroupLimits writes to groups.concurrency
    Limited,        \* values of ClaimOptions.limited among the consumers
    Purgeable,      \* states purge() is called with
    MaxClaims       \* bound: claims per message

VARIABLES
    messages,       \* the messages table
    queues,         \* the queues table
    groups,         \* the groups table
    deps,           \* deps.status of the row (parentOf[c], c), by child
    serial          \* tokens handed out for each message so far

vars == <<messages, queues, groups, deps, serial>>

Live     == {"ready", "delayed", "blocked"}
Terminal == {"completed", "failed", "cancelled"}
MsgState == Live \cup Terminal \cup {"active"}
Absent   == {"none", "gone"}          \* not yet inserted, deleted
DepStatus == {"none", "pending", "completed", "failed", "ignored"}
Unresolved == {"pending", "failed"}
NoToken  == 0

ASSUME ColumnsAssumption ==
    /\ None \notin Group /\ None \notin Msg
    /\ queueOf \in [Msg -> Queue]
    /\ groupOf \in [Msg -> Group \cup {None}]
    /\ parentOf \in [Msg -> Msg \cup {None}]
    /\ onFail \in [Msg -> {"wait", "fail", "ignore"}]
    /\ Spawned \in SUBSET {c \in Msg : parentOf[c] # None}
    /\ KeepCompleted \in SUBSET Queue /\ Rated \in SUBSET Queue

ASSUME LimitsAssumption ==
    /\ None \notin Nat
    /\ QueueCaps \subseteq (Nat \ {0}) \cup {None} /\ QueueCaps # {}
    /\ GroupCaps \subseteq (Nat \ {0}) \cup {None} /\ GroupCaps # {}
    /\ Limited \subseteq BOOLEAN /\ Limited # {}
    /\ Purgeable \subseteq MsgState \ {"active"}
    /\ MaxClaims \in Nat

ASSUME FiniteAssumption == IsFiniteSet(Msg)

\* A parent is inserted before its children or with them (send.ts), so parents
\* make no cycle: going up from message to message leaves every set.
ASSUME ForestAssumption ==
    \A S \in SUBSET Msg : S # {} => \E m \in S : parentOf[m] \notin S

-----------------------------------------------------------------------------
(* The trees that parent columns make.                                      *)

Children(p) == {c \in Msg : parentOf[c] = p}
Kids(p)     == Children(p) \ Spawned

\* The parent, its parent, and so on: what lockAncestors and the recursive
\* CTEs over messages.parent walk.
Ancestors[m \in Msg] ==
    IF parentOf[m] = None THEN {}
    ELSE {parentOf[m]} \cup Ancestors[parentOf[m]]

\* The ids strictly between m and its ancestor a.
Between(m, a) == Ancestors[m] \ ({a} \cup Ancestors[a])

\* The rows one flow() inserts: the root and its static descendants.
FlowOf(r) == {r} \cup {m \in Msg : /\ r \in Ancestors[m]
                                   /\ ({m} \cup Between(m, r)) \cap Spawned = {}}

-----------------------------------------------------------------------------
Row == [state : MsgState \cup Absent, token : Nat, lapsed : BOOLEAN,
        attempts : Nat, cancel : BOOLEAN, counted : BOOLEAN,
        pending : Int, childFailed : BOOLEAN]

QueueRow == [active : Int, concurrency : QueueCaps, paused : BOOLEAN, limited : BOOLEAN]
GroupRow == [active : Int, concurrency : GroupCaps, paused : BOOLEAN]

Blank(s) == [state |-> s, token |-> NoToken, lapsed |-> FALSE, attempts |-> 0,
             cancel |-> FALSE, counted |-> FALSE, pending |-> 0,
             childFailed |-> FALSE]

Is(m, s)      == messages[m].state = s
In(q)         == {m \in Msg : queueOf[m] = q}
InGroup(g)    == {m \in Msg : groupOf[m] = g}
Exists(m)     == messages[m].state \in MsgState
Active        == {m \in Msg : Is(m, "active")}
Counted       == {m \in Active : messages[m].counted}

Init ==
    /\ messages = [m \in Msg |-> Blank("none")]
    /\ \E caps \in [Queue -> QueueCaps] :
          queues = [q \in Queue |-> [active |-> 0, concurrency |-> caps[q],
                                     paused |-> FALSE, limited |-> FALSE]]
    /\ \E caps \in [Group -> GroupCaps] :
          groups = [g \in Group |-> [active |-> 0, concurrency |-> caps[g],
                                     paused |-> FALSE]]
    /\ deps = [c \in Msg |-> "none"]
    /\ serial = [m \in Msg |-> 0]

-----------------------------------------------------------------------------
(* Inserting.                                                               *)

\* S1 and F1: a message, or a flow and its deps rows, in one statement.  An
\* inner node starts blocked; D are the leaves whose run_at is in the future.
Send(r, D) ==
    /\ parentOf[r] = None /\ \A m \in FlowOf(r) : Is(m, "none")
    /\ D \subseteq {m \in FlowOf(r) : Kids(m) = {}}
    /\ messages' = [m \in Msg |->
          IF m \notin FlowOf(r) THEN messages[m]
          ELSE [Blank(IF Kids(m) # {} THEN "blocked"
                      ELSE IF m \in D THEN "delayed" ELSE "ready")
                EXCEPT !.pending = Cardinality(Kids(m))]]
    /\ deps' = [c \in Msg |-> IF c \in FlowOf(r) \ {r} THEN "pending" ELSE deps[c]]
    /\ UNCHANGED <<queues, groups, serial>>

\* A consumer's write: id and token must match and the row must be active.
Holds(m, tok) == Is(m, "active") /\ messages[m].token = tok

\* ctx.spawn: a child of an active parent, whose count grows with it.
Spawn(c, tok, to) ==
    /\ c \in Spawned /\ Is(c, "none") /\ to \in {"ready", "delayed"}
    /\ Holds(parentOf[c], tok)
    /\ messages' = [m \in Msg |-> IF m = c THEN Blank(to)
                                  ELSE IF m = parentOf[c]
                                  THEN [messages[m] EXCEPT !.pending = @ + 1]
                                  ELSE messages[m]]
    /\ deps' = [deps EXCEPT ![c] = "pending"]
    /\ UNCHANGED <<queues, groups, serial>>

\* S2: due messages become ready.  Which ones are due is up to the clock, and
\* handle.promote() names one that is not.
Promote(S) ==
    /\ S # {} /\ \A m \in S : Is(m, "delayed")
    /\ messages' = [m \in Msg |-> IF m \in S THEN [messages[m] EXCEPT !.state = "ready"]
                                  ELSE messages[m]]
    /\ UNCHANGED <<queues, groups, deps, serial>>

-----------------------------------------------------------------------------
(* Claiming.                                                                *)

Open(q) == ~queues[q].paused /\ ~queues[q].limited

\* Mutant: compares the counter before the claim.
FitsOneMore(cap, active, n) == cap # None => active <= cap

\* greatest(0, cap - active), or no bound at all.
Fits(cap, active, n) == cap # None => n <= cap - active

\* The assignments every claim makes.  A token is unique among the tokens of
\* its message (gen_random_uuid); counted marks what queues.active counts.
Take(q, S, limited) ==
    messages' = [m \in Msg |->
        IF m \notin S THEN messages[m]
        ELSE [messages[m] EXCEPT !.state = "active", !.token = serial[m] + 1,
                                 !.lapsed = FALSE,
                                 !.counted = limited /\ queues[q].concurrency # None]]

\* queueBump: a claim under global limits counts itself and may spend the rate
\* window, which closes the queue until the window ends.
QueueBump(q, n, limited, spent) ==
    queues' = IF ~limited THEN queues
              ELSE [queues EXCEPT
                      ![q].active = @ + (IF queues[q].concurrency = None THEN 0 ELSE n),
                      ![q].limited = spent]

ClaimCommon(q, S, limited, spent) ==
    /\ S # {} /\ S \subseteq In(q)
    /\ \A m \in S : Is(m, "ready") /\ serial[m] < MaxClaims
    /\ Open(q)
    /\ limited => Fits(queues[q].concurrency, queues[q].active, Cardinality(S))
    /\ spent => limited /\ q \in Rated
    /\ Take(q, S, limited)
    /\ QueueBump(q, Cardinality(S), limited, spent)
    /\ serial' = [m \in Msg |-> IF m \in S THEN serial[m] + 1 ELSE serial[m]]
    /\ UNCHANGED deps

\* S3 and S4: ungrouped messages.  SKIP LOCKED may pass over any of them.
Claim(q, S, limited, spent) ==
    /\ \A m \in S : groupOf[m] = None
    /\ ClaimCommon(q, S, limited, spent)
    /\ UNCHANGED groups

\* S5: grouped messages, each group within its own concurrency.
ClaimGroups(q, S, limited, spent) ==
    /\ \A m \in S :
          /\ groupOf[m] # None
          /\ ~groups[groupOf[m]].paused
          /\ Fits(groups[groupOf[m]].concurrency, groups[groupOf[m]].active,
                  Cardinality(S \cap InGroup(groupOf[m])))
    /\ ClaimCommon(q, S, limited, spent)
    /\ groups' = [g \in Group |->
          [groups[g] EXCEPT !.active = @ + Cardinality(S \cap InGroup(g))]]

-----------------------------------------------------------------------------
(* Leaving active.                                                          *)

\* Mutant: every grouped message of S leaves the count, active or not.
UncountIdle(S) ==
    /\ groups' = [g \in Group |->
          [groups[g] EXCEPT !.active = @ - Cardinality(S \cap InGroup(g))]]
    /\ queues' = [q \in Queue |->
          [queues[q] EXCEPT !.active = @ - Cardinality(S \cap Counted \cap In(q))]]

\* Mutant: keeps the capacity of the queue taken.
UncountGroups(S) ==
    /\ groups' = [g \in Group |->
          [groups[g] EXCEPT !.active = @ - Cardinality(S \cap Active \cap InGroup(g))]]
    /\ UNCHANGED queues

\* counterCtes: [group] and [global] of the messages of S that were active.
Uncount(S) ==
    /\ groups' = [g \in Group |->
          [groups[g] EXCEPT !.active = @ - Cardinality(S \cap Active \cap InGroup(g))]]
    /\ queues' = [q \in Queue |->
          [queues[q] EXCEPT !.active = @ - Cardinality(S \cap Counted \cap In(q))]]

\* A settled child resolves its deps row by its own on_fail.
Resolution(c, to) == IF to = "completed" THEN "completed"
                     ELSE IF onFail[c] = "ignore" THEN "ignored" ELSE "failed"

\* Mutant: a failed child counts as resolved.
HeardFailure(row, D, res) ==
    [row EXCEPT
          !.pending = @ - Cardinality(D),
          !.childFailed = @ \/ \E c \in D : res[c] = "failed" /\ onFail[c] = "fail",
          !.state = IF D # {} /\ row.pending = Cardinality(D) /\ @ = "blocked"
                    THEN "ready" ELSE @]

\* Mutant: the first child to resolve releases the parent.
HeardFirst(row, D, res) ==
    LET freed == Cardinality({c \in D : res[c] # "failed"})
    IN [row EXCEPT
          !.pending = @ - freed,
          !.childFailed = @ \/ \E c \in D : res[c] = "failed" /\ onFail[c] = "fail",
          !.state = IF freed > 0 /\ @ = "blocked" THEN "ready" ELSE @]

\* The children in D have resolved as res says: their parent's count and flag,
\* and its release when the last one resolved while it was blocked.
Heard(row, D, res) ==
    LET freed == Cardinality({c \in D : res[c] # "failed"})
    IN [row EXCEPT
          !.pending = @ - freed,
          !.childFailed = @ \/ \E c \in D : res[c] = "failed" /\ onFail[c] = "fail",
          !.state = IF freed > 0 /\ row.pending = freed /\ @ = "blocked"
                    THEN "ready" ELSE @]

\* x's failure fails its parent too.
Cascades(x) == /\ parentOf[x] # None
               /\ onFail[x] = "fail" /\ deps[x] = "pending"
               /\ Is(parentOf[x], "blocked")

\* Mutant: the cascade stops at the parent.
CascadeToParent(m) == {a \in {parentOf[m]} \cap Msg : Cascades(m)}

\* The parents a failure of m reaches: finishMessage's loop over cascadeTo,
\* whose guard is `blocked`.
CascadeOf(m) ==
    {a \in Msg : /\ a \in Ancestors[m] /\ Is(a, "blocked")
                 /\ \A x \in {m} \cup Between(m, a) : Cascades(x)}

\* Mutant: the token outlives the message.
FinishedWithToken(row, to) ==
    [row EXCEPT !.state = to, !.attempts = @ + (IF row.state = "active" THEN 1 ELSE 0)]

Finished(row, to) ==
    [row EXCEPT !.state = to, !.token = NoToken, !.lapsed = FALSE,
                !.attempts = @ + (IF row.state = "active" THEN 1 ELSE 0)]

\* finishMessage: the one way into completed, failed or cancelled.  A queue
\* that keeps no completed messages deletes the row, and with it the deps rows
\* of its children.
Finish(m, to) ==
    LET F    == IF to = "completed" THEN {} ELSE CascadeOf(m)
        del  == to = "completed" /\ queueOf[m] \notin KeepCompleted
        done == {m} \cup F
        res  == [x \in Msg |-> Resolution(x, IF x = m THEN to ELSE "failed")]
        D    == {x \in done : deps[x] = "pending"}
    IN /\ messages' = [p \in Msg |->
             IF p = m /\ del THEN Blank("gone")
             ELSE IF p \in done
                  THEN Finished(Heard(messages[p], D \cap Children(p), res),
                                IF p = m THEN to ELSE "failed")
             ELSE Heard(messages[p], D \cap Children(p), res)]
       /\ deps' = [c \in Msg |-> IF del /\ parentOf[c] = m THEN "none"
                                 ELSE IF c \in D THEN res[c] ELSE deps[c]]
       /\ Uncount({m})
       /\ UNCHANGED serial

\* Mutant: fails a message the scan returned, whatever its lease is now.
FinishExpiredUnchecked(m) == Is(m, "active") /\ Finish(m, "failed")

\* The guards of finishSql.
FinishByToken(m, tok, to) == Holds(m, tok) /\ Finish(m, to)
FinishFlagged(m, tok)     == Holds(m, tok) /\ messages[m].cancel /\ Finish(m, "cancelled")
FinishExpired(m)          == Is(m, "active") /\ messages[m].lapsed /\ Finish(m, "failed")
CancelIdle(m)             == messages[m].state \in Live /\ Finish(m, "cancelled")

\* Mutant: a move does not look at the cancel flag.
MoveFlagged(m, tok, to, counts) ==
    /\ Holds(m, tok)
    /\ messages' = [messages EXCEPT
          ![m].state = to, ![m].token = NoToken, ![m].lapsed = FALSE,
          ![m].attempts = @ + (IF counts THEN 1 ELSE 0)]
    /\ UNCHANGED <<deps, serial>>

\* moveSql: a move out of active by its owner, refused once cancel() flagged it.
Move(m, tok, to, counts) ==
    /\ Holds(m, tok) /\ ~messages[m].cancel
    /\ messages' = [messages EXCEPT
          ![m].state = to, ![m].token = NoToken, ![m].lapsed = FALSE,
          ![m].attempts = @ + (IF counts THEN 1 ELSE 0)]
    /\ UNCHANGED <<deps, serial>>

MoveRetry(m, tok, to) ==        \* S8r
    to \in {"ready", "delayed"} /\ Move(m, tok, to, TRUE) /\ Uncount({m})
MoveDefer(m, tok) ==            \* S12
    Move(m, tok, "delayed", FALSE) /\ Uncount({m})
MoveRelease(m, tok) ==          \* S13, a shutdown release
    Move(m, tok, "ready", FALSE) /\ Uncount({m})

MoveLimit(m, tok) ==            \* S13, ctx.rateLimit: also closes the queue
    /\ Move(m, tok, "ready", FALSE)
    /\ groups' = [g \in Group |->
          [groups[g] EXCEPT !.active = @ - Cardinality({m} \cap InGroup(g))]]
    /\ queues' = [queues EXCEPT
          ![queueOf[m]].active = @ - (IF messages[m].counted THEN 1 ELSE 0),
          ![queueOf[m]].limited = TRUE]

MoveWait(m, tok) ==             \* S14
    /\ messages[m].pending > 0 /\ ~messages[m].childFailed
    /\ Move(m, tok, "blocked", FALSE) /\ Uncount({m})

\* S9: a scan re-queues expired leases with attempts left; the flag of a
\* cancel() stays.
Expire(q, S) ==
    /\ S # {} /\ S \subseteq In(q)
    /\ \A m \in S : Is(m, "active") /\ messages[m].lapsed
    /\ messages' = [m \in Msg |->
          IF m \notin S THEN messages[m]
          ELSE [messages[m] EXCEPT !.state = "delayed", !.token = NoToken,
                                   !.lapsed = FALSE, !.attempts = @ + 1]]
    /\ Uncount(S)
    /\ UNCHANGED <<deps, serial>>

\* S6 and extend(): the leases of the (id, token) pairs H run again from now.
Extend(H) ==
    /\ \A h \in H : Holds(h[1], h[2])
    /\ messages' = [m \in Msg |-> IF \E h \in H : h[1] = m
                                  THEN [messages[m] EXCEPT !.lapsed = FALSE]
                                  ELSE messages[m]]
    /\ UNCHANGED <<queues, groups, deps, serial>>

-----------------------------------------------------------------------------
(* Administration.                                                          *)

FlagCancel(m) ==
    /\ Is(m, "active")
    /\ messages' = [messages EXCEPT ![m].cancel = TRUE]
    /\ UNCHANGED <<queues, groups, deps, serial>>

\* Mutant: the parents of retried children do not wait for them again.
RetryKeepsDeps(S) ==
    /\ S # {}
    /\ \A m \in S : /\ messages[m].state \in Terminal
                    /\ \A c \in Children(m) : deps[c] \notin Unresolved
    /\ messages' = [m \in Msg |->
          IF m \notin S THEN messages[m]
          ELSE [messages[m] EXCEPT !.state = "ready", !.attempts = 0, !.cancel = FALSE,
                                   !.childFailed = FALSE]]
    /\ UNCHANGED <<queues, groups, deps, serial>>

\* A-retry: finished messages without unresolved children start over, and a
\* failed deps row of theirs waits again.
Retry(S) ==
    /\ S # {}
    /\ \A m \in S : /\ messages[m].state \in Terminal
                    /\ \A c \in Children(m) : deps[c] \notin Unresolved
    /\ messages' = [m \in Msg |->
          IF m \notin S THEN messages[m]
          ELSE [messages[m] EXCEPT !.state = "ready", !.attempts = 0, !.cancel = FALSE,
                                   !.childFailed = FALSE]]
    /\ deps' = [c \in Msg |-> IF c \in S /\ deps[c] = "failed" THEN "pending" ELSE deps[c]]
    /\ UNCHANGED <<queues, groups, serial>>

\* Deleted rows take the deps rows of their children with them.
Deleted(S) == [m \in Msg |-> IF m \in S THEN Blank("gone") ELSE messages[m]]
Orphaned(S) == [c \in Msg |-> IF parentOf[c] \in S THEN "none" ELSE deps[c]]

\* The rows lockTree finds: m and what is reachable from it through rows that
\* still exist.
TreeOf(m) == {m} \cup {x \in Msg : /\ m \in Ancestors[x]
                                   /\ \A y \in {x} \cup Between(x, m) : Exists(y)}

\* remove(): the message and its descendants, none of them active; its parent
\* counts it as ignored whether it was pending or failed.
Remove(m) ==
    LET T == TreeOf(m)
        D == {x \in {m} : deps[x] \in Unresolved}
        res == [x \in Msg |-> "ignored"]
    IN /\ Exists(m) /\ T \cap Active = {}
       /\ messages' = [p \in Msg |-> Heard(Deleted(T)[p], D \cap Children(p), res)]
       /\ deps' = [c \in Msg |-> IF c \in D THEN "ignored" ELSE Orphaned(T)[c]]
       /\ UNCHANGED <<queues, groups, serial>>

\* purge() of the given states, and retention of finished messages: rows go,
\* the deps rows of the deleted messages in their parents stay as they are.
Purge(S) ==
    /\ S # {} /\ \A m \in S : messages[m].state \in Purgeable
    /\ messages' = Deleted(S) /\ deps' = Orphaned(S)
    /\ UNCHANGED <<queues, groups, serial>>

SetPaused(q, paused) ==
    /\ queues' = [queues EXCEPT ![q].paused = paused]
    /\ UNCHANGED <<messages, groups, deps, serial>>

\* upsertQueue: a process starts and writes the limits it declares; without a
\* rate that clears limited_until.
UpsertQueue(q, cap) ==
    /\ queues' = [queues EXCEPT ![q].concurrency = cap,
                                ![q].limited = @ /\ q \in Rated]
    /\ UNCHANGED <<messages, groups, deps, serial>>

SetGroup(g, paused, cap) ==
    /\ groups' = [groups EXCEPT ![g].paused = paused, ![g].concurrency = cap]
    /\ UNCHANGED <<messages, queues, deps, serial>>

-----------------------------------------------------------------------------
(* The database clock.                                                      *)

Lapse(m) ==         \* lease_until passes
    /\ Is(m, "active") /\ ~messages[m].lapsed
    /\ messages' = [messages EXCEPT ![m].lapsed = TRUE]
    /\ UNCHANGED <<queues, groups, deps, serial>>

LimitEnds(q) ==     \* limited_until passes
    /\ queues[q].limited
    /\ queues' = [queues EXCEPT ![q].limited = FALSE]
    /\ UNCHANGED <<messages, groups, deps, serial>>

-----------------------------------------------------------------------------
\* A settle with a token some claim of m was given.
Settle(m, tok) ==
    \/ \E to \in Terminal : FinishByToken(m, tok, to)
    \/ FinishFlagged(m, tok)
    \/ \E to \in {"ready", "delayed"} : MoveRetry(m, tok, to)
    \/ MoveDefer(m, tok)
    \/ MoveRelease(m, tok)
    \/ MoveLimit(m, tok)
    \/ MoveWait(m, tok)

Claims ==
    \E q \in Queue, S \in SUBSET Msg, limited \in Limited, spent \in BOOLEAN :
        Claim(q, S, limited, spent) \/ ClaimGroups(q, S, limited, spent)

Admin ==
    \/ \E m \in Msg : FlagCancel(m) \/ CancelIdle(m) \/ Remove(m)
    \/ \E S \in SUBSET Msg : Retry(S) \/ Purge(S)
    \/ \E q \in Queue, p \in BOOLEAN : SetPaused(q, p)
    \/ \E q \in Queue, cap \in QueueCaps : UpsertQueue(q, cap)
    \/ \E g \in Group, p \in BOOLEAN, cap \in GroupCaps : SetGroup(g, p, cap)

Next ==
    \/ \E r \in Msg, D \in SUBSET Msg : Send(r, D)
    \/ \E c \in Msg, tok \in 1..MaxClaims, to \in Live : Spawn(c, tok, to)
    \/ \E S \in SUBSET Msg : Promote(S)
    \/ Claims
    \/ \E m \in Msg, tok \in 1..MaxClaims : Settle(m, tok)
    \/ \E S \in SUBSET Active : Extend({<<m, messages[m].token>> : m \in S})
    \/ \E q \in Queue, S \in SUBSET Msg : Expire(q, S)
    \/ \E m \in Msg : FinishExpired(m)
    \/ Admin
    \/ \E m \in Msg : Lapse(m)
    \/ \E q \in Queue : LimitEnds(q)

Spec == Init /\ [][Next]_vars
-----------------------------------------------------------------------------
(* Properties.                                                              *)

\* The tables have their types.
TypeOK ==
    /\ messages \in [Msg -> Row]
    /\ queues \in [Queue -> QueueRow]
    /\ groups \in [Group -> GroupRow]
    /\ deps \in [Msg -> DepStatus]
    /\ serial \in [Msg -> Nat]

\* A message has a token exactly while it is active, and never one that was
\* not handed out: a settle with an older token finds no row (settle.ts guards).
TokenFencing ==
    \A m \in Msg :
        /\ messages[m].token # NoToken <=> m \in Active
        /\ messages[m].token # NoToken => messages[m].token = serial[m]

\* groups.active counts the active messages of the group and queues.active the
\* counted ones of the queue, whatever path they left active by (counterCtes,
\* claim's gu and qu): no path leaks a counter.
GroupCountersMatch ==
    \A g \in Group : groups[g].active = Cardinality(Active \cap InGroup(g))
QueueCountersMatch ==
    \A q \in Queue : queues[q].active = Cardinality(Counted \cap In(q))

\* pending_deps is the number of children whose deps row is unresolved, at
\* every moment of a flow: sends, spawns, settles, cascades, retries, removals.
PendingMatches ==
    \A p \in Msg : Exists(p) =>
        messages[p].pending = Cardinality({c \in Children(p) : deps[c] \in Unresolved})

\* A blocked parent still has something to wait for and no failed `fail` child:
\* the last resolution released it, the failing one failed it.
BlockedWaits ==
    \A p \in Msg : Is(p, "blocked") =>
        messages[p].pending > 0 /\ ~messages[p].childFailed

\* A deps row agrees with its child: pending only until the child finishes,
\* failed only while it stays failed or cancelled (or was deleted).
DepsAgree ==
    \A c \in Msg :
        /\ deps[c] = "pending" => messages[c].state \notin Terminal
        /\ deps[c] = "failed" => messages[c].state \in {"failed", "cancelled", "gone"}
        /\ deps[c] # "none" => Exists(parentOf[c])

\* A parent leaves blocked for ready only when no child is unresolved.
RunsAfterChildren ==
    \A p \in Msg : Is(p, "blocked") /\ messages'[p].state = "ready" =>
        \A c \in Children(p) : deps'[c] \notin Unresolved

\* A claim that counts itself never takes the queue or a group past its
\* concurrency, even with several claims and limits that change between them.
WithinLimits ==
    /\ \A q \in Queue : LET r == queues'[q] IN
          r.active > queues[q].active /\ r.concurrency # None => r.active <= r.concurrency
    /\ \A g \in Group : LET r == groups'[g] IN
          r.active > groups[g].active /\ r.concurrency # None => r.active <= r.concurrency

\* A message cancel() flagged is never moved back to work by its owner: only
\* an expired lease re-queues it (moveSql's `not m.cancel`).
FlagStands ==
    \A m \in Msg : /\ m \in Active /\ messages[m].cancel /\ ~messages[m].lapsed
                   /\ messages'[m].state # "active"
                   => messages'[m].state \in Terminal \cup {"gone"}

\* In no step does a parent run before its children (finishMessage, remove).
ParentRunsAfterChildren == [][RunsAfterChildren]_vars

\* No step takes a counter past its limit (claim.ts).
ClaimsWithinLimits == [][WithinLimits]_vars

\* No step of an owner drops a cancel (moveSql).
CancelNotDropped == [][FlagStands]_vars
=============================================================================
