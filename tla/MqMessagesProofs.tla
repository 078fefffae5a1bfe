-------------------------- MODULE MqMessagesProofs --------------------------
(***************************************************************************)
(* What every client of the tables can rely on, proved for any number of   *)
(* messages, queues and groups: fencing and counters, families, limits.    *)
(***************************************************************************)
EXTENDS MqMessages, FiniteSetTheorems, TLAPS

\* Sets of messages are finite and their cardinalities are naturals.
LEMMA CardinalityNat ==
    ASSUME NEW S \in SUBSET Msg
    PROVE  IsFiniteSet(S) /\ Cardinality(S) \in Nat
BY FiniteAssumption, FS_Subset, FS_CardinalityType

LEMMA BlankType == ASSUME NEW s \in MsgState \cup Absent PROVE Blank(s) \in Row
BY DEF Blank, Row, NoToken

\* The lattice of states the helpers below move between.
LEMMA StatesAreStates ==
    /\ Live \subseteq MsgState /\ Terminal \subseteq MsgState
    /\ {"ready", "delayed", "blocked", "active", "failed", "cancelled"} \subseteq MsgState
    /\ "gone" \in Absent /\ "none" \in Absent
BY DEF MsgState, Live, Terminal, Absent

\* A parent's row stays a row when its children resolve.
LEMMA HeardType ==
    ASSUME NEW row \in Row, NEW D \in SUBSET Msg, NEW res
    PROVE  Heard(row, D, res) \in Row
<1> DEFINE freed  == Cardinality({c \in D : res[c] # "failed"})
           doomed == row.childFailed \/ \E c \in D : res[c] = "failed" /\ onFail[c] = "fail"
           next   == IF freed > 0 /\ row.pending = freed /\ row.state = "blocked"
                     THEN "ready" ELSE row.state
<1>1. row.pending - freed \in Int
  BY CardinalityNat DEF Row
<1>2. doomed \in BOOLEAN
  BY Zenon
<1>3. next \in MsgState \cup Absent
  BY StatesAreStates DEF Row
<1>4. Heard(row, D, res) = [row EXCEPT !.pending = row.pending - freed,
                                       !.childFailed = doomed, !.state = next]
  BY DEF Heard, Row
<1> HIDE DEF freed, doomed, next
<1> QED
  BY <1>1, <1>2, <1>3, <1>4 DEF Row

\* The four columns a claim or a settle assigns.
LEMMA RowUpdate ==
    ASSUME NEW row \in Row, NEW s \in MsgState \cup Absent, NEW t \in Nat,
           NEW l \in BOOLEAN, NEW n \in Nat
    PROVE  [row EXCEPT !.state = s, !.token = t, !.lapsed = l, !.attempts = n] \in Row
BY DEF Row

LEMMA FinishedType ==
    ASSUME NEW row \in Row, NEW to \in Terminal
    PROVE  Finished(row, to) \in Row
<1> DEFINE n == row.attempts + (IF row.state = "active" THEN 1 ELSE 0)
<1>1. n \in Nat
  BY DEF Row
<1>2. to \in MsgState \cup Absent /\ FALSE \in BOOLEAN /\ NoToken \in Nat
  BY StatesAreStates DEF NoToken
<1>3. Finished(row, to) = [row EXCEPT !.state = to, !.token = NoToken,
                                      !.lapsed = FALSE, !.attempts = n]
  BY DEF Finished, Row
<1> HIDE DEF n
<1>4. [row EXCEPT !.state = to, !.token = NoToken, !.lapsed = FALSE, !.attempts = n] \in Row
  BY <1>1, <1>2, RowUpdate, Zenon
<1> QED
  BY <1>3, <1>4, Zenon

LEMMA UncountType ==
    ASSUME TypeOK, NEW S \in SUBSET Msg, Uncount(S)
    PROVE  queues' \in [Queue -> QueueRow] /\ groups' \in [Group -> GroupRow]
<1> DEFINE nQ(q) == Cardinality(S \cap Counted \cap In(q))
           nG(g) == Cardinality(S \cap Active \cap InGroup(g))
<1>1. \A q \in Queue : nQ(q) \in Nat
  BY CardinalityNat
<1>2. \A g \in Group : nG(g) \in Nat
  BY CardinalityNat
<1>3. /\ queues' = [q \in Queue |-> [queues[q] EXCEPT !.active = queues[q].active - nQ(q)]]
      /\ groups' = [g \in Group |-> [groups[g] EXCEPT !.active = groups[g].active - nG(g)]]
  BY DEF Uncount, TypeOK
<1> HIDE DEF nQ, nG
<1>4. \A q \in Queue : queues[q].active - nQ(q) \in Int
  BY <1>1 DEF TypeOK, QueueRow
<1>5. \A g \in Group : groups[g].active - nG(g) \in Int
  BY <1>2 DEF TypeOK, GroupRow
<1> QED
  BY <1>3, <1>4, <1>5 DEF TypeOK, QueueRow, GroupRow

LEMMA FinishType ==
    ASSUME TypeOK, NEW m \in Msg, NEW to \in Terminal, Finish(m, to)
    PROVE  TypeOK'
<1> DEFINE F    == IF to = "completed" THEN {} ELSE CascadeOf(m)
           del  == to = "completed" /\ queueOf[m] \notin KeepCompleted
           done == {m} \cup F
           res  == [x \in Msg |-> Resolution(x, IF x = m THEN to ELSE "failed")]
           D    == {x \in done : deps[x] = "pending"}
<1>1. F \in SUBSET Msg /\ done \in SUBSET Msg /\ D \in SUBSET Msg
  BY DEF CascadeOf
<1>2. \A c \in Msg : res[c] \in DepStatus
  BY DEF Resolution, DepStatus
<1>3. messages' = [p \in Msg |->
             IF p = m /\ del THEN Blank("gone")
             ELSE IF p \in done
                  THEN Finished(Heard(messages[p], D \cap Children(p), res),
                                IF p = m THEN to ELSE "failed")
             ELSE Heard(messages[p], D \cap Children(p), res)]
  BY DEF Finish
<1>4. deps' = [c \in Msg |-> IF del /\ parentOf[c] = m THEN "none"
                             ELSE IF c \in D THEN res[c] ELSE deps[c]]
  BY DEF Finish
<1>5. Uncount({m}) /\ serial' = serial
  BY DEF Finish
<1> HIDE DEF F, del, done, res, D
<1>6. messages' \in [Msg -> Row]
  <2> SUFFICES ASSUME NEW p \in Msg PROVE messages'[p] \in Row
    BY <1>3
  <2>1. Blank("gone") \in Row
    BY BlankType, StatesAreStates
  <2>2. Heard(messages[p], D \cap Children(p), res) \in Row
    BY <1>1, HeardType DEF TypeOK
  <2>3. Finished(Heard(messages[p], D \cap Children(p), res),
                 IF p = m THEN to ELSE "failed") \in Row
    BY <2>2, FinishedType DEF Terminal
  <2> QED
    BY <1>3, <2>1, <2>2, <2>3
<1>7. deps' \in [Msg -> DepStatus]
  BY <1>2, <1>4 DEF TypeOK, DepStatus
<1> QED
  BY <1>5, <1>6, <1>7, UncountType DEF TypeOK

LEMMA SendType ==
    ASSUME TypeOK, NEW r \in Msg, NEW D \in SUBSET Msg, Send(r, D)
    PROVE  TypeOK'
<1>1. \A m \in Msg : Cardinality(Kids(m)) \in Int
  BY CardinalityNat DEF Kids, Children
<1>2. \A s \in Live, n \in Int : [Blank(s) EXCEPT !.pending = n] \in Row
  BY BlankType, StatesAreStates DEF Row
<1>3. messages' \in [Msg -> Row]
  BY <1>1, <1>2 DEF Send, TypeOK, Live
<1>4. deps' \in [Msg -> DepStatus]
  BY DEF Send, TypeOK, DepStatus
<1> QED
  BY <1>3, <1>4 DEF Send, TypeOK

LEMMA SpawnType ==
    ASSUME TypeOK, NEW c \in Msg, NEW tok, NEW to, Spawn(c, tok, to)
    PROVE  TypeOK'
<1>1. Blank(to) \in Row
  BY BlankType, StatesAreStates DEF Spawn
<1>2. \A row \in Row : [row EXCEPT !.pending = @ + 1] \in Row
  BY DEF Row
<1>3. messages' \in [Msg -> Row]
  BY <1>1, <1>2 DEF Spawn, TypeOK
<1>4. deps' \in [Msg -> DepStatus]
  BY DEF Spawn, TypeOK, DepStatus
<1> QED
  BY <1>3, <1>4 DEF Spawn, TypeOK

LEMMA PromoteType ==
    ASSUME TypeOK, NEW S \in SUBSET Msg, Promote(S)
    PROVE  TypeOK'
<1>1. \A row \in Row : [row EXCEPT !.state = "ready"] \in Row
  BY StatesAreStates DEF Row
<1> QED
  BY <1>1 DEF Promote, TypeOK

\* What claims write to the rows they take and to the row of their queue.
LEMMA TakenRow ==
    ASSUME NEW row \in Row, NEW t \in Nat, NEW c \in BOOLEAN
    PROVE  [row EXCEPT !.state = "active", !.token = t, !.lapsed = FALSE,
                       !.counted = c] \in Row
<1>1. "active" \in MsgState \cup Absent
  BY StatesAreStates
<1> QED
  BY <1>1 DEF Row

LEMMA BumpedRow ==
    ASSUME NEW row \in QueueRow, NEW n \in Int, NEW c \in BOOLEAN
    PROVE  [row EXCEPT !.active = n, !.limited = c] \in QueueRow
BY DEF QueueRow

LEMMA ClaimType ==
    ASSUME TypeOK, NEW q \in Queue, NEW S \in SUBSET Msg, NEW limited \in BOOLEAN,
           NEW spent \in BOOLEAN, ClaimCommon(q, S, limited, spent)
    PROVE  /\ messages' \in [Msg -> Row]
           /\ queues' \in [Queue -> QueueRow]
           /\ deps' \in [Msg -> DepStatus]
           /\ serial' \in [Msg -> Nat]
<1> DEFINE isCounted == limited /\ queues[q].concurrency # None
<1>1. isCounted \in BOOLEAN
  BY Zenon
<1>2. \A m \in Msg :
         [messages[m] EXCEPT !.state = "active", !.token = serial[m] + 1,
                             !.lapsed = FALSE, !.counted = isCounted] \in Row
  <2> SUFFICES ASSUME NEW m \in Msg
               PROVE  [messages[m] EXCEPT !.state = "active", !.token = serial[m] + 1,
                             !.lapsed = FALSE, !.counted = isCounted] \in Row
    OBVIOUS
  <2>1. messages[m] \in Row /\ serial[m] + 1 \in Nat
    BY DEF TypeOK
  <2> HIDE DEF isCounted
  <2> QED
    BY <1>1, <2>1, TakenRow, Zenon
<1>3. messages' = [m \in Msg |-> IF m \notin S THEN messages[m]
                   ELSE [messages[m] EXCEPT !.state = "active", !.token = serial[m] + 1,
                                            !.lapsed = FALSE, !.counted = isCounted]]
  BY DEF ClaimCommon, Take
<1> HIDE DEF isCounted
<1>4. messages' \in [Msg -> Row]
  BY <1>2, <1>3 DEF TypeOK
<1>5. Cardinality(S) \in Nat
  BY CardinalityNat
<1>6. queues' \in [Queue -> QueueRow]
  <2>1. QueueBump(q, Cardinality(S), limited, spent)
    BY DEF ClaimCommon
  <2>2. queues \in [Queue -> QueueRow]
    BY DEF TypeOK, QueueRow
  <2> DEFINE n == queues[q].active
                  + (IF queues[q].concurrency = None THEN 0 ELSE Cardinality(S))
             bumped == [queues[q] EXCEPT !.active = n, !.limited = spent]
  <2>3. bumped \in QueueRow
    <3>1. n \in Int /\ queues[q] \in QueueRow
      BY <1>5, <2>2 DEF QueueRow
    <3> HIDE DEF n
    <3> QED
      BY <3>1, BumpedRow, Zenon
  <2>4. queues' = queues \/ queues' = [queues EXCEPT ![q] = bumped]
    BY <2>1, Zenon DEF QueueBump
  <2> HIDE DEF bumped
  <2> QED
    BY <2>2, <2>3, <2>4
<1>7. deps' \in [Msg -> DepStatus] /\ serial' \in [Msg -> Nat]
  BY DEF ClaimCommon, TypeOK
<1> QED
  BY <1>4, <1>6, <1>7

LEMMA MoveType ==
    ASSUME TypeOK, NEW m \in Msg, NEW tok, NEW to \in MsgState, NEW counts \in BOOLEAN,
           Move(m, tok, to, counts)
    PROVE  /\ messages' \in [Msg -> Row]
           /\ deps' \in [Msg -> DepStatus]
           /\ serial' \in [Msg -> Nat]
<1> DEFINE n == messages[m].attempts + (IF counts THEN 1 ELSE 0)
           moved == [messages[m] EXCEPT !.state = to, !.token = NoToken,
                                        !.lapsed = FALSE, !.attempts = n]
<1>1. moved \in Row
  <2>1. messages[m] \in Row
    BY DEF TypeOK
  <2>2. n \in Nat /\ NoToken \in Nat /\ FALSE \in BOOLEAN /\ to \in MsgState \cup Absent
    BY <2>1 DEF Row, NoToken
  <2> HIDE DEF n
  <2> QED
    BY <2>1, <2>2, RowUpdate, Zenon
<1>2. messages' = [messages EXCEPT ![m] = moved]
  BY DEF Move, TypeOK, Row
<1> HIDE DEF moved
<1>3. messages' \in [Msg -> Row]
  BY <1>1, <1>2 DEF TypeOK
<1>4. deps' \in [Msg -> DepStatus] /\ serial' \in [Msg -> Nat]
  BY DEF Move, TypeOK
<1> QED
  BY <1>3, <1>4

LEMMA ExpireType ==
    ASSUME TypeOK, NEW q \in Queue, NEW S \in SUBSET Msg, Expire(q, S)
    PROVE  TypeOK'
<1>1. \A m \in Msg : [messages[m] EXCEPT !.state = "delayed", !.token = NoToken,
                        !.lapsed = FALSE, !.attempts = messages[m].attempts + 1] \in Row
  <2> SUFFICES ASSUME NEW m \in Msg
               PROVE  [messages[m] EXCEPT !.state = "delayed", !.token = NoToken,
                         !.lapsed = FALSE, !.attempts = messages[m].attempts + 1] \in Row
    OBVIOUS
  <2>1. messages[m] \in Row
    BY DEF TypeOK
  <2>2. /\ messages[m].attempts + 1 \in Nat /\ NoToken \in Nat
        /\ FALSE \in BOOLEAN /\ "delayed" \in MsgState \cup Absent
    BY <2>1, StatesAreStates DEF Row, NoToken
  <2> QED
    BY <2>1, <2>2, RowUpdate, Zenon
<1>2. messages' \in [Msg -> Row]
  BY <1>1 DEF Expire, TypeOK
<1>3. Uncount(S) /\ deps' = deps /\ serial' = serial
  BY DEF Expire
<1> QED
  BY <1>2, <1>3, UncountType DEF TypeOK

LEMMA MoveLimitType ==
    ASSUME TypeOK, NEW m \in Msg, NEW tok, MoveLimit(m, tok)
    PROVE  TypeOK'
<1>1. /\ messages' \in [Msg -> Row]
      /\ deps' \in [Msg -> DepStatus]
      /\ serial' \in [Msg -> Nat]
  <2>1. Move(m, tok, "ready", FALSE) /\ "ready" \in MsgState /\ FALSE \in BOOLEAN
    BY StatesAreStates DEF MoveLimit
  <2> QED
    BY <2>1, MoveType, Zenon
<1>2. groups' \in [Group -> GroupRow]
  <2>1. \A g \in Group : Cardinality({m} \cap InGroup(g)) \in Nat
    BY CardinalityNat
  <2>2. \A row \in GroupRow, n \in Nat : [row EXCEPT !.active = @ - n] \in GroupRow
    BY DEF GroupRow
  <2> QED
    BY <2>1, <2>2 DEF MoveLimit, TypeOK, GroupRow
<1>3. queues' \in [Queue -> QueueRow]
  <2>1. queueOf[m] \in Queue
    BY ColumnsAssumption
  <2> DEFINE n == queues[queueOf[m]].active - (IF messages[m].counted THEN 1 ELSE 0)
             left == [queues[queueOf[m]] EXCEPT !.active = n, !.limited = TRUE]
  <2>2. left \in QueueRow
    <3>1. n \in Int /\ queues[queueOf[m]] \in QueueRow /\ TRUE \in BOOLEAN
      BY <2>1 DEF TypeOK, QueueRow
    <3> HIDE DEF n
    <3> QED
      BY <3>1, BumpedRow, Zenon
  <2>3. queues' = [queues EXCEPT ![queueOf[m]] = left]
    BY <2>1 DEF MoveLimit, TypeOK
  <2>4. queues \in [Queue -> QueueRow]
    BY DEF TypeOK, QueueRow
  <2> HIDE DEF left
  <2> QED
    BY <2>2, <2>3, <2>4
<1> QED
  BY <1>1, <1>2, <1>3 DEF TypeOK, QueueRow, GroupRow

LEMMA SettleType ==
    ASSUME TypeOK, NEW m \in Msg, NEW tok, Settle(m, tok)
    PROVE  TypeOK'
<1>1. CASE \E to \in Terminal : FinishByToken(m, tok, to)
  BY <1>1, FinishType DEF FinishByToken
<1>2. CASE FinishFlagged(m, tok)
  BY <1>2, FinishType DEF FinishFlagged, Terminal
<1>3. CASE \E to \in {"ready", "delayed"} : MoveRetry(m, tok, to)
  BY <1>3, MoveType, UncountType, StatesAreStates DEF MoveRetry, TypeOK
<1>4. CASE MoveDefer(m, tok)
  BY <1>4, MoveType, UncountType, StatesAreStates DEF MoveDefer, TypeOK
<1>5. CASE MoveRelease(m, tok)
  BY <1>5, MoveType, UncountType, StatesAreStates DEF MoveRelease, TypeOK
<1>6. CASE MoveLimit(m, tok)
  BY <1>6, MoveLimitType
<1>7. CASE MoveWait(m, tok)
  BY <1>7, MoveType, UncountType, StatesAreStates DEF MoveWait, TypeOK
<1> QED
  BY <1>1, <1>2, <1>3, <1>4, <1>5, <1>6, <1>7 DEF Settle

LEMMA AdminType ==
    ASSUME TypeOK, Admin
    PROVE  TypeOK'
<1>1. ASSUME NEW m \in Msg, FlagCancel(m) PROVE TypeOK'
  <2>1. [messages[m] EXCEPT !.cancel = TRUE] \in Row
    BY DEF TypeOK, Row
  <2> QED
    BY <1>1, <2>1 DEF FlagCancel, TypeOK
<1>2. ASSUME NEW m \in Msg, CancelIdle(m) PROVE TypeOK'
  BY <1>2, FinishType DEF CancelIdle, Terminal
<1>3. ASSUME NEW m \in Msg, Remove(m) PROVE TypeOK'
  <2> DEFINE T   == TreeOf(m)
             D   == {x \in {m} : deps[x] \in Unresolved}
             res == [x \in Msg |-> "ignored"]
  <2>1. /\ messages' = [p \in Msg |-> Heard(Deleted(T)[p], D \cap Children(p), res)]
        /\ deps' = [c \in Msg |-> IF c \in D THEN "ignored" ELSE Orphaned(T)[c]]
        /\ UNCHANGED <<queues, groups, serial>>
    BY <1>3 DEF Remove
  <2>2. D \in SUBSET Msg
    OBVIOUS
  <2>3. Deleted(T) \in [Msg -> Row]
    BY BlankType, StatesAreStates DEF Deleted, TypeOK
  <2>4. Orphaned(T) \in [Msg -> DepStatus]
    BY DEF Orphaned, TypeOK, DepStatus
  <2> HIDE DEF T, D, res
  <2>5. \A p \in Msg : Heard(Deleted(T)[p], D \cap Children(p), res) \in Row
    BY <2>2, <2>3, HeardType
  <2>6. deps' \in [Msg -> DepStatus]
    BY <2>1, <2>4 DEF DepStatus
  <2> QED
    BY <2>1, <2>5, <2>6 DEF TypeOK
<1>4. ASSUME NEW S \in SUBSET Msg, Retry(S) PROVE TypeOK'
  <2>1. \A m \in Msg : [messages[m] EXCEPT !.state = "ready", !.attempts = 0,
                          !.cancel = FALSE, !.childFailed = FALSE] \in Row
    BY StatesAreStates DEF TypeOK, Row
  <2>2. messages' \in [Msg -> Row]
    BY <1>4, <2>1 DEF Retry, TypeOK
  <2>3. deps' \in [Msg -> DepStatus]
    BY <1>4 DEF Retry, TypeOK, DepStatus
  <2> QED
    BY <1>4, <2>2, <2>3 DEF Retry, TypeOK
<1>5. ASSUME NEW S \in SUBSET Msg, Purge(S) PROVE TypeOK'
  <2>1. Deleted(S) \in [Msg -> Row]
    BY BlankType, StatesAreStates DEF Deleted, TypeOK
  <2>2. Orphaned(S) \in [Msg -> DepStatus]
    BY DEF Orphaned, TypeOK, DepStatus
  <2> QED
    BY <1>5, <2>1, <2>2 DEF Purge, TypeOK
<1>6. ASSUME NEW q \in Queue, NEW b \in BOOLEAN, SetPaused(q, b) PROVE TypeOK'
  <2>1. queues \in [Queue -> QueueRow]
    BY DEF TypeOK, QueueRow
  <2>2. [queues[q] EXCEPT !.paused = b] \in QueueRow
    BY <2>1 DEF QueueRow
  <2>3. queues' \in [Queue -> QueueRow]
    BY <1>6, <2>1, <2>2 DEF SetPaused
  <2> QED
    BY <1>6, <2>3 DEF SetPaused, TypeOK, QueueRow
<1>7. ASSUME NEW q \in Queue, NEW cap \in QueueCaps, UpsertQueue(q, cap) PROVE TypeOK'
  <2> DEFINE limited == queues[q].limited /\ q \in Rated
             row     == [queues[q] EXCEPT !.concurrency = cap, !.limited = limited]
  <2>1. queues \in [Queue -> QueueRow]
    BY DEF TypeOK, QueueRow
  <2>2. limited \in BOOLEAN
    BY Zenon
  <2>3. queues' = [queues EXCEPT ![q] = row]
    BY <1>7, <2>1 DEF UpsertQueue
  <2>4. row \in QueueRow
    <3> HIDE DEF limited
    <3> QED
      BY <2>1, <2>2 DEF QueueRow
  <2> HIDE DEF row
  <2>5. queues' \in [Queue -> QueueRow]
    BY <2>1, <2>3, <2>4
  <2> QED
    BY <1>7, <2>5 DEF UpsertQueue, TypeOK, QueueRow
<1>8. ASSUME NEW g \in Group, NEW b \in BOOLEAN, NEW cap \in GroupCaps, SetGroup(g, b, cap)
      PROVE  TypeOK'
  <2>1. groups \in [Group -> GroupRow]
    BY DEF TypeOK, GroupRow
  <2>2. [groups[g] EXCEPT !.paused = b, !.concurrency = cap] \in GroupRow
    BY <2>1 DEF GroupRow
  <2>3. groups' \in [Group -> GroupRow]
    BY <1>8, <2>1, <2>2 DEF SetGroup
  <2> QED
    BY <1>8, <2>3 DEF SetGroup, TypeOK, GroupRow
<1> QED
  BY <1>1, <1>2, <1>3, <1>4, <1>5, <1>6, <1>7, <1>8 DEF Admin

LEMMA ClaimsType ==
    ASSUME TypeOK, Claims
    PROVE  TypeOK'
<1> PICK q \in Queue, S \in SUBSET Msg, limited \in Limited, spent \in BOOLEAN :
       Claim(q, S, limited, spent) \/ ClaimGroups(q, S, limited, spent)
  BY DEF Claims
<1>1. limited \in BOOLEAN
  BY LimitsAssumption
<1>2. CASE Claim(q, S, limited, spent)
  <2>1. ClaimCommon(q, S, limited, spent) /\ groups' = groups
    BY <1>2 DEF Claim
  <2>2. /\ messages' \in [Msg -> Row] /\ queues' \in [Queue -> QueueRow]
        /\ deps' \in [Msg -> DepStatus] /\ serial' \in [Msg -> Nat]
    BY <1>1, <2>1, ClaimType, Zenon
  <2> QED
    BY <2>1, <2>2 DEF TypeOK
<1>3. CASE ClaimGroups(q, S, limited, spent)
  <2>1. groups' \in [Group -> GroupRow]
    <3>1. \A g \in Group : Cardinality(S \cap InGroup(g)) \in Nat
      BY CardinalityNat
    <3>2. \A row \in GroupRow, n \in Nat : [row EXCEPT !.active = @ + n] \in GroupRow
      BY DEF GroupRow
    <3> QED
      BY <1>3, <3>1, <3>2 DEF ClaimGroups, TypeOK, GroupRow
  <2>2. ClaimCommon(q, S, limited, spent)
    BY <1>3 DEF ClaimGroups
  <2>3. /\ messages' \in [Msg -> Row] /\ queues' \in [Queue -> QueueRow]
        /\ deps' \in [Msg -> DepStatus] /\ serial' \in [Msg -> Nat]
    BY <1>1, <2>2, ClaimType, Zenon
  <2> QED
    BY <2>1, <2>3 DEF TypeOK
<1> QED
  BY <1>2, <1>3

LEMMA ClockType ==
    ASSUME TypeOK
    PROVE  /\ \A m \in Msg : Lapse(m) => TypeOK'
           /\ \A q \in Queue : LimitEnds(q) => TypeOK'
           /\ \A H : Extend(H) => TypeOK'
<1>1. \A m \in Msg : /\ [messages[m] EXCEPT !.lapsed = TRUE] \in Row
                     /\ [messages[m] EXCEPT !.lapsed = FALSE] \in Row
  BY DEF TypeOK, Row
<1>2. queues \in [Queue -> QueueRow]
  BY DEF TypeOK, QueueRow
<1>3. \A q \in Queue : [queues[q] EXCEPT !.limited = FALSE] \in QueueRow
  BY <1>2 DEF QueueRow
<1>4. ASSUME NEW m \in Msg, Lapse(m) PROVE TypeOK'
  BY <1>1, <1>4 DEF Lapse, TypeOK
<1>5. ASSUME NEW q \in Queue, LimitEnds(q) PROVE TypeOK'
  <2>1. queues' \in [Queue -> QueueRow]
    BY <1>2, <1>3, <1>5 DEF LimitEnds
  <2> QED
    BY <1>5, <2>1 DEF LimitEnds, TypeOK, QueueRow
<1>6. ASSUME NEW H, Extend(H) PROVE TypeOK'
  BY <1>1, <1>6 DEF Extend, TypeOK
<1> QED
  BY <1>4, <1>5, <1>6

LEMMA InitType == ASSUME Init PROVE TypeOK
<1>1. messages \in [Msg -> Row]
  BY BlankType, StatesAreStates DEF Init
<1>2. queues \in [Queue -> QueueRow] /\ groups \in [Group -> GroupRow]
  BY DEF Init, QueueRow, GroupRow
<1> QED
  BY <1>1, <1>2 DEF Init, TypeOK, DepStatus

LEMMA TypeStep == ASSUME TypeOK, [Next]_vars PROVE TypeOK'
<1>1. CASE \E r \in Msg, D \in SUBSET Msg : Send(r, D)
  BY <1>1, SendType
<1>2. CASE \E c \in Msg, tok \in 1..MaxClaims, to \in Live : Spawn(c, tok, to)
  BY <1>2, SpawnType
<1>3. CASE \E S \in SUBSET Msg : Promote(S)
  BY <1>3, PromoteType
<1>4. CASE Claims
  BY <1>4, ClaimsType
<1>5. CASE \E m \in Msg, tok \in 1..MaxClaims : Settle(m, tok)
  BY <1>5, SettleType
<1>6. CASE \E S \in SUBSET Active : Extend({<<m, messages[m].token>> : m \in S})
  BY <1>6, ClockType
<1>7. CASE \E q \in Queue, S \in SUBSET Msg : Expire(q, S)
  BY <1>7, ExpireType
<1>8. CASE \E m \in Msg : FinishExpired(m)
  BY <1>8, FinishType DEF FinishExpired, Terminal
<1>9. CASE Admin
  BY <1>9, AdminType
<1>10. CASE \E m \in Msg : Lapse(m)
  BY <1>10, ClockType
<1>11. CASE \E q \in Queue : LimitEnds(q)
  BY <1>11, ClockType
<1>12. CASE UNCHANGED vars
  BY <1>12 DEF vars, TypeOK
<1> QED
  BY <1>1, <1>2, <1>3, <1>4, <1>5, <1>6, <1>7, <1>8, <1>9, <1>10, <1>11, <1>12 DEF Next

\* The tables keep their types, for any messages, queues, groups and limits.
THEOREM TypeCorrect == Spec => []TypeOK
<1>1. Init => TypeOK
  BY InitType
<1>2. TypeOK /\ [Next]_vars => TypeOK'
  BY TypeStep
<1> QED
  BY <1>1, <1>2, PTL DEF Spec

-----------------------------------------------------------------------------
\* The accounts of the tables: tokens fence, and the counters of groups and
\* queues are exact.  Every statement either leaves a set S of messages out of
\* active and takes it off the counters, or claims one.

Accounting == TokenFencing /\ GroupCountersMatch /\ QueueCountersMatch

\* m stays with its owner, or nobody owns m after the step.
Kept(m) == /\ Is(m, "active") /\ messages'[m].state = "active"
           /\ messages'[m].token = messages[m].token
           /\ messages'[m].counted = messages[m].counted
           /\ messages[m].cancel => messages'[m].cancel
Idle(m) == messages'[m].state # "active" /\ messages'[m].token = NoToken

\* No message is claimed, and the flag of cancel() stays with who owns it.
Quiet == /\ serial' = serial
         /\ Active' \subseteq Active
         /\ \A m \in Active' : messages[m].cancel => messages'[m].cancel

\* The active messages in S leave active, and their counters follow.
Leaves(S) ==
    /\ \A m \in Active \ S : Kept(m)
    /\ \A m \in S \cup (Msg \ Active) : Idle(m)
    /\ \A g \in Group : groups'[g].active =
          groups[g].active - Cardinality(S \cap Active \cap InGroup(g))
    /\ \A q \in Queue : queues'[q].active =
          queues[q].active - Cardinality(S \cap Counted \cap In(q))
    /\ serial' = serial

LEMMA DifferenceCount ==
    ASSUME NEW A \in SUBSET Msg, NEW S \in SUBSET Msg, NEW T \in SUBSET Msg
    PROVE  Cardinality((A \ S) \cap T) = Cardinality(A \cap T) - Cardinality(S \cap A \cap T)
<1> DEFINE X == A \cap T
           Y == S \cap A \cap T
<1>1. IsFiniteSet(X) /\ IsFiniteSet(Y)
  BY CardinalityNat
<1>2. (A \ S) \cap T = X \ Y /\ X \cap Y = Y
  OBVIOUS
<1> HIDE DEF X, Y
<1>3. Cardinality(X \ Y) = Cardinality(X) - Cardinality(X \cap Y)
  BY <1>1, FS_Difference
<1>4. Cardinality((A \ S) \cap T) = Cardinality(X) - Cardinality(Y)
  BY <1>2, <1>3, Zenon
<1> QED
  BY <1>4 DEF X, Y

Apart(A, S) == \A m \in S : m \notin A
NumIn(A, T) == Cardinality(A \cap T)

LEMMA UnionCount ==
    ASSUME NEW A \in SUBSET Msg, NEW S \in SUBSET Msg, NEW T \in SUBSET Msg, Apart(A, S)
    PROVE  NumIn(A \cup S, T) = NumIn(A, T) + NumIn(S, T)
<1> DEFINE X == A \cap T
           Y == S \cap T
<1>1. /\ IsFiniteSet(X) /\ IsFiniteSet(Y)
      /\ Cardinality(X) \in Nat /\ Cardinality(Y) \in Nat
  BY CardinalityNat
<1>2. (A \cup S) \cap T = X \cup Y /\ X \cap Y = {}
  BY DEF Apart
<1> HIDE DEF X, Y
<1>3. Cardinality(X \cup Y) = Cardinality(X) + Cardinality(Y) - Cardinality({})
  BY <1>1, <1>2, FS_Union
<1>4. Cardinality(X \cup Y) = Cardinality(X) + Cardinality(Y)
  BY <1>1, <1>3, FS_EmptySet
<1>5. Cardinality((A \cup S) \cap T) = Cardinality(X) + Cardinality(Y)
  BY <1>2, <1>4, Zenon
<1> QED
  BY <1>5 DEF X, Y, NumIn

\* A step that takes a set out of active keeps the accounts.
LEMMA LeavesKeeps ==
    ASSUME TypeOK, Accounting, NEW S \in SUBSET Msg, Leaves(S)
    PROVE  Accounting' /\ Quiet
<1>1. Active' = Active \ S
  BY DEF Leaves, Kept, Idle, Active, Is
<1>2. Counted' = Counted \ S
  BY <1>1 DEF Leaves, Kept, Counted
<1>3. TokenFencing'
  <2> SUFFICES ASSUME NEW m \in Msg
               PROVE  /\ messages'[m].token # NoToken <=> m \in Active'
                      /\ messages'[m].token # NoToken => messages'[m].token = serial'[m]
    BY DEF TokenFencing
  <2>1. CASE m \in Active \ S
    BY <1>1, <2>1 DEF Leaves, Kept, Accounting, TokenFencing
  <2>2. CASE m \in S \cup (Msg \ Active)
    BY <1>1, <2>2 DEF Leaves, Idle
  <2> QED
    BY <2>1, <2>2
<1>4. GroupCountersMatch'
  <2> SUFFICES ASSUME NEW g \in Group
               PROVE  groups'[g].active = Cardinality(Active' \cap InGroup(g))
    BY DEF GroupCountersMatch, InGroup
  <2>1. Active \in SUBSET Msg /\ InGroup(g) \in SUBSET Msg
    BY DEF Active, InGroup
  <2>2. groups[g].active = Cardinality(Active \cap InGroup(g))
    BY DEF Accounting, GroupCountersMatch
  <2>3. Cardinality((Active \ S) \cap InGroup(g)) =
           Cardinality(Active \cap InGroup(g)) - Cardinality(S \cap Active \cap InGroup(g))
    BY <2>1, DifferenceCount
  <2>4. groups'[g].active = groups[g].active - Cardinality(S \cap Active \cap InGroup(g))
    BY DEF Leaves
  <2> QED
    BY <1>1, <2>2, <2>3, <2>4, Zenon
<1>5. QueueCountersMatch'
  <2> SUFFICES ASSUME NEW q \in Queue
               PROVE  queues'[q].active = Cardinality(Counted' \cap In(q))
    BY DEF QueueCountersMatch, In
  <2>1. Counted \in SUBSET Msg /\ In(q) \in SUBSET Msg
    BY DEF Counted, Active, In
  <2>2. queues[q].active = Cardinality(Counted \cap In(q))
    BY DEF Accounting, QueueCountersMatch
  <2>3. Cardinality((Counted \ S) \cap In(q)) =
           Cardinality(Counted \cap In(q)) - Cardinality(S \cap Counted \cap In(q))
    BY <2>1, DifferenceCount
  <2>4. queues'[q].active = queues[q].active - Cardinality(S \cap Counted \cap In(q))
    BY DEF Leaves
  <2> QED
    BY <1>2, <2>2, <2>3, <2>4, Zenon
<1>6. Quiet
  BY <1>1 DEF Quiet, Leaves, Kept, Active
<1> QED
  BY <1>3, <1>4, <1>5, <1>6 DEF Accounting

\* A step that counts nothing and takes nothing out of active.
LEMMA StaysKeeps ==
    ASSUME TypeOK, Accounting, serial' = serial,
           \A m \in Active : Kept(m),
           \A m \in Msg \ Active : Idle(m),
           \A g \in Group : groups'[g].active = groups[g].active,
           \A q \in Queue : queues'[q].active = queues[q].active
    PROVE  Accounting' /\ Quiet
<1>1. Leaves({})
  <2>1. \A g \in Group : Cardinality({} \cap Active \cap InGroup(g)) = 0
    BY FS_EmptySet
  <2>2. \A q \in Queue : Cardinality({} \cap Counted \cap In(q)) = 0
    BY FS_EmptySet
  <2>3. /\ \A g \in Group : groups[g].active \in Int
        /\ \A q \in Queue : queues[q].active \in Int
    BY DEF TypeOK, GroupRow, QueueRow
  <2> QED
    BY <2>1, <2>2, <2>3 DEF Leaves
<1> QED
  BY <1>1, LeavesKeeps

\* A message that nobody owned and whose token did not change.
LEMMA StillIdle ==
    ASSUME Accounting, NEW m \in Msg \ Active,
           messages'[m].state # "active", messages'[m].token = messages[m].token
    PROVE  Idle(m)
BY DEF Accounting, TokenFencing, Idle

-----------------------------------------------------------------------------
(* Settles.                                                                 *)

LEMMA UncountCounts ==
    ASSUME TypeOK, NEW S, Uncount(S)
    PROVE  /\ \A g \in Group : groups'[g].active =
                 groups[g].active - Cardinality(S \cap Active \cap InGroup(g))
           /\ \A q \in Queue : queues'[q].active =
                 queues[q].active - Cardinality(S \cap Counted \cap In(q))
BY DEF Uncount, TypeOK, GroupRow, QueueRow

\* What a resolving child does not touch in its parent.
LEMMA HeardKeeps ==
    ASSUME NEW row \in Row, NEW D, NEW res
    PROVE  /\ Heard(row, D, res).state = "active" <=> row.state = "active"
           /\ Heard(row, D, res).token = row.token
           /\ Heard(row, D, res).counted = row.counted
           /\ Heard(row, D, res).cancel = row.cancel
BY DEF Heard, Row

\* Finishing m takes m out of active, and nobody else: its failure reaches
\* blocked parents only.
LEMMA FinishLeaves ==
    ASSUME TypeOK, Accounting, NEW m \in Msg, NEW to \in Terminal, Finish(m, to)
    PROVE  Leaves({m})
<1> DEFINE F    == IF to = "completed" THEN {} ELSE CascadeOf(m)
           del  == to = "completed" /\ queueOf[m] \notin KeepCompleted
           done == {m} \cup F
           res  == [x \in Msg |-> Resolution(x, IF x = m THEN to ELSE "failed")]
           D    == {x \in done : deps[x] = "pending"}
           heard(p) == Heard(messages[p], D \cap Children(p), res)
<1>1. messages' = [p \in Msg |->
             IF p = m /\ del THEN Blank("gone")
             ELSE IF p \in done THEN Finished(heard(p), IF p = m THEN to ELSE "failed")
             ELSE heard(p)]
  BY DEF Finish
<1>2. \A p \in Msg : /\ heard(p) \in Row
                     /\ heard(p).state = "active" <=> Is(p, "active")
                     /\ heard(p).token = messages[p].token
                     /\ heard(p).counted = messages[p].counted
                     /\ heard(p).cancel = messages[p].cancel
  <2> SUFFICES ASSUME NEW p \in Msg
               PROVE  /\ heard(p) \in Row
                      /\ heard(p).state = "active" <=> Is(p, "active")
                      /\ heard(p).token = messages[p].token
                      /\ heard(p).counted = messages[p].counted
                      /\ heard(p).cancel = messages[p].cancel
    OBVIOUS
  <2>1. messages[p] \in Row /\ D \cap Children(p) \in SUBSET Msg
    BY DEF TypeOK, Children
  <2> HIDE DEF D, res
  <2> QED
    BY <2>1, HeardType, HeardKeeps DEF Is
<1>3. \A p \in F : p \in Msg \ Active
  BY DEF CascadeOf, Is, Active
<1> HIDE DEF F, del, res, D, heard
<1>4. \A row \in Row, s \in Terminal :
         Finished(row, s).state # "active" /\ Finished(row, s).token = NoToken
  BY DEF Finished, Row, Terminal
<1>5. \A p \in Active \ {m} : Kept(p)
  <2> SUFFICES ASSUME NEW p \in Active \ {m} PROVE Kept(p)
    OBVIOUS
  <2>1. p \in Msg /\ Is(p, "active")
    BY DEF Active
  <2>2. messages'[p] = heard(p)
    BY <1>1, <1>3, <2>1
  <2> QED
    BY <1>2, <2>1, <2>2 DEF Kept
<1>6. \A p \in {m} \cup (Msg \ Active) : Idle(p)
  <2> SUFFICES ASSUME NEW p \in {m} \cup (Msg \ Active) PROVE Idle(p)
    OBVIOUS
  <2>1. p \in Msg
    OBVIOUS
  <2>2. CASE p = m /\ del
    BY <1>1, <2>1, <2>2 DEF Idle, Blank
  <2>3. CASE p \in done /\ ~(p = m /\ del)
    <3>1. messages'[p] = Finished(heard(p), IF p = m THEN to ELSE "failed")
      BY <1>1, <2>1, <2>3
    <3>2. (IF p = m THEN to ELSE "failed") \in Terminal
      BY DEF Terminal
    <3> QED
      BY <1>2, <1>4, <2>1, <3>1, <3>2 DEF Idle
  <2>4. CASE p \notin done
    <3>1. messages'[p] = heard(p) /\ p \in Msg \ Active
      BY <1>1, <2>1, <2>4
    <3>2. messages'[p].state # "active" /\ messages'[p].token = messages[p].token
      BY <1>2, <3>1 DEF Active
    <3> QED
      BY <3>1, <3>2, StillIdle
  <2> QED
    BY <2>2, <2>3, <2>4
<1>7. Uncount({m}) /\ serial' = serial
  BY DEF Finish
<1> QED
  BY <1>5, <1>6, <1>7, UncountCounts DEF Leaves

\* So does an owner who moves it.
LEMMA MoveRows ==
    ASSUME TypeOK, Accounting, NEW m \in Msg, NEW tok, NEW to \in MsgState \ {"active"},
           NEW counts, Move(m, tok, to, counts)
    PROVE  /\ \A p \in Active \ {m} : Kept(p)
           /\ \A p \in {m} \cup (Msg \ Active) : Idle(p)
           /\ serial' = serial
<1>1. /\ messages'[m].state = to /\ messages'[m].token = NoToken
      /\ \A p \in Msg \ {m} : messages'[p] = messages[p]
      /\ serial' = serial
  BY DEF Move, TypeOK, Row
<1>2. \A p \in Active \ {m} : Kept(p)
  BY <1>1 DEF Kept, Active, Is
<1>3. \A p \in {m} \cup (Msg \ Active) : Idle(p)
  BY <1>1, StillIdle DEF Idle, Active, Is
<1> QED
  BY <1>1, <1>2, <1>3

LEMMA MoveLeaves ==
    ASSUME TypeOK, Accounting, NEW m \in Msg, NEW tok, NEW to \in MsgState \ {"active"},
           NEW counts, Move(m, tok, to, counts), Uncount({m})
    PROVE  Leaves({m})
BY MoveRows, UncountCounts DEF Leaves

\* ctx.rateLimit writes the counters of the row together with limited_until.
LEMMA MoveLimitLeaves ==
    ASSUME TypeOK, Accounting, NEW m \in Msg, NEW tok, MoveLimit(m, tok)
    PROVE  Leaves({m})
<1>1. /\ \A p \in Active \ {m} : Kept(p)
      /\ \A p \in {m} \cup (Msg \ Active) : Idle(p)
      /\ serial' = serial
  <2>1. Move(m, tok, "ready", FALSE) /\ "ready" \in MsgState \ {"active"}
    BY StatesAreStates DEF MoveLimit
  <2> QED
    BY <2>1, MoveRows, Zenon
<1>2. m \in Active
  BY DEF MoveLimit, Move, Holds, Active
<1>3. \A g \in Group : groups'[g].active =
         groups[g].active - Cardinality({m} \cap Active \cap InGroup(g))
  <2>1. \A g \in Group : {m} \cap InGroup(g) = {m} \cap Active \cap InGroup(g)
    BY <1>2
  <2>2. \A g \in Group : groups'[g].active =
           groups[g].active - Cardinality({m} \cap InGroup(g))
    BY DEF MoveLimit, TypeOK, GroupRow
  <2> QED
    BY <2>1, <2>2, Zenon
<1>4. \A q \in Queue : queues'[q].active =
         queues[q].active - Cardinality({m} \cap Counted \cap In(q))
  <2> SUFFICES ASSUME NEW q \in Queue
               PROVE  queues'[q].active =
                         queues[q].active - Cardinality({m} \cap Counted \cap In(q))
    OBVIOUS
  <2>1. queues[q].active \in Int
    BY DEF TypeOK, QueueRow
  <2>2. queues'[q].active = IF q = queueOf[m] /\ messages[m].counted
                            THEN queues[q].active - 1 ELSE queues[q].active
    BY <2>1 DEF MoveLimit, TypeOK, QueueRow
  <2>3. CASE q = queueOf[m] /\ messages[m].counted
    <3>1. {m} \cap Counted \cap In(q) = {m}
      BY <1>2, <2>3 DEF Counted, In
    <3>2. Cardinality({m} \cap Counted \cap In(q)) = 1
      BY <3>1, FS_Singleton, Zenon
    <3> QED
      BY <2>2, <2>3, <3>2
  <2>4. CASE ~(q = queueOf[m] /\ messages[m].counted)
    <3>1. {m} \cap Counted \cap In(q) = {}
      BY <2>4 DEF Counted, In
    <3>2. Cardinality({m} \cap Counted \cap In(q)) = 0
      BY <3>1, FS_EmptySet, Zenon
    <3> QED
      BY <2>1, <2>2, <2>4, <3>2
  <2> QED
    BY <2>3, <2>4
<1> QED
  BY <1>1, <1>3, <1>4 DEF Leaves

LEMMA SettleLeaves ==
    ASSUME TypeOK, Accounting, NEW m \in Msg, NEW tok, Settle(m, tok)
    PROVE  Leaves({m})
<1>0. {"ready", "delayed", "blocked"} \subseteq MsgState \ {"active"}
  BY StatesAreStates
<1>1. CASE \E to \in Terminal : FinishByToken(m, tok, to)
  BY <1>1, FinishLeaves DEF FinishByToken
<1>2. CASE FinishFlagged(m, tok)
  BY <1>2, FinishLeaves DEF FinishFlagged, Terminal
<1>3. CASE \E to \in {"ready", "delayed"} : MoveRetry(m, tok, to)
  BY <1>0, <1>3, MoveLeaves DEF MoveRetry
<1>4. CASE MoveDefer(m, tok)
  BY <1>0, <1>4, MoveLeaves DEF MoveDefer
<1>5. CASE MoveRelease(m, tok)
  BY <1>0, <1>5, MoveLeaves DEF MoveRelease
<1>6. CASE MoveLimit(m, tok)
  BY <1>6, MoveLimitLeaves
<1>7. CASE MoveWait(m, tok)
  BY <1>0, <1>7, MoveLeaves DEF MoveWait
<1> QED
  BY <1>1, <1>2, <1>3, <1>4, <1>5, <1>6, <1>7 DEF Settle

\* The expiry scan takes the expired leases.
LEMMA ExpireKeeps ==
    ASSUME TypeOK, Accounting, NEW q \in Queue, NEW S \in SUBSET Msg, Expire(q, S)
    PROVE  Accounting' /\ Quiet
<1>1. /\ \A p \in S : messages'[p].state = "delayed" /\ messages'[p].token = NoToken
      /\ \A p \in Msg \ S : messages'[p] = messages[p]
      /\ serial' = serial /\ Uncount(S)
  BY DEF Expire, TypeOK, Row
<1>2. \A p \in Active \ S : Kept(p)
  BY <1>1 DEF Kept, Active, Is
<1>3. \A p \in S \cup (Msg \ Active) : Idle(p)
  BY <1>1, StillIdle DEF Idle, Active, Is
<1>4. Leaves(S)
  BY <1>1, <1>2, <1>3, UncountCounts DEF Leaves
<1> QED
  BY <1>4, LeavesKeeps

-----------------------------------------------------------------------------
(* Claims.                                                                  *)

\* What a step does to the owners of messages: only a claim makes one active,
\* with the next token, and the flag of cancel() stays with the owner it is for.
Owners == \A m \in Msg :
    /\ \/ serial'[m] = serial[m]
       \/ serial'[m] = serial[m] + 1 /\ serial[m] < MaxClaims /\ m \notin Active
    /\ m \in Active' /\ m \notin Active => serial'[m] = serial[m] + 1
    /\ m \in Active' /\ m \in Active /\ messages[m].cancel => messages'[m].cancel

LEMMA QuietOwners == ASSUME Quiet PROVE Owners
BY DEF Quiet, Owners

LEMMA CountedUnion ==
    ASSUME NEW U \in SUBSET Msg, \A m \in U : m \notin Counted, NEW q \in Queue
    PROVE  Cardinality((Counted \cup U) \cap In(q)) =
              Cardinality(Counted \cap In(q)) + Cardinality(U \cap In(q))
<1>1. Counted \in SUBSET Msg /\ In(q) \in SUBSET Msg
  BY DEF Counted, Active, In
<1>2. Apart(Counted, U)
  BY DEF Apart
<1>3. NumIn(Counted \cup U, In(q)) = NumIn(Counted, In(q)) + NumIn(U, In(q))
  BY <1>1, <1>2, UnionCount
<1> QED
  BY <1>3 DEF NumIn

\* What a claim of S does to the rows and to the queue that counts them.
LEMMA ClaimRows ==
    ASSUME TypeOK, Accounting, NEW q \in Queue, NEW S \in SUBSET Msg,
           NEW limited \in BOOLEAN, NEW spent, ClaimCommon(q, S, limited, spent)
    PROVE  /\ S \cap Active = {} /\ Active' = Active \cup S
           /\ TokenFencing' /\ QueueCountersMatch'
           /\ \A m \in S : serial'[m] = serial[m] + 1 /\ serial[m] < MaxClaims
           /\ \A m \in Msg \ S : messages'[m] = messages[m] /\ serial'[m] = serial[m]
<1> DEFINE isCounted == limited /\ queues[q].concurrency # None
           T == IF isCounted THEN S ELSE {}
<1>1. S \cap Active = {} /\ S \subseteq In(q)
  BY DEF ClaimCommon, Active, Is
<1>2. \A m \in S : /\ messages'[m].state = "active"
                   /\ messages'[m].token = serial[m] + 1
                   /\ messages'[m].counted = isCounted
                   /\ serial'[m] = serial[m] + 1
  <2>1. \A m \in S : messages[m] \in Row
    BY DEF TypeOK
  <2> HIDE DEF isCounted
  <2>2. \A m \in S : messages'[m] =
           [messages[m] EXCEPT !.state = "active", !.token = serial[m] + 1,
                               !.lapsed = FALSE, !.counted = isCounted]
    BY Zenon DEF ClaimCommon, Take, isCounted
  <2> QED
    BY <2>1, <2>2 DEF ClaimCommon, Row
<1>3. \A m \in Msg \ S : messages'[m] = messages[m] /\ serial'[m] = serial[m]
  BY DEF ClaimCommon, Take
<1>4. Active' = Active \cup S
  BY <1>2, <1>3 DEF Active, Is
<1>5. Counted' = Counted \cup T
  <2>1. \A m \in S : m \in Counted' <=> isCounted
    BY <1>2, <1>4, Zenon DEF Counted
  <2>2. \A m \in S : m \in T <=> isCounted
    BY Zenon
  <2>3. \A m \in Msg \ S : m \in Counted' <=> m \in Counted
    BY <1>3, <1>4 DEF Counted, Active
  <2>4. Counted \in SUBSET (Msg \ S) /\ T \in SUBSET S /\ Counted' \in SUBSET Msg
    BY <1>1 DEF Counted, Active
  <2> HIDE DEF isCounted, T
  <2> QED
    BY <2>1, <2>2, <2>3, <2>4
<1>6. TokenFencing'
  <2> SUFFICES ASSUME NEW m \in Msg
               PROVE  /\ messages'[m].token # NoToken <=> m \in Active'
                      /\ messages'[m].token # NoToken => messages'[m].token = serial'[m]
    BY DEF TokenFencing
  <2>1. serial[m] \in Nat
    BY DEF TypeOK
  <2>2. CASE m \in S
    BY <1>2, <1>4, <2>1, <2>2 DEF NoToken
  <2>3. CASE m \notin S
    BY <1>3, <1>4, <2>3 DEF Accounting, TokenFencing
  <2> QED
    BY <2>2, <2>3
<1>7. QueueCountersMatch'
  <2> SUFFICES ASSUME NEW k \in Queue
               PROVE  queues'[k].active = Cardinality(Counted' \cap In(k))
    BY DEF QueueCountersMatch, In
  <2>1. /\ Counted \in SUBSET Msg /\ In(k) \in SUBSET Msg /\ T \in SUBSET Msg
        /\ \A m \in T : m \notin Counted
    BY <1>1 DEF Counted, Active, In
  <2>2. queues[k].active = Cardinality(Counted \cap In(k)) /\ queues[k].active \in Int
    BY DEF Accounting, QueueCountersMatch, TypeOK, QueueRow
  <2>3. Cardinality(Counted' \cap In(k)) =
           Cardinality(Counted \cap In(k)) + Cardinality(T \cap In(k))
    <3> HIDE DEF isCounted, T
    <3>1. Cardinality((Counted \cup T) \cap In(k)) =
             Cardinality(Counted \cap In(k)) + Cardinality(T \cap In(k))
      BY <2>1, CountedUnion
    <3> QED
      BY <1>5, <3>1, Zenon
  <2>4. Cardinality(S) \in Nat
    BY CardinalityNat
  <2>5. queues'[k].active = queues[k].active
                            + (IF k = q /\ isCounted THEN Cardinality(S) ELSE 0)
    <3>1. QueueBump(q, Cardinality(S), limited, spent)
      BY DEF ClaimCommon
    <3> QED
      BY <2>2, <2>4, <3>1 DEF QueueBump, TypeOK, QueueRow
  <2>6. CASE k = q /\ isCounted
    <3>1. T \cap In(k) = S
      BY <1>1, <2>6
    <3>2. Cardinality(T \cap In(k)) = Cardinality(S)
      BY <3>1, Zenon
    <3> QED
      BY <2>2, <2>3, <2>5, <2>6, <3>2
  <2>7. CASE ~(k = q /\ isCounted)
    <3>1. T \cap In(k) = {}
      BY <1>1, <2>7 DEF In
    <3>2. Cardinality(T \cap In(k)) = 0
      BY <3>1, FS_EmptySet, Zenon
    <3>3. queues'[k].active = queues[k].active
      BY <2>2, <2>5, <2>7
    <3> QED
      BY <2>2, <2>3, <3>2, <3>3
  <2> QED
    BY <2>6, <2>7
<1>8. \A m \in S : serial[m] < MaxClaims
  BY DEF ClaimCommon
<1> QED
  BY <1>1, <1>2, <1>3, <1>4, <1>6, <1>7, <1>8

LEMMA ClaimsKeep ==
    ASSUME TypeOK, Accounting, Claims
    PROVE  Accounting' /\ Owners
<1> PICK q \in Queue, S \in SUBSET Msg, limited \in Limited, spent \in BOOLEAN :
       Claim(q, S, limited, spent) \/ ClaimGroups(q, S, limited, spent)
  BY DEF Claims
<1>1. limited \in BOOLEAN
  BY LimitsAssumption
<1>2. ClaimCommon(q, S, limited, spent)
  BY DEF Claim, ClaimGroups
<1>3. /\ S \cap Active = {} /\ Active' = Active \cup S
      /\ TokenFencing' /\ QueueCountersMatch'
      /\ \A m \in S : serial'[m] = serial[m] + 1 /\ serial[m] < MaxClaims
      /\ \A m \in Msg \ S : messages'[m] = messages[m] /\ serial'[m] = serial[m]
  BY <1>1, <1>2, ClaimRows, Zenon
<1>4. GroupCountersMatch'
  <2> SUFFICES ASSUME NEW g \in Group
               PROVE  groups'[g].active = Cardinality(Active' \cap InGroup(g))
    BY DEF GroupCountersMatch, InGroup
  <2>1. Active \in SUBSET Msg /\ InGroup(g) \in SUBSET Msg /\ Apart(Active, S)
    BY <1>3 DEF Active, InGroup, Apart
  <2>2. groups[g].active = Cardinality(Active \cap InGroup(g)) /\ groups[g].active \in Int
    BY DEF Accounting, GroupCountersMatch, TypeOK, GroupRow
  <2>3. Cardinality((Active \cup S) \cap InGroup(g)) =
           Cardinality(Active \cap InGroup(g)) + Cardinality(S \cap InGroup(g))
    <3>1. NumIn(Active \cup S, InGroup(g)) = NumIn(Active, InGroup(g)) + NumIn(S, InGroup(g))
      BY <2>1, UnionCount
    <3> QED
      BY <3>1 DEF NumIn
  <2>4. Cardinality(S \cap InGroup(g)) \in Nat
    BY CardinalityNat
  <2>5. groups'[g].active = groups[g].active + Cardinality(S \cap InGroup(g))
    <3>1. CASE Claim(q, S, limited, spent)
      <4>1. S \cap InGroup(g) = {}
        BY <3>1, ColumnsAssumption DEF Claim, InGroup
      <4>2. Cardinality(S \cap InGroup(g)) = 0
        BY <4>1, FS_EmptySet, Zenon
      <4> QED
        BY <2>2, <3>1, <4>2 DEF Claim
    <3>2. CASE ClaimGroups(q, S, limited, spent)
      BY <2>2, <2>4, <3>2 DEF ClaimGroups, TypeOK, GroupRow
    <3> QED
      BY <3>1, <3>2
  <2> QED
    BY <1>3, <2>2, <2>3, <2>5, Zenon
<1>5. Owners
  BY <1>3 DEF Owners
<1> QED
  BY <1>3, <1>4, <1>5 DEF Accounting

-----------------------------------------------------------------------------
(* Inserting, administration and the clock.                                 *)

LEMMA InsertsKeep ==
    ASSUME TypeOK, Accounting
    PROVE  /\ \A r, D : Send(r, D) => Accounting' /\ Quiet
           /\ \A c \in Msg : \A tok, to : Spawn(c, tok, to) => Accounting' /\ Quiet
           /\ \A S : Promote(S) => Accounting' /\ Quiet
<1>1. ASSUME NEW r, NEW D, Send(r, D) PROVE Accounting' /\ Quiet
  <2>1. \A m \in Msg : IF m \in FlowOf(r)
                       THEN /\ m \notin Active /\ messages'[m].state # "active"
                            /\ messages'[m].token = NoToken
                       ELSE messages'[m] = messages[m]
    BY <1>1 DEF Send, Blank, Active, Is
  <2>2. \A m \in Active : Kept(m)
    BY <2>1 DEF Kept, Active, Is
  <2>3. \A m \in Msg \ Active : Idle(m)
    BY <2>1, StillIdle DEF Idle, Active, Is
  <2> QED
    BY <1>1, <2>2, <2>3, StaysKeeps DEF Send
<1>2. ASSUME NEW c \in Msg, NEW tok, NEW to, Spawn(c, tok, to) PROVE Accounting' /\ Quiet
  <2>1. /\ c \notin Active /\ messages'[c].state # "active"
        /\ messages'[c].token = NoToken
    BY <1>2 DEF Spawn, Blank, Active, Is
  <2>2. \A m \in Msg \ {c} : /\ messages'[m].state = messages[m].state
                             /\ messages'[m].token = messages[m].token
                             /\ messages'[m].counted = messages[m].counted
                             /\ messages'[m].cancel = messages[m].cancel
    BY <1>2 DEF Spawn, TypeOK, Row
  <2>3. \A m \in Active : Kept(m)
    BY <2>1, <2>2 DEF Kept, Active, Is
  <2>4. \A m \in Msg \ Active : Idle(m)
    BY <2>1, <2>2, StillIdle DEF Idle, Active, Is
  <2> QED
    BY <1>2, <2>3, <2>4, StaysKeeps DEF Spawn
<1>3. ASSUME NEW S, Promote(S) PROVE Accounting' /\ Quiet
  <2>1. \A m \in Msg : IF m \in S
                       THEN /\ m \notin Active /\ messages'[m].state # "active"
                            /\ messages'[m].token = messages[m].token
                       ELSE messages'[m] = messages[m]
    BY <1>3 DEF Promote, TypeOK, Row, Active, Is
  <2>2. \A m \in Active : Kept(m)
    BY <2>1 DEF Kept, Active, Is
  <2>3. \A m \in Msg \ Active : Idle(m)
    BY <2>1, StillIdle DEF Active, Is
  <2> QED
    BY <1>3, <2>2, <2>3, StaysKeeps DEF Promote
<1> QED
  BY <1>1, <1>2, <1>3

LEMMA AdminKeeps ==
    ASSUME TypeOK, Accounting, Admin
    PROVE  Accounting' /\ Quiet
<1>1. ASSUME NEW m \in Msg, FlagCancel(m) PROVE Accounting' /\ Quiet
  <2>1. \A p \in Msg : /\ messages'[p].state = messages[p].state
                       /\ messages'[p].token = messages[p].token
                       /\ messages'[p].counted = messages[p].counted
                       /\ messages[p].cancel => messages'[p].cancel
    BY <1>1 DEF FlagCancel, TypeOK, Row
  <2>2. \A p \in Active : Kept(p)
    BY <2>1 DEF Kept, Active, Is
  <2>3. \A p \in Msg \ Active : Idle(p)
    BY <2>1, StillIdle DEF Active, Is
  <2> QED
    BY <1>1, <2>2, <2>3, StaysKeeps DEF FlagCancel
<1>2. ASSUME NEW m \in Msg, CancelIdle(m) PROVE Accounting' /\ Quiet
  BY <1>2, FinishLeaves, LeavesKeeps DEF CancelIdle, Terminal
<1>3. ASSUME NEW m \in Msg, Remove(m) PROVE Accounting' /\ Quiet
  <2> DEFINE T   == TreeOf(m)
             D   == {x \in {m} : deps[x] \in Unresolved}
             res == [x \in Msg |-> "ignored"]
  <2>1. /\ messages' = [p \in Msg |-> Heard(Deleted(T)[p], D \cap Children(p), res)]
        /\ T \cap Active = {} /\ UNCHANGED <<queues, groups, serial>>
    BY <1>3 DEF Remove
  <2>2. Deleted(T) \in [Msg -> Row]
    BY BlankType, StatesAreStates DEF Deleted, TypeOK
  <2> HIDE DEF T, D, res
  <2>3. \A p \in Msg : /\ messages'[p].state = "active" <=> Deleted(T)[p].state = "active"
                       /\ messages'[p].token = Deleted(T)[p].token
                       /\ messages'[p].counted = Deleted(T)[p].counted
                       /\ messages'[p].cancel = Deleted(T)[p].cancel
    BY <2>1, <2>2, HeardKeeps
  <2>4. \A p \in Msg : Deleted(T)[p] = IF p \in T THEN Blank("gone") ELSE messages[p]
    BY DEF Deleted
  <2>5. \A p \in Active : Kept(p)
    BY <2>1, <2>3, <2>4 DEF Kept, Active, Is
  <2>6. \A p \in Msg \ Active : Idle(p)
    <3> SUFFICES ASSUME NEW p \in Msg \ Active PROVE Idle(p)
      OBVIOUS
    <3>1. CASE p \in T
      BY <2>3, <2>4, <3>1 DEF Idle, Blank
    <3>2. CASE p \notin T
      BY <2>3, <2>4, <3>2, StillIdle DEF Active, Is
    <3> QED
      BY <3>1, <3>2
  <2> QED
    BY <2>1, <2>5, <2>6, StaysKeeps
<1>4. ASSUME NEW S \in SUBSET Msg, Retry(S) PROVE Accounting' /\ Quiet
  <2>1. \A p \in Msg : IF p \in S
                       THEN /\ p \notin Active /\ messages'[p].state # "active"
                            /\ messages'[p].token = messages[p].token
                       ELSE messages'[p] = messages[p]
    BY <1>4 DEF Retry, TypeOK, Row, Active, Is, Terminal
  <2>2. \A p \in Active : Kept(p)
    BY <2>1 DEF Kept, Active, Is
  <2>3. \A p \in Msg \ Active : Idle(p)
    BY <2>1, StillIdle DEF Active, Is
  <2> QED
    BY <1>4, <2>2, <2>3, StaysKeeps DEF Retry
<1>5. ASSUME NEW S \in SUBSET Msg, Purge(S) PROVE Accounting' /\ Quiet
  <2>1. \A p \in Msg : IF p \in S
                       THEN /\ p \notin Active /\ messages'[p].state # "active"
                            /\ messages'[p].token = NoToken
                       ELSE messages'[p] = messages[p]
    BY <1>5, LimitsAssumption DEF Purge, Deleted, Blank, Active, Is
  <2>2. \A p \in Active : Kept(p)
    BY <2>1 DEF Kept, Active, Is
  <2>3. \A p \in Msg \ Active : Idle(p)
    BY <2>1, StillIdle DEF Idle, Active, Is
  <2> QED
    BY <1>5, <2>2, <2>3, StaysKeeps DEF Purge
<1>6. \* Limits and pauses change no message and no counter.
      ASSUME messages' = messages, serial' = serial,
             \A g \in Group : groups'[g].active = groups[g].active,
             \A q \in Queue : queues'[q].active = queues[q].active
      PROVE  Accounting' /\ Quiet
  <2>1. \A p \in Active : Kept(p)
    BY <1>6 DEF Kept, Active, Is
  <2>2. \A p \in Msg \ Active : Idle(p)
    BY <1>6, StillIdle DEF Active, Is
  <2> QED
    BY <1>6, <2>1, <2>2, StaysKeeps
<1>7. ASSUME NEW q \in Queue, NEW b \in BOOLEAN, SetPaused(q, b) PROVE Accounting' /\ Quiet
  BY <1>6, <1>7 DEF SetPaused, TypeOK, QueueRow
<1>8. ASSUME NEW q \in Queue, NEW cap \in QueueCaps, UpsertQueue(q, cap) PROVE Accounting' /\ Quiet
  BY <1>6, <1>8 DEF UpsertQueue, TypeOK, QueueRow
<1>9. ASSUME NEW g \in Group, NEW b \in BOOLEAN, NEW cap \in GroupCaps, SetGroup(g, b, cap)
      PROVE  Accounting' /\ Quiet
  BY <1>6, <1>9 DEF SetGroup, TypeOK, GroupRow
<1> QED
  BY <1>1, <1>2, <1>3, <1>4, <1>5, <1>7, <1>8, <1>9 DEF Admin

LEMMA ClockKeeps ==
    ASSUME TypeOK, Accounting
    PROVE  /\ \A m \in Msg : Lapse(m) => Accounting' /\ Quiet
           /\ \A q \in Queue : LimitEnds(q) => Accounting' /\ Quiet
           /\ \A H : Extend(H) => Accounting' /\ Quiet
<1>1. ASSUME \A p \in Msg : /\ messages'[p].state = messages[p].state
                            /\ messages'[p].token = messages[p].token
                            /\ messages'[p].counted = messages[p].counted
                            /\ messages'[p].cancel = messages[p].cancel,
             serial' = serial,
             \A g \in Group : groups'[g].active = groups[g].active,
             \A q \in Queue : queues'[q].active = queues[q].active
      PROVE  Accounting' /\ Quiet
  <2>1. \A p \in Active : Kept(p)
    BY <1>1 DEF Kept, Active, Is
  <2>2. \A p \in Msg \ Active : Idle(p)
    BY <1>1, StillIdle DEF Active, Is
  <2> QED
    BY <1>1, <2>1, <2>2, StaysKeeps
<1>2. ASSUME NEW m \in Msg, Lapse(m) PROVE Accounting' /\ Quiet
  BY <1>1, <1>2 DEF Lapse, TypeOK, Row
<1>3. ASSUME NEW q \in Queue, LimitEnds(q) PROVE Accounting' /\ Quiet
  BY <1>1, <1>3 DEF LimitEnds, TypeOK, QueueRow
<1>4. ASSUME NEW H, Extend(H) PROVE Accounting' /\ Quiet
  BY <1>1, <1>4 DEF Extend, TypeOK, Row
<1> QED
  BY <1>2, <1>3, <1>4

-----------------------------------------------------------------------------
LEMMA AccountingInit == ASSUME Init PROVE Accounting
<1>1. Active = {} /\ Counted = {}
  BY DEF Init, Active, Counted, Is, Blank
<1>2. TokenFencing
  BY <1>1 DEF Init, TokenFencing, Blank
<1>3. GroupCountersMatch
  <2>1. \A g \in Group : Active \cap InGroup(g) = {}
    BY <1>1
  <2>2. \A g \in Group : Cardinality(Active \cap InGroup(g)) = 0
    BY <2>1, FS_EmptySet, Zenon
  <2>3. \A g \in Group : groups[g].active = 0
    BY DEF Init
  <2> QED
    BY <2>2, <2>3, Zenon DEF GroupCountersMatch
<1>4. QueueCountersMatch
  <2>1. \A q \in Queue : Counted \cap In(q) = {}
    BY <1>1
  <2>2. \A q \in Queue : Cardinality(Counted \cap In(q)) = 0
    BY <2>1, FS_EmptySet, Zenon
  <2>3. \A q \in Queue : queues[q].active = 0
    BY DEF Init
  <2> QED
    BY <2>2, <2>3, Zenon DEF QueueCountersMatch
<1> QED
  BY <1>2, <1>3, <1>4 DEF Accounting

LEMMA AccountingStep ==
    ASSUME TypeOK, Accounting, [Next]_vars
    PROVE  Accounting' /\ Owners
<1>1. CASE \E r \in Msg, D \in SUBSET Msg : Send(r, D)
  BY <1>1, InsertsKeep, QuietOwners
<1>2. CASE \E c \in Msg, tok \in 1..MaxClaims, to \in Live : Spawn(c, tok, to)
  BY <1>2, InsertsKeep, QuietOwners
<1>3. CASE \E S \in SUBSET Msg : Promote(S)
  BY <1>3, InsertsKeep, QuietOwners
<1>4. CASE Claims
  BY <1>4, ClaimsKeep
<1>5. CASE \E m \in Msg, tok \in 1..MaxClaims : Settle(m, tok)
  BY <1>5, SettleLeaves, LeavesKeeps, QuietOwners
<1>6. CASE \E S \in SUBSET Active : Extend({<<m, messages[m].token>> : m \in S})
  BY <1>6, ClockKeeps, QuietOwners
<1>7. CASE \E q \in Queue, S \in SUBSET Msg : Expire(q, S)
  BY <1>7, ExpireKeeps, QuietOwners
<1>8. CASE \E m \in Msg : FinishExpired(m)
  BY <1>8, FinishLeaves, LeavesKeeps, QuietOwners DEF FinishExpired, Terminal
<1>9. CASE Admin
  BY <1>9, AdminKeeps, QuietOwners
<1>10. CASE \E m \in Msg : Lapse(m)
  BY <1>10, ClockKeeps, QuietOwners
<1>11. CASE \E q \in Queue : LimitEnds(q)
  BY <1>11, ClockKeeps, QuietOwners
<1>12. CASE UNCHANGED vars
  BY <1>12, QuietOwners DEF Quiet, vars, Accounting, TokenFencing, GroupCountersMatch,
               QueueCountersMatch, Active, Counted, Is, In, InGroup
<1> QED
  BY <1>1, <1>2, <1>3, <1>4, <1>5, <1>6, <1>7, <1>8, <1>9, <1>10, <1>11, <1>12 DEF Next

\* Tokens fence and counters are exact, whatever the clients do and whatever
\* the limits: no path leaks a counter (sql/settle.ts, sql/claim.ts).
THEOREM AccountingInvariant == Spec => []Accounting
<1>1. Init => Accounting
  BY AccountingInit
<1>2. TypeOK /\ Accounting /\ [Next]_vars => Accounting'
  BY AccountingStep
<1> QED
  BY <1>1, <1>2, TypeCorrect, PTL DEF Spec

\* A message has a token exactly while it is active, and it is the last one
\* handed out: of all the claims of a message one at most can settle it.
THEOREM Fencing == Spec => []TokenFencing
BY AccountingInvariant, PTL DEF Accounting

\* groups.active is exact: a group never blocks on messages that left it and
\* never admits more than its counter says.
THEOREM GroupCounters == Spec => []GroupCountersMatch
BY AccountingInvariant, PTL DEF Accounting

\* queues.active is exact for the messages claimed under global limits.
THEOREM QueueCounters == Spec => []QueueCountersMatch
BY AccountingInvariant, PTL DEF Accounting

-----------------------------------------------------------------------------
(* The trees that parent columns make.                                      *)

\* C goes up from each of its messages.
Climbs(C) == \A y \in C : parentOf[y] # None => parentOf[y] \in C

\* What every such set reaches from m: the ancestors, without recursion.
Above(m) == {x \in Msg : /\ parentOf[m] # None
                         /\ \A C \in SUBSET Msg : Climbs(C) /\ parentOf[m] \in C => x \in C}

LEMMA ParentIsMsg == \A m \in Msg : parentOf[m] # None <=> parentOf[m] \in Msg
BY ColumnsAssumption

LEMMA AboveUnfolds ==
    ASSUME NEW m \in Msg
    PROVE  Above(m) = IF parentOf[m] = None THEN {}
                      ELSE {parentOf[m]} \cup Above(parentOf[m])
<1>1. CASE parentOf[m] = None
  BY <1>1 DEF Above
<1>2. CASE parentOf[m] # None
  <2> DEFINE p == parentOf[m]
  <2>1. p \in Msg
    BY <1>2, ParentIsMsg
  <2>2. Climbs({p} \cup Above(p))
    <3> SUFFICES ASSUME NEW y \in {p} \cup Above(p), parentOf[y] # None
                 PROVE  parentOf[y] \in Above(p)
      BY DEF Climbs
    <3>1. parentOf[y] \in Msg
      BY <2>1, ParentIsMsg DEF Above
    <3>2. parentOf[p] # None
      BY DEF Above
    <3>3. ASSUME NEW C \in SUBSET Msg, Climbs(C), parentOf[p] \in C PROVE parentOf[y] \in C
      <4>1. CASE y = p
        BY <3>3, <4>1
      <4>2. CASE y \in Above(p)
        BY <3>3, <4>2 DEF Above, Climbs
      <4> QED  BY <4>1, <4>2
    <3> QED  BY <3>1, <3>2, <3>3 DEF Above
  <2>3. Above(m) \subseteq {p} \cup Above(p)
    <3>1. {p} \cup Above(p) \in SUBSET Msg
      BY <2>1 DEF Above
    <3>2. \A x \in Above(m), C \in SUBSET Msg : Climbs(C) /\ p \in C => x \in C
      BY DEF Above
    <3> HIDE DEF p
    <3> QED  BY <2>2, <3>1, <3>2
  <2>4. p \in Above(m)
    BY <1>2, <2>1 DEF Above
  <2>5. Above(p) \subseteq Above(m)
    <3> SUFFICES ASSUME NEW x \in Above(p) PROVE x \in Above(m)
      OBVIOUS
    <3>1. x \in Msg /\ parentOf[p] # None
      BY DEF Above
    <3>2. ASSUME NEW C \in SUBSET Msg, Climbs(C), p \in C PROVE x \in C
      <4>1. parentOf[p] \in C
        BY <3>1, <3>2 DEF Climbs
      <4> QED  BY <3>2, <4>1 DEF Above
    <3> QED  BY <1>2, <3>1, <3>2 DEF Above
  <2> QED  BY <1>2, <2>3, <2>4, <2>5
<1> QED  BY <1>1, <1>2

\* The recursive definition has a solution, so it is one.
LEMMA AncestorsUnfold ==
    ASSUME NEW m \in Msg
    PROVE  Ancestors[m] = IF parentOf[m] = None THEN {}
                          ELSE {parentOf[m]} \cup Ancestors[parentOf[m]]
<1> DEFINE Solves(f) == f = [x \in Msg |-> IF parentOf[x] = None THEN {}
                                           ELSE {parentOf[x]} \cup f[parentOf[x]]]
           a == [x \in Msg |-> Above(x)]
<1>1. Solves(a)
  <2>1. \A x \in Msg : Above(x) = IF parentOf[x] = None THEN {}
                                  ELSE {parentOf[x]} \cup a[parentOf[x]]
    BY AboveUnfolds, ParentIsMsg
  <2> QED  BY <2>1
<1>2. Ancestors = CHOOSE f : Solves(f)
  BY DEF Ancestors
<1>3. Solves(Ancestors)
  <2> HIDE DEF Solves
  <2> QED  BY <1>1, <1>2
<1> QED  BY <1>3

\* What holds of a message when it holds of its parent holds of them all.
LEMMA NoLowest ==
    ASSUME NEW S \in SUBSET Msg, \A m \in S : parentOf[m] \in S
    PROVE  S = {}
BY ForestAssumption

LEMMA AncestorsAreMsgs == ASSUME NEW m \in Msg PROVE Ancestors[m] \subseteq Msg
<1> DEFINE S == {x \in Msg : ~(Ancestors[x] \subseteq Msg)}
<1>1. ASSUME NEW x \in S PROVE parentOf[x] \in S
  <2>1. parentOf[x] # None
    BY AncestorsUnfold
  <2>2. parentOf[x] \in Msg
    BY <2>1, ParentIsMsg
  <2> QED  BY <2>1, <2>2, AncestorsUnfold
<1>2. S = {}
  <2>1. S \in SUBSET Msg
    OBVIOUS
  <2> HIDE DEF S
  <2> QED  BY <1>1, <2>1, NoLowest
<1> QED  BY <1>2

\* The ancestors of an ancestor are ancestors.
LEMMA AncestorsClimb ==
    ASSUME NEW m \in Msg, NEW c \in Ancestors[m]
    PROVE  Ancestors[c] \subseteq Ancestors[m]
<1> DEFINE S == {x \in Msg : ~(\A y \in Ancestors[x] : Ancestors[y] \subseteq Ancestors[x])}
<1>1. ASSUME NEW x \in S PROVE parentOf[x] \in S
  <2>1. PICK y \in Ancestors[x] : ~(Ancestors[y] \subseteq Ancestors[x])
    OBVIOUS
  <2>2. parentOf[x] # None
    BY <2>1, AncestorsUnfold
  <2>3. parentOf[x] \in Msg
    BY <2>2, ParentIsMsg
  <2>4. Ancestors[x] = {parentOf[x]} \cup Ancestors[parentOf[x]]
    BY <2>2, AncestorsUnfold
  <2>5. y \in Ancestors[parentOf[x]]
    BY <2>1, <2>4
  <2> QED  BY <2>1, <2>3, <2>4, <2>5
<1>2. S = {}
  <2>1. S \in SUBSET Msg
    OBVIOUS
  <2> HIDE DEF S
  <2> QED  BY <1>1, <2>1, NoLowest
<1> QED  BY <1>2

LEMMA NoCycle == ASSUME NEW m \in Msg PROVE m \notin Ancestors[m]
<1> DEFINE S == {x \in Msg : x \in Ancestors[x]}
<1>1. ASSUME NEW x \in S PROVE parentOf[x] \in S
  <2>1. parentOf[x] # None
    BY AncestorsUnfold
  <2>2. parentOf[x] \in Msg
    BY <2>1, ParentIsMsg
  <2>3. Ancestors[x] = {parentOf[x]} \cup Ancestors[parentOf[x]]
    BY <2>1, AncestorsUnfold
  <2>4. CASE x = parentOf[x]
    BY <2>4
  <2>5. CASE x \in Ancestors[parentOf[x]]
    <3>1. Ancestors[x] \subseteq Ancestors[parentOf[x]]
      BY <2>2, <2>5, AncestorsClimb
    <3> QED  BY <2>2, <2>3, <3>1
  <2> QED  BY <2>3, <2>4, <2>5
<1>2. S = {}
  <2>1. S \in SUBSET Msg
    OBVIOUS
  <2> HIDE DEF S
  <2> QED  BY <1>1, <2>1, NoLowest
<1> QED  BY <1>2

\* A flow takes all static children of its messages, and the parents of all but
\* its root.
LEMMA FlowIsTree ==
    ASSUME NEW r \in Msg, parentOf[r] = None
    PROVE  /\ FlowOf(r) \subseteq Msg /\ r \in FlowOf(r)
           /\ \A c \in FlowOf(r) \ {r} : parentOf[c] \in FlowOf(r) /\ c \notin Spawned
           /\ \A p \in FlowOf(r) : Kids(p) \subseteq FlowOf(r) \ {r}
<1>1. Ancestors[r] = {}
  BY AncestorsUnfold
<1>2. \A m \in Msg : Between(m, r) = Ancestors[m] \ {r}
  BY <1>1 DEF Between
<1>3. \A m \in Msg : m \in FlowOf(r) <=>
         (\/ m = r
          \/ /\ r \in Ancestors[m] /\ m \notin Spawned
             /\ (Ancestors[m] \ {r}) \cap Spawned = {})
  BY <1>2 DEF FlowOf
<1>4. ASSUME NEW c \in FlowOf(r) \ {r} PROVE parentOf[c] \in FlowOf(r) /\ c \notin Spawned
  <2>1. c \in Msg
    BY DEF FlowOf
  <2>2. /\ r \in Ancestors[c] /\ c \notin Spawned
        /\ (Ancestors[c] \ {r}) \cap Spawned = {}
    BY <1>3, <2>1
  <2>3. parentOf[c] # None
    BY <2>1, <2>2, AncestorsUnfold
  <2>4. parentOf[c] \in Msg /\ Ancestors[c] = {parentOf[c]} \cup Ancestors[parentOf[c]]
    BY <2>1, <2>3, ParentIsMsg, AncestorsUnfold
  <2> QED  BY <1>3, <2>2, <2>4
<1>5. ASSUME NEW p \in FlowOf(r), NEW c \in Kids(p) PROVE c \in FlowOf(r) \ {r}
  <2>1. c \in Msg /\ p \in Msg /\ parentOf[c] = p /\ c \notin Spawned
    BY DEF Kids, Children, FlowOf
  <2>2. parentOf[c] # None
    BY <2>1, ParentIsMsg
  <2>3. Ancestors[c] = {p} \cup Ancestors[p]
    BY <2>1, <2>2, AncestorsUnfold
  <2>4. CASE p = r
    BY <1>1, <1>3, <2>1, <2>2, <2>3, <2>4
  <2>5. CASE p # r
    BY <1>3, <2>1, <2>2, <2>3, <2>5
  <2> QED  BY <2>4, <2>5
<1> QED  BY <1>4, <1>5 DEF FlowOf

\* remove() never takes the parent of what it removes.
LEMMA ParentStays ==
    ASSUME NEW m \in Msg
    PROVE  parentOf[m] \notin TreeOf(m)
<1> SUFFICES ASSUME parentOf[m] \in TreeOf(m) PROVE FALSE
  OBVIOUS
<1>1. parentOf[m] \in Msg
  BY DEF TreeOf
<1>2. Ancestors[m] = {parentOf[m]} \cup Ancestors[parentOf[m]]
  BY <1>1, ParentIsMsg, AncestorsUnfold
<1>3. parentOf[m] = m \/ m \in Ancestors[parentOf[m]]
  BY DEF TreeOf
<1> QED  BY <1>2, <1>3, NoCycle

\* A cascade goes on from a parent it reached to that one's parent.
LEMMA CascadeClimbs ==
    ASSUME NEW m \in Msg, NEW c \in {m} \cup CascadeOf(m), Cascades(c)
    PROVE  parentOf[c] \in CascadeOf(m)
<1> DEFINE p == parentOf[c]
<1>1. c \in Msg /\ p \in Msg /\ Is(p, "blocked")
  BY ParentIsMsg DEF CascadeOf, Cascades
<1>2. Ancestors[c] = {p} \cup Ancestors[p]
  BY <1>1, ParentIsMsg, AncestorsUnfold
<1>3. p \in Ancestors[m]
  <2>1. CASE c = m
    BY <1>2, <2>1
  <2>2. CASE c \in Ancestors[m]
    BY <1>2, <2>2, AncestorsClimb
  <2> QED  BY <2>1, <2>2 DEF CascadeOf
<1>4. \A x \in {m} \cup Between(m, p) : Cascades(x)
  <2>1. Between(m, p) = Ancestors[m] \ Ancestors[c]
    BY <1>2 DEF Between
  <2>2. CASE c = m
    BY <2>1, <2>2
  <2>3. CASE c \in CascadeOf(m)
    <3>1. \A x \in {m} \cup (Ancestors[m] \ ({c} \cup Ancestors[c])) : Cascades(x)
      BY <2>3 DEF CascadeOf, Between
    <3> QED  BY <2>1, <3>1
  <2> QED  BY <2>2, <2>3
<1> QED  BY <1>1, <1>3, <1>4 DEF CascadeOf

-----------------------------------------------------------------------------
(* Families: what a parent counts and what its children's deps rows say.   *)

\* The children p waits for.
Waited(p) == {c \in Children(p) : deps[c] \in Unresolved}

\* A deps row is one of a message that was inserted, and has a parent.
Linked == \A c \in Msg : deps[c] # "none" => parentOf[c] \in Msg /\ ~Is(c, "none")

Family == PendingMatches /\ DepsAgree /\ BlockedWaits /\ Linked

\* What every step does to a message: a blocked one becomes ready only when it
\* waits for nothing.
Released == \A p \in Msg : Is(p, "blocked") /\ messages'[p].state = "ready" =>
                messages'[p].pending = 0

LEMMA WaitedIsFinite ==
    ASSUME NEW p \in Msg
    PROVE  /\ Waited(p) \in SUBSET Msg
           /\ IsFiniteSet(Waited(p)) /\ Cardinality(Waited(p)) \in Nat
<1>1. Waited(p) \in SUBSET Msg
  BY DEF Waited, Children
<1> QED  BY <1>1, CardinalityNat

\* What a resolving child does in its parent: D are the children that resolve,
\* W those it waited for.
LEMMA HeardCounts ==
    ASSUME NEW row \in Row, NEW W \in SUBSET Msg, NEW D \in SUBSET Msg, NEW res,
           row.pending = Cardinality(W), {c \in D : res[c] # "failed"} \subseteq W
    PROVE  /\ Heard(row, D, res).pending =
                 Cardinality(W \ {c \in D : res[c] # "failed"})
           /\ \/ Heard(row, D, res).state = row.state
              \/ /\ row.state = "blocked" /\ Heard(row, D, res).state = "ready"
                 /\ Heard(row, D, res).pending = 0
           /\ Heard(row, D, res).state = "blocked" /\ row.pending > 0 =>
                 Heard(row, D, res).pending > 0
           /\ Heard(row, D, res).childFailed => 
                 \/ row.childFailed
                 \/ \E c \in D : res[c] = "failed" /\ onFail[c] = "fail"
<1> DEFINE K == {c \in D : res[c] # "failed"}
           doomed == row.childFailed \/ \E c \in D : res[c] = "failed" /\ onFail[c] = "fail"
<1>1. /\ Cardinality(K) \in Nat /\ Cardinality(W) \in Nat /\ Cardinality(W \ K) \in Nat
      /\ Cardinality(W \ K) = Cardinality(W) - Cardinality(K)
  <2>1. K \in SUBSET Msg /\ K \subseteq W
    OBVIOUS
  <2> HIDE DEF K
  <2>2. IsFiniteSet(W) /\ Cardinality(W) \in Nat /\ Cardinality(K) \in Nat
    BY <2>1, CardinalityNat
  <2>3. W \cap K = K
    BY <2>1
  <2>4. Cardinality(W \ K) = Cardinality(W) - Cardinality(W \cap K)
    BY <2>2, FS_Difference
  <2>5. Cardinality(W \ K) \in Nat
    BY CardinalityNat
  <2> QED  BY <2>2, <2>3, <2>4, <2>5
<1>2. /\ Heard(row, D, res).pending = row.pending - Cardinality(K)
      /\ Heard(row, D, res).state =
            IF Cardinality(K) > 0 /\ row.pending = Cardinality(K) /\ row.state = "blocked"
            THEN "ready" ELSE row.state
  BY DEF Heard, Row
<1>3. Heard(row, D, res).childFailed <=> doomed
  <2>1. doomed \in BOOLEAN
    BY Zenon
  <2>2. Heard(row, D, res).childFailed = doomed
    BY DEF Heard, Row
  <2> QED  BY <2>1, <2>2
<1> HIDE DEF K
<1>4. row.pending \in Int
  BY DEF Row
<1>5. /\ Heard(row, D, res).pending = Cardinality(W \ K)
      /\ \/ Heard(row, D, res).state = row.state
         \/ /\ row.state = "blocked" /\ Heard(row, D, res).state = "ready"
            /\ Heard(row, D, res).pending = 0
      /\ Heard(row, D, res).state = "blocked" /\ row.pending > 0 =>
            Heard(row, D, res).pending > 0
  BY <1>1, <1>2, <1>4
<1> QED  BY <1>3, <1>5 DEF K

\* Statements that move messages between the states of work keep what they
\* count, and no deps row changes.
Works(p) ==
    \/ messages'[p] = messages[p]
    \/ /\ messages[p].state \in {"ready", "delayed", "active"}
       /\ messages'[p].state \in {"ready", "delayed", "active", "blocked"}
       /\ messages'[p].pending = messages[p].pending
       /\ messages'[p].state = "blocked" => messages'[p].pending > 0 /\ ~messages'[p].childFailed

LEMMA WorkKeepsFamily ==
    ASSUME TypeOK, Family, deps' = deps, \A p \in Msg : Works(p)
    PROVE  Family' /\ Released
<1>1. \A p \in Msg : Waited(p)' = Waited(p)
  BY DEF Waited, Children
<1>2. \A p \in Msg : /\ messages'[p].pending = messages[p].pending
                     /\ Exists(p)' <=> Exists(p)
                     /\ Is(p, "none")' <=> Is(p, "none")
  BY DEF Works, Exists, Is, MsgState, Live, Terminal
<1>3. PendingMatches'
  BY <1>1, <1>2 DEF Family, PendingMatches, Waited
<1>4. DepsAgree'
  <2> SUFFICES ASSUME NEW c \in Msg
               PROVE  /\ deps[c] = "pending" => messages'[c].state \notin Terminal
                      /\ deps[c] = "failed" =>
                            messages'[c].state \in {"failed", "cancelled", "gone"}
                      /\ deps[c] # "none" => Exists(parentOf[c])'
    BY DEF DepsAgree
  <2>1. /\ deps[c] = "pending" => messages[c].state \notin Terminal
        /\ deps[c] = "failed" => messages[c].state \in {"failed", "cancelled", "gone"}
        /\ deps[c] # "none" => Exists(parentOf[c]) /\ parentOf[c] \in Msg
    BY DEF Family, DepsAgree, Linked
  <2>2. Works(c)
    OBVIOUS
  <2> QED  BY <1>2, <2>1, <2>2 DEF Works, Terminal
<1>5. BlockedWaits' /\ Linked'
  BY <1>2 DEF Family, BlockedWaits, Linked, Works, Is
<1>6. Released
  BY DEF Released, Works, Is
<1> QED  BY <1>3, <1>4, <1>5, <1>6 DEF Family

LEMMA MovesWork ==
    ASSUME TypeOK, NEW m \in Msg, NEW tok, NEW to \in {"ready", "delayed", "blocked"},
           NEW counts, Move(m, tok, to, counts),
           to = "blocked" => messages[m].pending > 0 /\ ~messages[m].childFailed
    PROVE  deps' = deps /\ \A p \in Msg : Works(p)
<1>1. /\ messages'[m].state = to /\ messages'[m].pending = messages[m].pending
      /\ messages'[m].childFailed = messages[m].childFailed
      /\ Is(m, "active") /\ deps' = deps
      /\ \A p \in Msg \ {m} : messages'[p] = messages[p]
  BY DEF Move, Holds, TypeOK, Row
<1> QED  BY <1>1 DEF Works, Is

\* A flow is inserted with its deps rows.
LEMMA SendKeepsFamily ==
    ASSUME TypeOK, Family, NEW r \in Msg, NEW D \in SUBSET Msg, Send(r, D)
    PROVE  Family' /\ Released
<1> DEFINE F == FlowOf(r)
<1>1. /\ parentOf[r] = None /\ F \subseteq Msg /\ r \in F
      /\ \A c \in F \ {r} : parentOf[c] \in F /\ c \notin Spawned
      /\ \A p \in F : Kids(p) \subseteq F \ {r}
  BY FlowIsTree DEF Send
<1>2. \A m \in F : Is(m, "none")
  BY DEF Send
<1>3. \A m \in Msg \ F : messages'[m] = messages[m]
  BY DEF Send
<1>4. \A m \in F : /\ messages'[m].pending = Cardinality(Kids(m))
                   /\ ~messages'[m].childFailed
                   /\ messages'[m].state \in Live
                   /\ messages'[m].state = "blocked" <=> Kids(m) # {}
  BY <1>1 DEF Send, Blank, Live
<1>5. \A c \in Msg : deps'[c] = IF c \in F \ {r} THEN "pending" ELSE deps[c]
  BY DEF Send
<1> HIDE DEF F
<1>6. deps[r] = "none" /\ \A c \in Msg : parentOf[c] \in F => deps[c] = "none"
  BY <1>1, <1>2, ParentIsMsg DEF Family, Linked, DepsAgree, Exists, Is, MsgState, Live, Terminal
<1>7. ASSUME NEW p \in F PROVE Waited(p)' = Kids(p)
  BY <1>1, <1>5, <1>6 DEF Waited, Kids, Children, Unresolved
<1>8. ASSUME NEW p \in Msg \ F PROVE Waited(p)' = Waited(p)
  BY <1>1, <1>5 DEF Waited, Children
<1>9. PendingMatches'
  BY <1>3, <1>4, <1>7, <1>8 DEF Family, PendingMatches, Waited, Exists
<1>10. \A m \in Msg : Exists(m) => Exists(m)'
  BY <1>3, <1>4 DEF Exists, MsgState
<1>11. DepsAgree'
  <2> SUFFICES ASSUME NEW c \in Msg
               PROVE  /\ deps'[c] = "pending" => messages'[c].state \notin Terminal
                      /\ deps'[c] = "failed" =>
                            messages'[c].state \in {"failed", "cancelled", "gone"}
                      /\ deps'[c] # "none" => Exists(parentOf[c])'
    BY DEF DepsAgree
  <2>1. /\ deps[c] = "pending" => messages[c].state \notin Terminal
        /\ deps[c] = "failed" => messages[c].state \in {"failed", "cancelled", "gone"}
        /\ deps[c] # "none" => Exists(parentOf[c]) /\ parentOf[c] \in Msg
    BY DEF Family, DepsAgree, Linked
  <2>2. CASE c \in F \ {r}
    BY <1>1, <1>4, <1>5, <2>2 DEF Exists, MsgState, Live, Terminal
  <2>3. CASE c = r
    BY <1>1, <1>5, <1>6, <2>3
  <2>4. CASE c \notin F
    BY <1>3, <1>5, <1>10, <2>1, <2>4
  <2> QED  BY <2>2, <2>3, <2>4
<1>12. BlockedWaits'
  <2>1. \A m \in F : Kids(m) # {} => Cardinality(Kids(m)) > 0
    <3> SUFFICES ASSUME NEW m \in F, Kids(m) # {} PROVE Cardinality(Kids(m)) > 0
      OBVIOUS
    <3>1. IsFiniteSet(Kids(m)) /\ Cardinality(Kids(m)) \in Nat
      BY CardinalityNat DEF Kids, Children
    <3> QED  BY <3>1, FS_EmptySet
  <2> QED  BY <1>3, <1>4, <2>1 DEF Family, BlockedWaits, Is
<1>13. Linked'
  BY <1>1, <1>3, <1>4, <1>5 DEF Family, Linked, Is, Live
<1>14. Released
  BY <1>2, <1>3 DEF Released, Is
<1> QED  BY <1>9, <1>11, <1>12, <1>13, <1>14 DEF Family

\* ctx.spawn counts the child it inserts.
LEMMA SpawnKeepsFamily ==
    ASSUME TypeOK, Family, NEW c \in Msg, NEW tok, NEW to, Spawn(c, tok, to)
    PROVE  Family' /\ Released
<1> DEFINE p == parentOf[c]
<1>1. p \in Msg /\ Is(p, "active") /\ Is(c, "none") /\ c # p
  BY ColumnsAssumption, ParentIsMsg DEF Spawn, Holds, Is
<1>2. deps' = [deps EXCEPT ![c] = "pending"]
  BY DEF Spawn
<1>3. /\ messages'[c].state \in {"ready", "delayed"} /\ messages'[c].pending = 0
      /\ messages'[p].state = "active"
      /\ messages'[p].pending = messages[p].pending + 1
      /\ \A m \in Msg \ {c, p} : messages'[m] = messages[m]
  BY <1>1 DEF Spawn, TypeOK, Row, Blank, Is
<1>4. deps[c] = "none" /\ \A x \in Msg : parentOf[x] = c => deps[x] = "none"
  BY <1>1 DEF Family, Linked, DepsAgree, Exists, Is, MsgState, Live, Terminal
<1>5. Waited(p)' = Waited(p) \cup {c} /\ c \notin Waited(p)
  BY <1>2, <1>4 DEF Waited, Children, Unresolved, TypeOK
<1>6. Waited(c)' = {}
  BY <1>1, <1>2, <1>4 DEF Waited, Children, Unresolved, TypeOK
<1>7. \A m \in Msg \ {c, p} : Waited(m)' = Waited(m)
  BY <1>2 DEF Waited, Children, TypeOK
<1>8. Cardinality(Waited(p) \cup {c}) = Cardinality(Waited(p)) + 1
  BY <1>1, <1>5, WaitedIsFinite, FS_AddElement
<1>9. Cardinality(Waited(c)') = 0
  BY <1>6, FS_EmptySet
<1> HIDE DEF p
<1>10. PendingMatches'
  <2> SUFFICES ASSUME NEW m \in Msg, Exists(m)'
               PROVE  messages'[m].pending = Cardinality(Waited(m)')
    BY DEF PendingMatches, Waited
  <2>1. Exists(m) => messages[m].pending = Cardinality(Waited(m))
    BY DEF Family, PendingMatches, Waited
  <2>2. CASE m = c
    BY <1>3, <1>9, <2>2
  <2>3. CASE m = p
    BY <1>1, <1>3, <1>5, <1>8, <2>1, <2>3 DEF Exists, Is, MsgState
  <2>4. CASE m \notin {c, p}
    BY <1>3, <1>7, <2>1, <2>4 DEF Exists
  <2> QED  BY <2>2, <2>3, <2>4
<1>11. \A m \in Msg : Exists(m) => Exists(m)'
  BY <1>1, <1>3 DEF Exists, Is, MsgState, Live, Terminal
<1>12. DepsAgree'
  <2> SUFFICES ASSUME NEW x \in Msg
               PROVE  /\ deps'[x] = "pending" => messages'[x].state \notin Terminal
                      /\ deps'[x] = "failed" =>
                            messages'[x].state \in {"failed", "cancelled", "gone"}
                      /\ deps'[x] # "none" => Exists(parentOf[x])'
    BY DEF DepsAgree
  <2>1. /\ deps[x] = "pending" => messages[x].state \notin Terminal
        /\ deps[x] = "failed" => messages[x].state \in {"failed", "cancelled", "gone"}
        /\ deps[x] # "none" => Exists(parentOf[x]) /\ parentOf[x] \in Msg
    BY DEF Family, DepsAgree, Linked
  <2>2. CASE x = c
    <3>1. parentOf[x] = p /\ Exists(p)'
      BY <1>3, <2>2 DEF p, Exists, MsgState
    <3> QED  BY <1>2, <1>3, <2>2, <3>1 DEF TypeOK, Terminal
  <2>3. CASE x # c
    <3>1. deps'[x] = deps[x]
      BY <1>2, <2>3 DEF TypeOK
    <3> QED  BY <1>1, <1>3, <1>11, <2>1, <2>3, <3>1 DEF Is, Terminal
  <2> QED  BY <2>2, <2>3
<1>13. BlockedWaits'
  BY <1>3 DEF Family, BlockedWaits, Is
<1>14. Linked'
  BY <1>1, <1>2, <1>3 DEF Family, Linked, Is, TypeOK, p
<1>15. Released
  BY <1>1, <1>3 DEF Released, Is
<1> QED  BY <1>10, <1>12, <1>13, <1>14, <1>15 DEF Family

\* retry() makes the parents wait for a failed child again.
LEMMA RetryKeepsFamily ==
    ASSUME TypeOK, Family, NEW S \in SUBSET Msg, Retry(S)
    PROVE  Family' /\ Released
<1>1. \A m \in S : /\ messages[m].state \in Terminal /\ messages'[m].state = "ready"
                   /\ messages'[m].pending = messages[m].pending
  BY DEF Retry, TypeOK, Row
<1>2. \A m \in Msg \ S : messages'[m] = messages[m]
  BY DEF Retry
<1>3. \A c \in Msg : deps'[c] = IF c \in S /\ deps[c] = "failed" THEN "pending" ELSE deps[c]
  BY DEF Retry
<1>4. \A p \in Msg : Waited(p)' = Waited(p)
  BY <1>3 DEF Waited, Children, Unresolved
<1>5. \A m \in Msg : Exists(m)' <=> Exists(m)
  BY <1>1, <1>2 DEF Exists, MsgState, Live
<1>6. PendingMatches'
  BY <1>1, <1>2, <1>4, <1>5 DEF Family, PendingMatches, Waited
<1>7. DepsAgree'
  BY <1>1, <1>2, <1>3, <1>5 DEF Family, DepsAgree, Linked, Terminal
<1>8. BlockedWaits'
  BY <1>1, <1>2 DEF Family, BlockedWaits, Is
<1>9. Linked'
  BY <1>1, <1>2, <1>3 DEF Family, Linked, Is
<1>10. Released
  BY <1>1, <1>2 DEF Released, Is, Terminal
<1> QED  BY <1>6, <1>7, <1>8, <1>9, <1>10 DEF Family

\* Purged parents take the deps rows of their children with them; those of
\* purged children stay.
LEMMA PurgeKeepsFamily ==
    ASSUME TypeOK, Family, NEW S \in SUBSET Msg, Purge(S)
    PROVE  Family' /\ Released
<1>1. \A m \in S : messages'[m].state = "gone" /\ messages[m].state # "none"
  BY LimitsAssumption DEF Purge, Deleted, Blank, MsgState, Live, Terminal
<1>2. \A m \in Msg \ S : messages'[m] = messages[m]
  BY DEF Purge, Deleted
<1>3. \A c \in Msg : deps'[c] = IF parentOf[c] \in S THEN "none" ELSE deps[c]
  BY DEF Purge, Orphaned
<1>4. \A p \in Msg \ S : Waited(p)' = Waited(p)
  BY <1>3 DEF Waited, Children
<1>5. \A m \in Msg : Exists(m)' <=> (Exists(m) /\ m \notin S)
  BY <1>1, <1>2 DEF Exists, MsgState, Live, Terminal
<1>6. PendingMatches'
  BY <1>2, <1>4, <1>5 DEF Family, PendingMatches, Waited
<1>7. DepsAgree'
  BY <1>1, <1>2, <1>3, <1>5 DEF Family, DepsAgree, Linked, Terminal
<1>8. BlockedWaits'
  BY <1>1, <1>2 DEF Family, BlockedWaits, Is
<1>9. Linked'
  BY <1>1, <1>2, <1>3 DEF Family, Linked, Is
<1>10. Released
  BY <1>1, <1>2 DEF Released, Is
<1> QED  BY <1>6, <1>7, <1>8, <1>9, <1>10 DEF Family

\* remove() resolves the child in its parent, which stays.
LEMMA RemoveKeepsFamily ==
    ASSUME TypeOK, Family, NEW m \in Msg, Remove(m)
    PROVE  Family' /\ Released
<1> DEFINE T   == TreeOf(m)
           D   == {x \in {m} : deps[x] \in Unresolved}
           res == [x \in Msg |-> "ignored"]
           K(p) == {c \in D \cap Children(p) : res[c] # "failed"}
<1>1. /\ messages' = [p \in Msg |-> Heard(Deleted(T)[p], D \cap Children(p), res)]
      /\ deps' = [c \in Msg |-> IF c \in D THEN "ignored" ELSE Orphaned(T)[c]]
      /\ Exists(m)
  BY DEF Remove
<1>2. /\ D \subseteq {m} /\ T \subseteq Msg /\ m \in T /\ \A x \in T : Exists(x)
      /\ \A p \in Msg : K(p) = D \cap Children(p)
      /\ \A c \in D : deps[c] \in Unresolved
  BY <1>1 DEF TreeOf
<1>3. parentOf[m] \notin T
  BY ParentStays
<1>4. \A p \in Msg : /\ Deleted(T)[p] = IF p \in T THEN Blank("gone") ELSE messages[p]
                     /\ Orphaned(T)[p] = IF parentOf[p] \in T THEN "none" ELSE deps[p]
  BY DEF Deleted, Orphaned
<1>5. \A c \in Msg : res[c] # "failed"
  OBVIOUS
<1> HIDE DEF T, D, res
<1>6. \A p \in T : D \cap Children(p) = {}
  BY <1>2, <1>3 DEF Children
<1>7. ASSUME NEW p \in T PROVE messages'[p].state = "gone"
  <2>1. p \in Msg /\ messages'[p] = Heard(Blank("gone"), D \cap Children(p), res)
    BY <1>1, <1>2, <1>4
  <2>2. Blank("gone") \in Row /\ Blank("gone").state = "gone"
    BY BlankType, StatesAreStates DEF Blank
  <2> QED  BY <2>1, <2>2 DEF Heard, Row
<1>8. ASSUME NEW p \in Msg \ T PROVE Waited(p)' = Waited(p) \ K(p)
  BY <1>1, <1>2, <1>4 DEF Waited, Children, Unresolved
<1>9. \A p \in Msg \ T : K(p) \subseteq Waited(p)
  BY <1>2 DEF Waited, Children
<1>10. ASSUME NEW p \in Msg \ T, Exists(p)
       PROVE  /\ messages'[p].pending = Cardinality(Waited(p)')
              /\ \/ messages'[p].state = messages[p].state
                 \/ /\ messages[p].state = "blocked" /\ messages'[p].state = "ready"
                    /\ messages'[p].pending = 0
              /\ messages'[p].state = "blocked" /\ messages[p].pending > 0 =>
                    messages'[p].pending > 0
              /\ messages'[p].childFailed => messages[p].childFailed
  <2>1. messages[p] \in Row /\ messages[p].pending = Cardinality(Waited(p))
    BY <1>10 DEF TypeOK, Family, PendingMatches, Waited
  <2> DEFINE next == Heard(messages[p], D \cap Children(p), res)
  <2>2. messages'[p] = next
    BY <1>1, <1>4
  <2>3. Waited(p) \in SUBSET Msg /\ D \cap Children(p) \in SUBSET Msg
    BY <1>2 DEF Waited, Children
  <2>4. K(p) \subseteq Waited(p)
    BY <1>9
  <2>5. \A c \in D \cap Children(p) : res[c] # "failed"
    BY <1>5, <2>3
  <2>6. /\ next.pending = Cardinality(Waited(p) \ K(p))
        /\ \/ next.state = messages[p].state
           \/ /\ messages[p].state = "blocked" /\ next.state = "ready"
              /\ next.pending = 0
        /\ next.state = "blocked" /\ messages[p].pending > 0 => next.pending > 0
        /\ next.childFailed =>
              \/ messages[p].childFailed
              \/ \E c \in D \cap Children(p) : res[c] = "failed" /\ onFail[c] = "fail"
    BY <2>1, <2>3, <2>4, HeardCounts
  <2>7. Waited(p)' = Waited(p) \ K(p)
    BY <1>8
  <2> HIDE DEF K, next
  <2> QED  BY <2>2, <2>5, <2>6, <2>7
<1>11. ASSUME NEW p \in Msg \ T, ~Exists(p) PROVE messages'[p].state = messages[p].state
  <2>1. messages[p].state # "blocked" /\ messages[p] \in Row
    BY <1>11 DEF Exists, MsgState, Live, TypeOK
  <2> QED  BY <1>1, <1>4, <2>1 DEF Heard, Row
<1>12. \A p \in Msg : Exists(p)' <=> (Exists(p) /\ p \notin T)
  BY <1>7, <1>10, <1>11 DEF Exists, MsgState, Live, Terminal
<1>13. \A p \in Msg \ T : \/ messages'[p].state = messages[p].state
                          \/ messages[p].state = "blocked" /\ messages'[p].state = "ready"
  BY <1>10, <1>11
<1>14. \A c \in Msg : deps'[c] = IF c \in D THEN "ignored"
                                 ELSE IF parentOf[c] \in T THEN "none" ELSE deps[c]
  BY <1>1, <1>4
<1>15. PendingMatches'
  BY <1>10, <1>12 DEF PendingMatches, Waited
<1>16. DepsAgree'
  <2> SUFFICES ASSUME NEW c \in Msg
               PROVE  /\ deps'[c] = "pending" => messages'[c].state \notin Terminal
                      /\ deps'[c] = "failed" =>
                            messages'[c].state \in {"failed", "cancelled", "gone"}
                      /\ deps'[c] # "none" => Exists(parentOf[c])'
    BY DEF DepsAgree
  <2>1. /\ deps[c] = "pending" => messages[c].state \notin Terminal
        /\ deps[c] = "failed" => messages[c].state \in {"failed", "cancelled", "gone"}
        /\ deps[c] # "none" => Exists(parentOf[c]) /\ parentOf[c] \in Msg
    BY DEF Family, DepsAgree, Linked
  <2>2. CASE c \in D
    <3>1. c = m /\ deps[c] # "none" /\ deps'[c] = "ignored"
      BY <1>2, <1>14, <2>2 DEF Unresolved
    <3> QED  BY <1>3, <1>12, <2>1, <3>1
  <2>3. CASE c \notin D /\ parentOf[c] \notin T
    <3>1. deps'[c] = deps[c]
      BY <1>14, <2>3
    <3>2. CASE c \in T
      BY <1>7, <1>12, <2>1, <2>3, <3>1, <3>2 DEF Terminal
    <3>3. CASE c \notin T
      BY <1>12, <1>13, <2>1, <2>3, <3>1, <3>3 DEF Terminal
    <3> QED  BY <3>2, <3>3
  <2>4. CASE c \notin D /\ parentOf[c] \in T
    BY <1>14, <2>4
  <2> QED  BY <2>2, <2>3, <2>4
<1>17. BlockedWaits'
  <2> SUFFICES ASSUME NEW p \in Msg, messages'[p].state = "blocked"
               PROVE  messages'[p].pending > 0 /\ ~messages'[p].childFailed
    BY DEF BlockedWaits, Is
  <2>1. p \notin T /\ messages[p].state = "blocked"
    BY <1>7, <1>13
  <2>2. Exists(p) /\ messages[p].pending > 0 /\ ~messages[p].childFailed
    BY <2>1 DEF Family, BlockedWaits, Is, Exists, MsgState, Live
  <2> QED  BY <1>10, <2>1, <2>2
<1>18. Linked'
  <2>1. \A c \in Msg : Is(c, "none")' => Is(c, "none")
    BY <1>7, <1>13 DEF Is
  <2>2. \A c \in Msg : deps'[c] # "none" => deps[c] # "none"
    BY <1>2, <1>14 DEF Unresolved
  <2> QED  BY <2>1, <2>2 DEF Family, Linked
<1>19. Released
  <2> SUFFICES ASSUME NEW p \in Msg, messages[p].state = "blocked", messages'[p].state = "ready"
               PROVE  messages'[p].pending = 0
    BY DEF Released, Is
  <2>1. p \notin T /\ Exists(p)
    BY <1>7 DEF Exists, MsgState, Live
  <2> QED  BY <1>10, <2>1
<1> QED  BY <1>15, <1>16, <1>17, <1>18, <1>19 DEF Family

\* A settled message resolves its deps row; so does every parent its failure
\* reaches.
LEMMA FinishKeepsFamily ==
    ASSUME TypeOK, Family, NEW m \in Msg, NEW to \in Terminal, Finish(m, to),
           messages[m].state \in Live \cup {"active"}
    PROVE  Family' /\ Released
<1> DEFINE F    == IF to = "completed" THEN {} ELSE CascadeOf(m)
           del  == to = "completed" /\ queueOf[m] \notin KeepCompleted
           done == {m} \cup F
           res  == [x \in Msg |-> Resolution(x, IF x = m THEN to ELSE "failed")]
           D    == {x \in done : deps[x] = "pending"}
           K(p) == {c \in D \cap Children(p) : res[c] # "failed"}
           H(p) == Heard(messages[p], D \cap Children(p), res)
<1>1. \A p \in Msg :
         messages'[p] = IF p = m /\ del THEN Blank("gone")
                        ELSE IF p \in done THEN Finished(H(p), IF p = m THEN to ELSE "failed")
                        ELSE H(p)
  BY Zenon DEF Finish
<1>2. \A c \in Msg : deps'[c] = IF del /\ parentOf[c] = m THEN "none"
                                ELSE IF c \in D THEN res[c] ELSE deps[c]
  BY Zenon DEF Finish
<1>3. /\ F \subseteq Msg /\ done \subseteq Msg /\ m \in done
      /\ D \subseteq done /\ \A c \in done : c \in D <=> deps[c] = "pending"
      /\ \A x \in F : Is(x, "blocked")
  BY DEF CascadeOf
<1>4. \A c \in Msg : /\ res[c] \in {"completed", "ignored", "failed"}
                     /\ res[c] = "failed" => c # m \/ to \in {"failed", "cancelled"}
  BY DEF Resolution, Terminal
<1>5. to = "completed" => done = {m}
  OBVIOUS
<1>6. \A c \in done : res[c] = "failed" /\ onFail[c] = "fail" /\ c \in D
                         /\ Is(parentOf[c], "blocked") => parentOf[c] \in F
  <2> SUFFICES ASSUME NEW c \in done, res[c] = "failed", onFail[c] = "fail", c \in D,
                      Is(parentOf[c], "blocked")
               PROVE  parentOf[c] \in F
    OBVIOUS
  <2>1. to # "completed" /\ c \in {m} \cup CascadeOf(m) /\ deps[c] = "pending"
    BY <1>3, <1>4
  <2>2. parentOf[c] # None
    BY <1>3, <2>1, ParentIsMsg DEF Family, Linked
  <2>3. Cascades(c)
    BY <2>1, <2>2 DEF Cascades
  <2> QED  BY <2>1, <2>3, CascadeClimbs
<1>7. parentOf[m] # m
  <2>1. {m} \in SUBSET Msg /\ {m} # {}
    OBVIOUS
  <2>2. PICK x \in {m} : parentOf[x] \notin {m}
    BY <2>1, ForestAssumption
  <2> QED  BY <2>2
<1> HIDE DEF F, del, done, res, D
<1>8. ASSUME NEW p \in Msg PROVE Waited(p) \ K(p) \in SUBSET Msg /\ K(p) \subseteq Waited(p)
  BY <1>3 DEF Waited, Children, Unresolved
<1>9. ASSUME NEW p \in Msg, ~(p = m /\ del) PROVE Waited(p)' = Waited(p) \ K(p)
  <2>1. \A c \in Children(p) : deps'[c] = IF c \in D THEN res[c] ELSE deps[c]
    BY <1>2, <1>9 DEF Children
  <2>2. \A c \in D : deps[c] = "pending"
    BY <1>3
  <2> QED  BY <1>4, <2>1, <2>2 DEF Waited, Children, Unresolved
<1>10. ASSUME NEW p \in Msg, Exists(p)
       PROVE  /\ H(p).pending = Cardinality(Waited(p) \ K(p))
              /\ \/ H(p).state = messages[p].state
                 \/ /\ messages[p].state = "blocked" /\ H(p).state = "ready"
                    /\ H(p).pending = 0
              /\ H(p).state = "blocked" /\ messages[p].pending > 0 => H(p).pending > 0
              /\ H(p).childFailed =>
                    \/ messages[p].childFailed
                    \/ \E c \in D \cap Children(p) : res[c] = "failed" /\ onFail[c] = "fail"
  <2>1. messages[p] \in Row /\ messages[p].pending = Cardinality(Waited(p))
    BY <1>10 DEF TypeOK, Family, PendingMatches, Waited
  <2>2. Waited(p) \in SUBSET Msg /\ D \cap Children(p) \in SUBSET Msg
    BY <1>3 DEF Waited, Children
  <2> QED  BY <1>8, <2>1, <2>2, HeardCounts
<1>11. ASSUME NEW p \in Msg, ~Exists(p) PROVE p \notin done /\ messages'[p].state = messages[p].state
  <2>1. messages[p].state # "blocked" /\ messages[p] \in Row /\ p # m
    BY <1>11 DEF Exists, MsgState, Live, TypeOK
  <2>2. p \notin done
    BY <1>3, <2>1 DEF Is, done
  <2>3. messages'[p] = H(p)
    BY <1>1, <2>1, <2>2
  <2> QED  BY <2>1, <2>2, <2>3 DEF Heard, Row
<1>12. ASSUME NEW p \in Msg, ~(p = m /\ del), p \in done
       PROVE  /\ messages'[p].state = IF p = m THEN to ELSE "failed"
              /\ messages'[p].pending = H(p).pending
  <2>1. messages'[p] = Finished(H(p), IF p = m THEN to ELSE "failed")
    BY <1>1, <1>12
  <2>2. DOMAIN H(p) = DOMAIN messages[p]
    BY DEF Heard
  <2>3. messages[p] \in Row
    BY DEF TypeOK
  <2> HIDE DEF H
  <2> QED  BY <2>1, <2>2, <2>3 DEF Finished, Row
<1>13. del => messages'[m].state = "gone"
  <2>1. del => messages'[m] = Blank("gone")
    BY <1>1
  <2> QED  BY <2>1 DEF Blank
<1>14. \A p \in Msg \ done : messages'[p] = H(p)
  BY <1>1, <1>3
<1> HIDE DEF H, K
<1>15. \A p \in Msg : Exists(p)' <=> (Exists(p) /\ ~(p = m /\ del))
  <2> SUFFICES ASSUME NEW p \in Msg
               PROVE  Exists(p)' <=> (Exists(p) /\ ~(p = m /\ del))
    OBVIOUS
  <2>1. CASE p = m /\ del
    BY <1>13, <2>1 DEF Exists, MsgState, Live, Terminal
  <2>2. CASE ~Exists(p)
    BY <1>11, <2>2 DEF Exists
  <2>3. CASE Exists(p) /\ p \in done /\ ~(p = m /\ del)
    BY <1>12, <2>3 DEF Exists, MsgState, Terminal
  <2>4. CASE Exists(p) /\ p \notin done
    BY <1>3, <1>10, <1>14, <2>4 DEF Exists, MsgState, Live
  <2> QED  BY <2>1, <2>2, <2>3, <2>4
<1>16. PendingMatches'
  <2> SUFFICES ASSUME NEW p \in Msg, Exists(p)'
               PROVE  messages'[p].pending = Cardinality(Waited(p)')
    BY DEF PendingMatches, Waited
  <2>1. Exists(p) /\ ~(p = m /\ del)
    BY <1>15
  <2>2. messages'[p].pending = H(p).pending
    BY <1>12, <1>14, <2>1
  <2> QED  BY <1>9, <1>10, <2>1, <2>2
<1>17. DepsAgree'
  <2> SUFFICES ASSUME NEW c \in Msg
               PROVE  /\ deps'[c] = "pending" => messages'[c].state \notin Terminal
                      /\ deps'[c] = "failed" =>
                            messages'[c].state \in {"failed", "cancelled", "gone"}
                      /\ deps'[c] # "none" => Exists(parentOf[c])'
    BY DEF DepsAgree
  <2>1. /\ deps[c] = "pending" => messages[c].state \notin Terminal
        /\ deps[c] = "failed" => messages[c].state \in {"failed", "cancelled", "gone"}
        /\ deps[c] # "none" => Exists(parentOf[c]) /\ parentOf[c] \in Msg
    BY DEF Family, DepsAgree, Linked
  <2>2. deps'[c] # "none" => Exists(parentOf[c])'
    <3>1. deps'[c] # "none" => deps[c] # "none" /\ ~(del /\ parentOf[c] = m)
      BY <1>2, <1>3
    <3> QED  BY <1>15, <2>1, <3>1
  <2>3. CASE c \in D
    <3>1. deps'[c] \in {"none", res[c]} /\ c \in done
      BY <1>2, <1>3, <2>3
    <3>2. deps'[c] # "pending"
      BY <1>4, <3>1
    <3>3. deps'[c] = "failed" => messages'[c].state \in {"failed", "cancelled", "gone"}
      BY <1>4, <1>12, <1>13, <3>1
    <3> QED  BY <2>2, <3>2, <3>3
  <2>4. CASE c \in done \ D
    <3>1. deps'[c] \in {"none", deps[c]} /\ deps[c] # "pending"
      BY <1>2, <1>3, <2>4
    <3>2. messages[c].state \in Live \cup {"active"}
      BY <1>3, <2>4 DEF done, Is, Live
    <3>3. deps[c] # "failed"
      BY <2>1, <3>2 DEF Live
    <3> QED  BY <2>2, <3>1, <3>3
  <2>5. CASE c \notin done
    <3>1. deps'[c] \in {"none", deps[c]}
      BY <1>2, <1>3, <2>5
    <3>2. \/ messages'[c].state = messages[c].state
          \/ messages[c].state = "blocked" /\ messages'[c].state = "ready"
      <4>1. CASE Exists(c)
        BY <1>10, <1>14, <2>5, <4>1
      <4>2. CASE ~Exists(c)
        BY <1>11, <4>2
      <4> QED  BY <4>1, <4>2
    <3> QED  BY <2>1, <2>2, <3>1, <3>2 DEF Terminal
  <2> QED  BY <2>3, <2>4, <2>5
<1>18. \A p \in Msg : messages'[p].state \in {"blocked", "ready"} => p \notin done
  BY <1>12, <1>13 DEF Terminal
<1>19. BlockedWaits'
  <2> SUFFICES ASSUME NEW p \in Msg, messages'[p].state = "blocked"
               PROVE  messages'[p].pending > 0 /\ ~messages'[p].childFailed
    BY DEF BlockedWaits, Is
  <2>1. p \notin done /\ Exists(p) /\ messages'[p] = H(p)
    <3>1. p \notin done
      BY <1>18
    <3>2. Exists(p)'
      BY DEF Exists, MsgState, Live
    <3> QED  BY <1>14, <1>15, <3>1, <3>2
  <2>2. messages[p].state = "blocked"
    BY <1>10, <2>1
  <2>3. messages[p].pending > 0 /\ ~messages[p].childFailed
    BY <2>2 DEF Family, BlockedWaits, Is
  <2>4. ~ \E c \in D \cap Children(p) : res[c] = "failed" /\ onFail[c] = "fail"
    <3> SUFFICES ASSUME NEW c \in D \cap Children(p), res[c] = "failed", onFail[c] = "fail"
                 PROVE  FALSE
      OBVIOUS
    <3>1. parentOf[c] = p /\ c \in done
      BY <1>3 DEF Children
    <3>2. p \in F
      BY <1>6, <2>2, <3>1 DEF Is
    <3> QED  BY <2>1, <3>2 DEF done
  <2> QED  BY <1>10, <2>1, <2>3, <2>4
<1>20. Linked'
  <2>1. \A c \in Msg : Is(c, "none")' => Is(c, "none")
    <3> SUFFICES ASSUME NEW c \in Msg, messages'[c].state = "none" PROVE messages[c].state = "none"
      BY DEF Is
    <3>1. ~Exists(c)
      <4>1. c # m \/ ~del
        BY <1>13
      <4>2. ~Exists(c)'
        BY DEF Exists, MsgState, Live, Terminal
      <4> QED  BY <1>15, <4>1, <4>2
    <3> QED  BY <1>11, <3>1
  <2>2. \A c \in Msg : deps'[c] # "none" => deps[c] # "none"
    BY <1>2, <1>3
  <2> QED  BY <2>1, <2>2 DEF Family, Linked
<1>21. Released
  <2> SUFFICES ASSUME NEW p \in Msg, messages[p].state = "blocked", messages'[p].state = "ready"
               PROVE  messages'[p].pending = 0
    BY DEF Released, Is
  <2>1. p \notin done /\ Exists(p) /\ messages'[p] = H(p)
    BY <1>14, <1>18 DEF Exists, MsgState, Live
  <2> QED  BY <1>10, <2>1
<1> QED  BY <1>16, <1>17, <1>19, <1>20, <1>21 DEF Family

\* Every settle keeps the family.
LEMMA SettleKeepsFamily ==
    ASSUME TypeOK, Family, NEW m \in Msg, NEW tok, Settle(m, tok)
    PROVE  Family' /\ Released
<1>1. ASSUME NEW to \in Terminal, FinishByToken(m, tok, to) PROVE Family' /\ Released
  BY <1>1, FinishKeepsFamily DEF FinishByToken, Holds, Is
<1>2. CASE FinishFlagged(m, tok)
  BY <1>2, FinishKeepsFamily DEF FinishFlagged, Holds, Is, Terminal
<1>3. ASSUME NEW to \in {"ready", "delayed"}, NEW counts, Move(m, tok, to, counts)
      PROVE  Family' /\ Released
  <2>1. deps' = deps /\ \A p \in Msg : Works(p)
    BY <1>3, MovesWork
  <2> QED  BY <2>1, WorkKeepsFamily
<1>4. CASE MoveWait(m, tok)
  <2>1. deps' = deps /\ \A p \in Msg : Works(p)
    BY <1>4, MovesWork DEF MoveWait
  <2> QED  BY <2>1, WorkKeepsFamily
<1> QED
  BY <1>1, <1>2, <1>3, <1>4 DEF Settle, MoveRetry, MoveDefer, MoveRelease, MoveLimit

\* So do the statements that only move messages between the states of work.
LEMMA ClaimsKeepFamily == ASSUME TypeOK, Family, Claims PROVE Family' /\ Released
<1>1. PICK q \in Queue, S \in SUBSET Msg, limited \in Limited, spent \in BOOLEAN :
         ClaimCommon(q, S, limited, spent)
  BY DEF Claims, Claim, ClaimGroups
<1>2. Take(q, S, limited) /\ deps' = deps /\ \A m \in S : Is(m, "ready")
  BY <1>1 DEF ClaimCommon
<1>3. ASSUME NEW p \in Msg PROVE Works(p)
  <2>1. CASE p \notin S
    BY <1>2, <2>1 DEF Take, Works
  <2>2. CASE p \in S
    <3> DEFINE was == messages[p]
    <3>1. was \in Row /\ was.state = "ready"
      BY <1>2, <2>2 DEF TypeOK, Is
    <3>2. messages'[p] = [was EXCEPT !.state = "active", !.token = serial[p] + 1,
                !.lapsed = FALSE, !.counted = limited /\ queues[q].concurrency # None]
      BY <1>2, <2>2 DEF Take
    <3> HIDE DEF was
    <3>3. messages'[p].state = "active" /\ messages'[p].pending = was.pending
      BY <3>1, <3>2 DEF Row
    <3> QED  BY <3>1, <3>3 DEF Works, was
  <2> QED  BY <2>1, <2>2
<1> QED  BY <1>2, <1>3, WorkKeepsFamily

LEMMA LeaseStepsKeepFamily ==
    ASSUME TypeOK, Family,
           \/ \E S \in SUBSET Msg : Promote(S)
           \/ \E S \in SUBSET Active : Extend({<<m, messages[m].token>> : m \in S})
           \/ \E q \in Queue, S \in SUBSET Msg : Expire(q, S)
           \/ \E m \in Msg : FlagCancel(m)
           \/ \E m \in Msg : Lapse(m)
    PROVE  Family' /\ Released
<1>1. ASSUME NEW S \in SUBSET Msg, Promote(S) PROVE deps' = deps /\ \A p \in Msg : Works(p)
  BY <1>1 DEF Promote, Works, Is, TypeOK, Row
<1>2. ASSUME NEW H, Extend(H) PROVE deps' = deps /\ \A p \in Msg : Works(p)
  <2>1. ASSUME NEW p \in Msg PROVE Works(p)
    <3>1. CASE \E h \in H : h[1] = p
      <4>1. Is(p, "active") /\ messages'[p] = [messages[p] EXCEPT !.lapsed = FALSE]
        BY <1>2, <3>1 DEF Extend, Holds
      <4> QED  BY <4>1 DEF Works, Is, TypeOK, Row
    <3>2. CASE ~ \E h \in H : h[1] = p
      BY <1>2, <3>2 DEF Extend, Works
    <3> QED  BY <3>1, <3>2
  <2> QED  BY <1>2, <2>1 DEF Extend
<1>3. ASSUME NEW q \in Queue, NEW S \in SUBSET Msg, Expire(q, S)
      PROVE  deps' = deps /\ \A p \in Msg : Works(p)
  <2>1. ASSUME NEW p \in Msg PROVE Works(p)
    <3>1. CASE p \notin S
      BY <1>3, <3>1 DEF Expire, Works
    <3>2. CASE p \in S
      <4>1. /\ messages[p] \in Row /\ messages[p].state = "active"
            /\ messages'[p] = [messages[p] EXCEPT !.state = "delayed", !.token = NoToken,
                                                !.lapsed = FALSE, !.attempts = @ + 1]
        BY <1>3, <3>2 DEF Expire, TypeOK, Is
      <4> QED  BY <4>1 DEF Works, Row
    <3> QED  BY <3>1, <3>2
  <2> QED  BY <1>3, <2>1 DEF Expire
<1>4. ASSUME NEW m \in Msg, FlagCancel(m) PROVE deps' = deps /\ \A p \in Msg : Works(p)
  BY <1>4 DEF FlagCancel, Works, Is, TypeOK, Row
<1>5. ASSUME NEW m \in Msg, Lapse(m) PROVE deps' = deps /\ \A p \in Msg : Works(p)
  BY <1>5 DEF Lapse, Works, Is, TypeOK, Row
<1> QED  BY <1>1, <1>2, <1>3, <1>4, <1>5, WorkKeepsFamily

LEMMA FamilyInit == Init => TypeOK /\ Family
<1> SUFFICES ASSUME Init PROVE Family
  BY InitType
<1>1. \A m \in Msg : messages[m].state = "none" /\ deps[m] = "none"
  BY DEF Init, Blank
<1> QED
  BY <1>1 DEF Family, PendingMatches, DepsAgree, BlockedWaits, Linked, Exists, Is,
              MsgState, Live, Terminal

LEMMA FamilyStep == TypeOK /\ Family /\ [Next]_vars => Family' /\ Released
<1> SUFFICES ASSUME TypeOK, Family, [Next]_vars PROVE Family' /\ Released
  OBVIOUS
<1>1. ASSUME messages' = messages, deps' = deps PROVE Family' /\ Released
  BY <1>1, WorkKeepsFamily DEF Works
<1>2. ASSUME NEW m \in Msg, FinishExpired(m) \/ CancelIdle(m) PROVE Family' /\ Released
  BY <1>2, FinishKeepsFamily DEF FinishExpired, CancelIdle, Is, Terminal
<1>3. CASE Admin
  <2>1. ASSUME NEW m \in Msg, FlagCancel(m) PROVE Family' /\ Released
    BY <2>1, LeaseStepsKeepFamily
  <2> QED
    BY <1>1, <1>2, <1>3, <2>1, RemoveKeepsFamily, RetryKeepsFamily, PurgeKeepsFamily
    DEF Admin, SetPaused, UpsertQueue, SetGroup
<1>4. CASE UNCHANGED vars
  BY <1>1, <1>4 DEF vars
<1>5. ASSUME NEW q \in Queue, LimitEnds(q) PROVE Family' /\ Released
  BY <1>1, <1>5 DEF LimitEnds
<1> QED
  BY <1>2, <1>3, <1>4, <1>5, SendKeepsFamily, SpawnKeepsFamily, SettleKeepsFamily,
     ClaimsKeepFamily, LeaseStepsKeepFamily DEF Next

\* The family invariant: at every moment of a flow a parent counts the children
\* it waits for, deps rows agree with the children they speak of, and a blocked
\* parent waits for some and has no failed `fail` child.
THEOREM FamilyInvariant == Spec => []Family
<1>1. TypeOK /\ Family /\ [Next]_vars => (TypeOK /\ Family)'
  BY TypeStep, FamilyStep
<1> QED  BY FamilyInit, <1>1, PTL DEF Spec

THEOREM PendingMatchesHolds == Spec => []PendingMatches
BY FamilyInvariant, PTL DEF Family

THEOREM DepsAgreeHolds == Spec => []DepsAgree
BY FamilyInvariant, PTL DEF Family

THEOREM BlockedWaitsHolds == Spec => []BlockedWaits
BY FamilyInvariant, PTL DEF Family

\* The last child releases its parent: no step makes a blocked parent ready
\* while a child of it is unresolved (finishMessage, remove).
THEOREM ParentRunsAfterChildrenHolds == Spec => ParentRunsAfterChildren
<1>1. TypeOK /\ Family /\ [Next]_vars => [RunsAfterChildren]_vars
  <2> SUFFICES ASSUME TypeOK, Family, [Next]_vars, NEW p \in Msg,
                      Is(p, "blocked"), messages'[p].state = "ready", NEW c \in Children(p)
               PROVE  deps'[c] \notin Unresolved
    BY DEF RunsAfterChildren
  <2>1. Cardinality(Waited(p)') = 0
    BY FamilyStep DEF Released, Family, PendingMatches, Waited, Exists, MsgState, Live
  <2>2. IsFiniteSet(Waited(p)')
    <3>1. Waited(p)' \in SUBSET Msg
      BY DEF Waited, Children
    <3> QED  BY <3>1, CardinalityNat
  <2>3. Waited(p)' = {}
    BY <2>1, <2>2, FS_EmptySet
  <2> QED  BY <2>3 DEF Waited, Children
<1>2. TypeOK /\ Family /\ [Next]_vars => (TypeOK /\ Family)'
  BY TypeStep, FamilyStep
<1> QED  BY FamilyInit, <1>1, <1>2, PTL DEF Spec, ParentRunsAfterChildren

-----------------------------------------------------------------------------
(* What claims may count.                                                   *)

\* Counters that no step but a claim raises.
Shrinks == /\ \A q \in Queue : queues'[q].active <= queues[q].active
           /\ \A g \in Group : groups'[g].active <= groups[g].active

LEMMA UncountShrinks ==
    ASSUME TypeOK, NEW S \in SUBSET Msg, Uncount(S)
    PROVE  Shrinks
<1>1. ASSUME NEW g \in Group PROVE groups'[g].active <= groups[g].active
  <2> DEFINE n == Cardinality(S \cap Active \cap InGroup(g))
  <2>1. n \in Nat
    <3>1. S \cap Active \cap InGroup(g) \in SUBSET Msg
      OBVIOUS
    <3> QED  BY <3>1, CardinalityNat
  <2>2. groups'[g].active = groups[g].active - n /\ groups[g].active \in Int
    BY DEF Uncount, TypeOK, GroupRow
  <2> QED  BY <2>1, <2>2
<1>2. ASSUME NEW q \in Queue PROVE queues'[q].active <= queues[q].active
  <2> DEFINE n == Cardinality(S \cap Counted \cap In(q))
  <2>1. n \in Nat
    <3>1. S \cap Counted \cap In(q) \in SUBSET Msg
      OBVIOUS
    <3> QED  BY <3>1, CardinalityNat
  <2>2. queues'[q].active = queues[q].active - n /\ queues[q].active \in Int
    BY DEF Uncount, TypeOK, QueueRow
  <2> QED  BY <2>1, <2>2
<1> QED  BY <1>1, <1>2 DEF Shrinks

LEMMA MoveLimitShrinks ==
    ASSUME TypeOK, NEW m \in Msg, NEW tok, MoveLimit(m, tok)
    PROVE  Shrinks
<1>1. ASSUME NEW g \in Group PROVE groups'[g].active <= groups[g].active
  <2> DEFINE n == Cardinality({m} \cap InGroup(g))
  <2>1. n \in Nat
    <3>1. {m} \cap InGroup(g) \in SUBSET Msg
      OBVIOUS
    <3> QED  BY <3>1, CardinalityNat
  <2>2. groups'[g].active = groups[g].active - n /\ groups[g].active \in Int
    BY DEF MoveLimit, TypeOK, GroupRow
  <2> QED  BY <2>1, <2>2
<1>2. ASSUME NEW q \in Queue PROVE queues'[q].active <= queues[q].active
  <2>1. queues[q].active \in Int /\ queueOf[m] \in Queue
    BY ColumnsAssumption DEF TypeOK, QueueRow
  <2>2. CASE q # queueOf[m]
    BY <2>1, <2>2 DEF MoveLimit, TypeOK
  <2>3. CASE q = queueOf[m]
    <3>1. queues'[q].active = queues[q].active - (IF messages[m].counted THEN 1 ELSE 0)
      BY <2>3 DEF MoveLimit, TypeOK, QueueRow
    <3> QED  BY <2>1, <3>1
  <2> QED  BY <2>2, <2>3
<1> QED  BY <1>1, <1>2 DEF Shrinks

LEMMA StillShrinks ==
    ASSUME TypeOK, queues' = queues, groups' = groups
    PROVE  Shrinks
BY DEF Shrinks, TypeOK, QueueRow, GroupRow

LEMMA ShrunkFits == ASSUME TypeOK, TypeOK', Shrinks PROVE WithinLimits
<1>1. ASSUME NEW q \in Queue PROVE ~(queues'[q].active > queues[q].active)
  <2>1. queues[q].active \in Int /\ queues'[q].active \in Int
    BY DEF TypeOK, QueueRow
  <2> QED  BY <2>1 DEF Shrinks
<1>2. ASSUME NEW g \in Group PROVE ~(groups'[g].active > groups[g].active)
  <2>1. groups[g].active \in Int /\ groups'[g].active \in Int
    BY DEF TypeOK, GroupRow
  <2> QED  BY <2>1 DEF Shrinks
<1> QED  BY <1>1, <1>2 DEF WithinLimits

\* What a claim writes to the row of a queue and of a group fits their limits.
LEMMA ClaimFitsQueue ==
    ASSUME TypeOK, NEW q \in Queue, NEW S \in SUBSET Msg, NEW limited \in BOOLEAN,
           NEW spent \in BOOLEAN, ClaimCommon(q, S, limited, spent),
           NEW o \in Queue, queues'[o].active > queues[o].active,
           queues'[o].concurrency # None
    PROVE  queues'[o].active <= queues'[o].concurrency
<1> DEFINE n == Cardinality(S)
<1>1. n \in Nat
  BY CardinalityNat
<1>2. /\ limited => Fits(queues[q].concurrency, queues[q].active, n)
      /\ QueueBump(q, n, limited, spent)
  BY DEF ClaimCommon
<1>3. queues[o] \in QueueRow /\ queues[o].active \in Int
  BY DEF TypeOK, QueueRow
<1>4. limited /\ o = q
  BY <1>2, <1>3 DEF QueueBump, TypeOK
<1> HIDE DEF n
<1>5. /\ queues'[q].active =
            queues[q].active + (IF queues[q].concurrency = None THEN 0 ELSE n)
      /\ queues'[q].concurrency = queues[q].concurrency
  BY <1>2, <1>3, <1>4 DEF QueueBump, TypeOK, QueueRow
<1>6. queues[q].concurrency \in Nat
  BY <1>3, <1>4, <1>5, LimitsAssumption DEF QueueRow
<1> QED  BY <1>1, <1>2, <1>3, <1>4, <1>5, <1>6 DEF Fits

LEMMA ClaimFitsGroup ==
    ASSUME TypeOK, NEW q \in Queue, NEW S \in SUBSET Msg, NEW limited, NEW spent,
           ClaimGroups(q, S, limited, spent),
           NEW g \in Group, groups'[g].active > groups[g].active,
           groups'[g].concurrency # None
    PROVE  groups'[g].active <= groups'[g].concurrency
<1> DEFINE n == Cardinality(S \cap InGroup(g))
<1>1. n \in Nat
  <2>1. S \cap InGroup(g) \in SUBSET Msg
    OBVIOUS
  <2> QED  BY <2>1, CardinalityNat
<1>2. groups[g] \in GroupRow /\ groups[g].active \in Int
  BY DEF TypeOK, GroupRow
<1>3. groups'[g].active = groups[g].active + n /\ groups'[g].concurrency = groups[g].concurrency
  BY <1>2 DEF ClaimGroups, GroupRow
<1>4. PICK m \in S : groupOf[m] = g
  <2> SUFFICES ASSUME \A m \in S : groupOf[m] # g PROVE FALSE
    OBVIOUS
  <2>1. S \cap InGroup(g) = {}
    BY DEF InGroup
  <2>2. n = 0
    BY <2>1, FS_EmptySet
  <2> QED  BY <1>2, <1>3, <2>2
<1>5. Fits(groups[g].concurrency, groups[g].active, n)
  BY <1>4 DEF ClaimGroups
<1> HIDE DEF n
<1>6. groups[g].concurrency \in Nat
  BY <1>2, <1>3, LimitsAssumption DEF GroupRow
<1> QED  BY <1>1, <1>2, <1>3, <1>5, <1>6 DEF Fits

LEMMA ClaimsFit == ASSUME TypeOK, TypeOK', Claims PROVE WithinLimits
<1>1. PICK q \in Queue, S \in SUBSET Msg, limited \in Limited, spent \in BOOLEAN :
         Claim(q, S, limited, spent) \/ ClaimGroups(q, S, limited, spent)
  BY DEF Claims
<1>2. limited \in BOOLEAN /\ ClaimCommon(q, S, limited, spent)
  BY <1>1, LimitsAssumption DEF Claim, ClaimGroups
<1>3. ASSUME NEW o \in Queue, queues'[o].active > queues[o].active,
             queues'[o].concurrency # None
      PROVE  queues'[o].active <= queues'[o].concurrency
  BY <1>2, <1>3, ClaimFitsQueue
<1>4. ASSUME NEW g \in Group, groups'[g].active > groups[g].active,
             groups'[g].concurrency # None
      PROVE  groups'[g].active <= groups'[g].concurrency
  <2>1. CASE Claim(q, S, limited, spent)
    <3>1. groups'[g].active = groups[g].active /\ groups[g].active \in Int
      BY <2>1 DEF Claim, TypeOK, GroupRow
    <3> QED  BY <1>4, <3>1
  <2>2. CASE ClaimGroups(q, S, limited, spent)
    BY <1>4, <2>2, ClaimFitsGroup
  <2> QED  BY <1>1, <2>1, <2>2
<1> QED  BY <1>3, <1>4 DEF WithinLimits

LEMMA SettleShrinks ==
    ASSUME TypeOK, NEW m \in Msg, NEW tok, Settle(m, tok)
    PROVE  Shrinks
<1>1. CASE Uncount({m})
  BY <1>1, UncountShrinks
<1>2. CASE MoveLimit(m, tok)
  BY <1>2, MoveLimitShrinks
<1> QED
  BY <1>1, <1>2 DEF Settle, FinishByToken, FinishFlagged, Finish, MoveRetry, MoveDefer,
                    MoveRelease, MoveWait

LEMMA AdminShrinks == ASSUME TypeOK, Admin PROVE Shrinks
<1>1. ASSUME NEW m \in Msg, FlagCancel(m) \/ Remove(m) PROVE Shrinks
  BY <1>1, StillShrinks DEF FlagCancel, Remove
<1>2. ASSUME NEW m \in Msg, CancelIdle(m) PROVE Shrinks
  <2>1. Uncount({m})
    BY <1>2 DEF CancelIdle, Finish
  <2> QED  BY <2>1, UncountShrinks
<1>3. ASSUME NEW S \in SUBSET Msg, Retry(S) \/ Purge(S) PROVE Shrinks
  BY <1>3, StillShrinks DEF Retry, Purge
<1>4. ASSUME NEW q \in Queue, NEW p \in BOOLEAN, SetPaused(q, p) PROVE Shrinks
  BY <1>4 DEF SetPaused, Shrinks, TypeOK, QueueRow, GroupRow
<1>5. ASSUME NEW q \in Queue, NEW cap \in QueueCaps, UpsertQueue(q, cap) PROVE Shrinks
  BY <1>5 DEF UpsertQueue, Shrinks, TypeOK, QueueRow, GroupRow
<1>6. ASSUME NEW g \in Group, NEW p \in BOOLEAN, NEW cap \in GroupCaps, SetGroup(g, p, cap)
      PROVE  Shrinks
  BY <1>6 DEF SetGroup, Shrinks, TypeOK, QueueRow, GroupRow
<1> QED  BY <1>1, <1>2, <1>3, <1>4, <1>5, <1>6 DEF Admin

\* A claim that counts itself stays within the concurrency of its queue and of
\* its groups, whatever the limits are changed to in between; nothing else
\* raises a counter.
THEOREM ClaimsWithinLimitsHolds == Spec => ClaimsWithinLimits
<1>1. TypeOK /\ [Next]_vars => [WithinLimits]_vars
  <2> SUFFICES ASSUME TypeOK, Next PROVE WithinLimits
    OBVIOUS
  <2>1. TypeOK'
    BY TypeStep
  <2>2. ASSUME NEW m \in Msg, NEW tok \in 1..MaxClaims, Settle(m, tok) PROVE Shrinks
    BY <2>2, SettleShrinks
  <2>3. ASSUME NEW q \in Queue, NEW S \in SUBSET Msg, Expire(q, S) PROVE Shrinks
    BY <2>3, UncountShrinks DEF Expire
  <2>4. ASSUME NEW m \in Msg, FinishExpired(m) PROVE Shrinks
    <3>1. Uncount({m})
      BY <2>4 DEF FinishExpired, Finish
    <3> QED  BY <3>1, UncountShrinks
  <2>5. ASSUME NEW q \in Queue, LimitEnds(q) PROVE Shrinks
    BY <2>5 DEF LimitEnds, Shrinks, TypeOK, QueueRow, GroupRow
  <2>6. ASSUME \/ \E r \in Msg, D \in SUBSET Msg : Send(r, D)
               \/ \E c \in Msg, tok \in 1..MaxClaims, to \in Live : Spawn(c, tok, to)
               \/ \E S \in SUBSET Msg : Promote(S)
               \/ \E S \in SUBSET Active : Extend({<<m, messages[m].token>> : m \in S})
               \/ \E m \in Msg : Lapse(m)
        PROVE  Shrinks
    BY <2>6, StillShrinks DEF Send, Spawn, Promote, Extend, Lapse
  <2> QED
    BY <2>1, <2>2, <2>3, <2>4, <2>5, <2>6, ClaimsFit, AdminShrinks, ShrunkFits DEF Next
<1> QED  BY InitType, TypeStep, <1>1, PTL DEF Spec, ClaimsWithinLimits

-----------------------------------------------------------------------------
(* Flagged messages.                                                        *)

\* Where a step leaves an active message that is flagged and in its lease.
Minds(m) == messages'[m].state \in {"active", "gone"} \cup Terminal

LEMMA FinishMinds ==
    ASSUME TypeOK, NEW x \in Msg, NEW to \in Terminal, Finish(x, to), NEW m \in Msg, Is(m, "active")
    PROVE  Minds(m)
<1> DEFINE D    == {y \in {x} \cup (IF to = "completed" THEN {} ELSE CascadeOf(x)) :
                      deps[y] = "pending"}
           res  == [y \in Msg |-> Resolution(y, IF y = x THEN to ELSE "failed")]
           h    == Heard(messages[m], D \cap Children(m), res)
<1>1. m \notin CascadeOf(x)
  BY DEF CascadeOf, Is
<1>2. \/ messages'[m] = h
      \/ messages'[m] = Finished(h, to)
      \/ messages'[m] = Blank("gone")
  BY <1>1 DEF Finish
<1>3. messages[m] \in Row /\ messages[m].state = "active"
  BY DEF TypeOK, Is
<1>4. h.state = "active" /\ DOMAIN h = DOMAIN messages[m]
  BY <1>3 DEF Heard, Row
<1> HIDE DEF h
<1>5. Finished(h, to).state = to
  BY <1>3, <1>4 DEF Finished, Row
<1> QED  BY <1>2, <1>4, <1>5 DEF Minds, Blank

LEMMA SettleMinds ==
    ASSUME TypeOK, NEW x \in Msg, NEW tok, Settle(x, tok),
           NEW m \in Msg, Is(m, "active"), messages[m].cancel
    PROVE  Minds(m)
<1>1. ASSUME NEW to \in Terminal, Finish(x, to) PROVE Minds(m)
  BY <1>1, FinishMinds
<1>2. ASSUME NEW to, NEW counts, Move(x, tok, to, counts) PROVE Minds(m)
  <2>1. x # m
    BY <1>2 DEF Move
  <2>2. messages'[m] = messages[m]
    BY <1>2, <2>1 DEF Move, TypeOK
  <2> QED  BY <2>2 DEF Minds, Is
<1> QED
  BY <1>1, <1>2 DEF Settle, FinishByToken, FinishFlagged, MoveRetry, MoveDefer, MoveRelease,
                    MoveLimit, MoveWait, Terminal

LEMMA AdminMinds ==
    ASSUME TypeOK, Admin, NEW m \in Msg, Is(m, "active")
    PROVE  Minds(m)
<1>1. ASSUME NEW x \in Msg, FlagCancel(x) PROVE Minds(m)
  BY <1>1 DEF FlagCancel, Minds, Is, TypeOK, Row
<1>2. ASSUME NEW x \in Msg, CancelIdle(x) PROVE Minds(m)
  BY <1>2, FinishMinds DEF CancelIdle, Terminal
<1>3. ASSUME NEW x \in Msg, Remove(x) PROVE Minds(m)
  <2> DEFINE D   == {y \in {x} : deps[y] \in Unresolved}
             res == [y \in Msg |-> "ignored"]
  <2>1. m \notin TreeOf(x)
    BY <1>3 DEF Remove, Active
  <2>2. messages'[m] = Heard(messages[m], D \cap Children(m), res)
    BY <1>3, <2>1 DEF Remove, Deleted
  <2>3. messages[m] \in Row /\ messages[m].state = "active"
    BY DEF TypeOK, Is
  <2> HIDE DEF D, res
  <2> QED  BY <2>2, <2>3 DEF Minds, Heard, Row
<1>4. ASSUME NEW S \in SUBSET Msg, Retry(S) \/ Purge(S) PROVE Minds(m)
  <2>1. m \notin S
    BY <1>4, LimitsAssumption DEF Retry, Purge, Is, Terminal
  <2>2. messages'[m] = messages[m]
    BY <1>4, <2>1 DEF Retry, Purge, Deleted
  <2> QED  BY <2>2 DEF Minds, Is
<1>5. CASE UNCHANGED messages
  BY <1>5 DEF Minds, Is
<1> QED
  BY <1>1, <1>2, <1>3, <1>4, <1>5 DEF Admin, SetPaused, UpsertQueue, SetGroup

\* What cancel() flagged only its lease gives back to work: its owner completes
\* it, fails it or acknowledges the flag, whatever it tries first.
THEOREM CancelNotDroppedHolds == Spec => CancelNotDropped
<1>1. TypeOK /\ [Next]_vars => [FlagStands]_vars
  <2> SUFFICES ASSUME TypeOK, Next, NEW m \in Msg, Is(m, "active"), messages[m].cancel,
                      ~messages[m].lapsed
               PROVE  Minds(m)
    BY DEF FlagStands, Minds, Active
  <2>1. messages[m] \in Row /\ messages[m].state = "active"
    BY DEF TypeOK, Is
  <2>2. ASSUME NEW r \in Msg, NEW D \in SUBSET Msg, Send(r, D) PROVE Minds(m)
    BY <2>1, <2>2 DEF Send, Minds, Is
  <2>3. ASSUME NEW c \in Msg, NEW tok, NEW to, Spawn(c, tok, to) PROVE Minds(m)
    <3>1. m # c
      BY <2>1, <2>3 DEF Spawn, Is
    <3>2. messages'[m].state = "active"
      BY <2>1, <2>3, <3>1 DEF Spawn, Row
    <3> QED  BY <3>2 DEF Minds
  <2>4. ASSUME NEW S \in SUBSET Msg, Promote(S) PROVE Minds(m)
    BY <2>1, <2>4 DEF Promote, Minds, Is
  <2>5. CASE Claims
    <3>1. PICK q \in Queue, S \in SUBSET Msg, limited \in Limited, spent \in BOOLEAN :
             ClaimCommon(q, S, limited, spent)
      BY <2>5 DEF Claims, Claim, ClaimGroups
    <3>2. m \notin S /\ Take(q, S, limited)
      BY <2>1, <3>1 DEF ClaimCommon, Is
    <3>3. messages'[m] = messages[m]
      BY <3>2 DEF Take
    <3> QED  BY <2>1, <3>3 DEF Minds
  <2>6. ASSUME NEW H, Extend(H) PROVE Minds(m)
    <3>1. messages'[m] \in {messages[m], [messages[m] EXCEPT !.lapsed = FALSE]}
      BY <2>6 DEF Extend
    <3> QED  BY <2>1, <3>1 DEF Minds, Row
  <2>7. ASSUME NEW q \in Queue, NEW S \in SUBSET Msg, Expire(q, S) PROVE Minds(m)
    BY <2>1, <2>7 DEF Expire, Minds
  <2>8. ASSUME NEW x \in Msg, FinishExpired(x) PROVE Minds(m)
    BY <2>8, FinishMinds DEF FinishExpired, Terminal
  <2>9. ASSUME NEW x \in Msg, Lapse(x) PROVE Minds(m)
    BY <2>1, <2>9 DEF Lapse, Minds, TypeOK, Row
  <2>10. ASSUME NEW q \in Queue, LimitEnds(q) PROVE Minds(m)
    BY <2>1, <2>10 DEF LimitEnds, Minds
  <2> QED
    BY <2>2, <2>3, <2>4, <2>5, <2>6, <2>7, <2>8, <2>9, <2>10, SettleMinds, AdminMinds DEF Next
<1> QED  BY InitType, TypeStep, <1>1, PTL DEF Spec, CancelNotDropped
=============================================================================
