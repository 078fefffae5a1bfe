----------------------------- MODULE OutboxProofs -----------------------------
(***************************************************************************)
(* What the relays promise of one ordered topic, for every number of       *)
(* relays, partitions and records.                                         *)
(*                                                                         *)
(* No record is marked delivered that the sink did not take: a serve only  *)
(* settles what the sink reported as taken in the call it waited for, and  *)
(* starts every wave with nothing taken.                                   *)
(*                                                                         *)
(* The records of a key reach a sink that fences by epoch in the order of  *)
(* their ids: before a record that is sent, every other of its key is      *)
(* done; no two relays ever work at a partition under the same epoch; and  *)
(* what a relay with an older epoch still holds of the settled records,    *)
(* the sink refuses.                                                       *)
(***************************************************************************)
EXTENDS OutboxRelay, FiniteSetTheorems, TLAPS

RecordRow == [state : {"none", "open", "pending", "delivered", "parked", "gone"},
              attempts : Nat, due : BOOLEAN]
RelayRow == [pc : {"down", "loop", "excess", "closed"}, held : [Partitions -> Nat],
             todo : SUBSET Partitions, live : Nat, churn : Nat]
ServeRow == [pc : {"idle", "wave", "sink", "fail"}, epoch : Nat,
             rest : SUBSET Records, wave : SUBSET Records, sent : SUBSET Records,
             ok : SUBSET Records, keys : SUBSET Keys]
LeaseRow == [epoch : Nat, owner : Relays \cup {NoRelay}, live : BOOLEAN]

\* The rows, and the memory of the relays.
Rows ==
    /\ rec \in [Records -> RecordRow]
    /\ part \in [Partitions -> LeaseRow]
    /\ rel \in [Relays -> RelayRow]
    /\ srv \in [Relays -> [Partitions -> ServeRow]]

\* What a serve takes for delivered was taken.
OkTaken == \A r \in Relays, p \in Partitions : srv[r][p].ok \subseteq accepted

Delivery == Rows /\ OkTaken /\ NothingLost

LEMMA LiveType == Live \in Nat
<1>1. {r \in Relays : fresh[r]} \in SUBSET Relays
  OBVIOUS
<1> QED  BY <1>1, OutboxAssumption, FS_Subset, FS_CardinalityType DEF Live

LEMMA IdleType == Idle \in ServeRow /\ Idle.ok = {}
  BY DEF Idle, ServeRow, NotHeld

LEMMA DownType == Down \in RelayRow /\ [Down EXCEPT !.pc = "closed"] \in RelayRow
  BY DEF Down, RelayRow, NotHeld

\* A step changes one serve, and what it takes for delivered was taken.
LEMMA ServeStep ==
    ASSUME Rows, OkTaken, NEW r \in Relays, NEW p \in Partitions,
           NEW new \in ServeRow, srv' = [srv EXCEPT ![r][p] = new],
           new.ok \subseteq accepted', accepted \subseteq accepted'
    PROVE  srv' \in [Relays -> [Partitions -> ServeRow]] /\ OkTaken'
  BY DEF Rows, OkTaken

\* A step that leaves the serves alone.
LEMMA NoServe ==
    ASSUME OkTaken, srv' = srv, accepted \subseteq accepted' PROVE OkTaken'
  BY DEF OkTaken

\* A step that leaves the records and the sink alone.
LEMMA NoSettle == ASSUME NothingLost, rec' = rec, accepted \subseteq accepted' PROVE NothingLost'
  BY DEF NothingLost, InState

-----------------------------------------------------------------------------
LEMMA WritersStep == ASSUME Delivery, Writers PROVE Delivery'
<1>1. UNCHANGED <<part, rel, srv, accepted>>
  BY DEF Writers, Write, EndWrite, sink
<1>2. PICK i \in Records, state \in {"open", "pending", "gone"} :
        rec' = [rec EXCEPT ![i].state = state]
  BY DEF Writers, Write, EndWrite
<1>3. rec' \in [Records -> RecordRow]
  BY <1>2 DEF Delivery, Rows, RecordRow
<1>4. InState("delivered")' \subseteq InState("delivered")
  BY <1>2 DEF InState, Delivery, Rows, RecordRow
<1> QED  BY <1>1, <1>3, <1>4, NoServe DEF Delivery, Rows, NothingLost

LEMMA HeartbeatTypes ==
    ASSUME Rows, NEW r \in Relays, heartbeat(r)
    PROVE  part' \in [Partitions -> LeaseRow] /\ rel' \in [Relays -> RelayRow]
<1> DEFINE kept == {p \in HeldBy(r) : Owns(r, p, rel[r].held[p])}
           held == [p \in Partitions |-> IF p \in kept THEN rel[r].held[p] ELSE NotHeld]
           live == Cardinality({q \in Relays : fresh'[q]})
           pc == IF rel[r].pc = "down" THEN "loop" ELSE rel[r].pc
<1>1. part' \in [Partitions -> LeaseRow]
  BY DEF heartbeat, Rows, LeaseRow
<1>2. live \in Nat
  <2>1. {q \in Relays : fresh'[q]} \in SUBSET Relays
    OBVIOUS
  <2> QED  BY <2>1, OutboxAssumption, FS_Subset, FS_CardinalityType
<1>3. held \in [Partitions -> Nat] /\ pc \in {"down", "loop", "excess", "closed"}
  BY DEF Rows, RelayRow, NotHeld
<1> DEFINE new == [rel[r] EXCEPT !.held = held, !.live = live, !.churn = 0, !.pc = pc]
<1>4. rel' = [rel EXCEPT ![r] = new]
  BY DEF heartbeat
<1> HIDE DEF held, live, pc
<1>5. new \in RelayRow
  BY <1>2, <1>3 DEF Rows, RelayRow
<1> HIDE DEF new
<1>6. rel' \in [Relays -> RelayRow]
  BY <1>4, <1>5 DEF Rows
<1> QED  BY <1>1, <1>6

LEMMA GivenType == ASSUME Rows, NEW r \in Relays, NEW S PROVE Given(r, S) \in [Partitions -> LeaseRow]
  BY Zenon DEF Given, Rows, LeaseRow

\* Steps on the leases: the records, the serves and the sink stay.
LEMMA RelayStep ==
    ASSUME Delivery, NEW r \in Relays,
           Start(r) \/ Beat(r) \/ Rebalance(r) \/ Close(r)
    PROVE  Delivery'
<1>1. UNCHANGED <<rec, srv, accepted>>
  BY DEF Start, Beat, Rebalance, Acquire, SkipAcquire, ReleaseExcess, Close, table, sink
<1>2. part' \in [Partitions -> LeaseRow] /\ rel' \in [Relays -> RelayRow]
  <2>1. CASE Start(r) \/ Beat(r)
    BY <2>1, HeartbeatTypes DEF Delivery, Start, Beat
  <2>2. CASE Acquire(r)
    <3>1. PICK got :
            /\ part' = [p \in Partitions |->
                          IF p \in got
                          THEN [epoch |-> part[p].epoch + 1, owner |-> r, live |-> TRUE]
                          ELSE part[p]]
            /\ Round(r, [p \in Partitions |-> IF p \in got THEN part[p].epoch + 1
                                              ELSE rel[r].held[p]], Live)
      BY <2>2 DEF Acquire
    <3> DEFINE held == [p \in Partitions |-> IF p \in got THEN part[p].epoch + 1
                                             ELSE rel[r].held[p]]
               mine == {p \in Partitions : held[p] # NotHeld}
               over == Cardinality(mine) > fairShare(Live)
               pc == IF over THEN "excess" ELSE "loop"
               todo == IF over THEN {} ELSE mine
               new == [rel[r] EXCEPT !.held = held, !.live = Live, !.pc = pc, !.todo = todo]
    <3>2. part' \in [Partitions -> LeaseRow] /\ held \in [Partitions -> Nat]
      BY <3>1 DEF Delivery, Rows, LeaseRow, RelayRow
    <3>3. rel' = [rel EXCEPT ![r] = new]
      BY <3>1 DEF Round
    <3>5. pc \in {"excess", "loop"} /\ todo \in SUBSET Partitions
      OBVIOUS
    <3> HIDE DEF held, pc, todo
    <3>4. new \in RelayRow
      <4>1. rel[r] \in RelayRow
        BY DEF Delivery, Rows
      <4> QED  BY <3>2, <3>5, <4>1, LiveType DEF RelayRow
    <3> HIDE DEF new
    <3> QED  BY <3>2, <3>3, <3>4 DEF Delivery, Rows
  <2>3. CASE SkipAcquire(r)
    <3>1. part' = part /\ rel' = [rel EXCEPT ![r].pc = "excess"]
      BY <2>3 DEF SkipAcquire
    <3>2. [rel[r] EXCEPT !.pc = "excess"] \in RelayRow
      BY DEF Delivery, Rows, RelayRow
    <3> QED  BY <3>1, <3>2 DEF Delivery, Rows
  <2>4. CASE ReleaseExcess(r)
    <3>1. PICK extra :
            /\ part' = Given(r, extra)
            /\ rel' = [rel EXCEPT ![r] =
                 [rel[r] EXCEPT !.pc = "loop", !.todo = HeldBy(r) \ extra,
                                !.churn = rel[r].churn + 1,
                                !.held = [p \in Partitions |-> IF p \in extra THEN NotHeld
                                                               ELSE rel[r].held[p]]]]
      BY <2>4, Zenon DEF ReleaseExcess
    <3> DEFINE held == [p \in Partitions |-> IF p \in extra THEN NotHeld ELSE rel[r].held[p]]
               todo == HeldBy(r) \ extra
               churn == rel[r].churn + 1
               new == [rel[r] EXCEPT !.pc = "loop", !.todo = todo, !.churn = churn, !.held = held]
    <3>2. held \in [Partitions -> Nat] /\ todo \in SUBSET Partitions /\ churn \in Nat
      BY DEF Delivery, Rows, RelayRow, NotHeld, HeldBy
    <3>3. rel' = [rel EXCEPT ![r] = new]
      BY <3>1
    <3> HIDE DEF held, todo, churn
    <3>4. new \in RelayRow
      BY <3>2 DEF Delivery, Rows, RelayRow
    <3> HIDE DEF new
    <3> QED  BY <3>1, <3>3, <3>4, GivenType DEF Delivery, Rows
  <2>5. CASE Close(r)
    <3>1. rel' = [rel EXCEPT ![r] = [Down EXCEPT !.pc = "closed"]] /\ part' = Given(r, HeldBy(r))
      BY <2>5 DEF Close
    <3> QED  BY <3>1, DownType, GivenType DEF Delivery, Rows
  <2> QED  BY <2>1, <2>2, <2>3, <2>4, <2>5 DEF Rebalance
<1> QED  BY <1>1, <1>2, NoServe, NoSettle DEF Delivery, Rows

LEMMA CrashStep == ASSUME Delivery, NEW r \in Relays, Crash(r) PROVE Delivery'
<1>1. /\ rel' = [rel EXCEPT ![r] = Down]
      /\ srv' = [srv EXCEPT ![r] = [p \in Partitions |-> Idle]]
      /\ UNCHANGED <<rec, part, accepted>>
  BY DEF Crash, table
<1>2. rel' \in [Relays -> RelayRow] /\ srv' \in [Relays -> [Partitions -> ServeRow]]
  BY <1>1, DownType, IdleType DEF Delivery, Rows
<1>3. OkTaken'
  BY <1>1, IdleType DEF OkTaken, Delivery, Rows
<1> QED  BY <1>1, <1>2, <1>3, NoSettle DEF Delivery, Rows

-----------------------------------------------------------------------------
(* Serving a partition.                                                    *)

\* A serve moves on, and neither records nor sink change.
LEMMA ServeOnly ==
    ASSUME Delivery, NEW r \in Relays, NEW p \in Partitions, NEW new \in ServeRow,
           srv' = [srv EXCEPT ![r][p] = new], new.ok \in {{}, srv[r][p].ok},
           UNCHANGED <<rec, part, accepted>>, rel' \in [Relays -> RelayRow]
    PROVE  Delivery'
<1>1. new.ok \subseteq accepted'
  BY DEF Delivery, OkTaken
<1> QED  BY <1>1, ServeStep, NoSettle DEF Delivery, Rows

LEMMA ForgetsType ==
    ASSUME Rows, NEW r \in Relays, NEW p \in Partitions
    PROVE  Forgets(r, p) \in [Relays -> RelayRow]
<1>1. rel[r] \in RelayRow /\ rel[r].held \in [Partitions -> Nat] /\ NotHeld \in Nat
  BY DEF Rows, RelayRow, NotHeld
<1>2. [rel[r].held EXCEPT ![p] = NotHeld] \in [Partitions -> Nat]
  BY <1>1
<1>3. [rel[r] EXCEPT !.held = [rel[r].held EXCEPT ![p] = NotHeld]] \in RelayRow
  BY <1>1, <1>2 DEF RelayRow
<1> QED  BY <1>1, <1>3 DEF Forgets, Rows

LEMMA LoseStep ==
    ASSUME Delivery, NEW r \in Relays, NEW p \in Partitions, Lose(r, p),
           UNCHANGED <<part, accepted>>
    PROVE  Delivery'
<1>1. srv' = [srv EXCEPT ![r][p] = Idle] /\ rec' = rec /\ rel' = Forgets(r, p)
  BY DEF Lose
<1> QED  BY <1>1, IdleType, ForgetsType, ServeOnly DEF Delivery

LEMMA ReadStep ==
    ASSUME Delivery, NEW r \in Relays, NEW p \in Partitions, readPartition(r, p)
    PROVE  Delivery'
<1> DEFINE rows == FirstOf(Deliverable(p), BatchSize)
           new == [Idle EXCEPT !.pc = "wave", !.rest = rows, !.epoch = rel[r].held[p]]
<1>1. rel' \in [Relays -> RelayRow] /\ UNCHANGED <<rec, part, accepted>>
  <2>1. rel' = [rel EXCEPT ![r].todo = @ \ {p}] /\ UNCHANGED <<rec, part, accepted>>
    BY DEF readPartition, table, sink
  <2>2. rel[r] \in RelayRow
    BY DEF Delivery, Rows
  <2>3. [rel[r] EXCEPT !.todo = @ \ {p}] \in RelayRow
    BY <2>2 DEF RelayRow
  <2> QED  BY <2>1, <2>3 DEF Delivery, Rows
<1>2. srv' = srv \/ srv' = [srv EXCEPT ![r][p] = new]
  BY DEF readPartition
<1>3. rows \in SUBSET Records /\ rel[r].held[p] \in Nat
  BY DEF FirstOf, Deliverable, InState, Delivery, Rows, RelayRow
<1> HIDE DEF rows
<1>4. new \in ServeRow /\ new.ok = {}
  BY <1>3 DEF Idle, ServeRow
<1> HIDE DEF new
<1>5. CASE srv' = srv
  BY <1>1, <1>5, NoServe, NoSettle DEF Delivery, Rows
<1>6. CASE srv' = [srv EXCEPT ![r][p] = new]
  BY <1>1, <1>4, <1>6, ServeOnly
<1> QED  BY <1>2, <1>5, <1>6

LEMMA NextWaveStep ==
    ASSUME Delivery, NEW r \in Relays, NEW p \in Partitions, NextWave(r, p)
    PROVE  Delivery'
<1> DEFINE me == srv[r][p]
           wave == {i \in Heads(me.rest) : KeyOf[i] \notin me.keys}
           rest == me.rest \ Heads(me.rest)
           dropped == [me EXCEPT !.rest = rest]
           sending == [me EXCEPT !.pc = "sink", !.rest = rest, !.wave = wave,
                                 !.sent = wave, !.ok = {}]
<1>1. UNCHANGED <<rec, part, rel, accepted>> /\ rel' \in [Relays -> RelayRow]
  BY DEF NextWave, Delivery, Rows, table, sink
<1>2. \E new \in {Idle, dropped, sending} : srv' = [srv EXCEPT ![r][p] = new]
  BY DEF NextWave
<1>3. me \in ServeRow
  BY DEF Delivery, Rows
<1>4. wave \in SUBSET Records /\ rest \in SUBSET Records
  BY <1>3 DEF Heads, ServeRow
<1> HIDE DEF wave, rest, me
<1>5. dropped \in ServeRow /\ dropped.ok = me.ok
  BY <1>3, <1>4 DEF ServeRow
<1>6. sending \in ServeRow /\ sending.ok = {}
  BY <1>3, <1>4 DEF ServeRow
<1> HIDE DEF dropped, sending
<1>7. \A new \in {Idle, dropped, sending} : new \in ServeRow /\ new.ok \in {{}, srv[r][p].ok}
  BY <1>5, <1>6, IdleType DEF me
<1> QED  BY <1>1, <1>2, <1>7, ServeOnly

\* The sink takes the record, and then the serve may take it for delivered.
LEMMA DeliverStep ==
    ASSUME Delivery, NEW r \in Relays, NEW p \in Partitions, NEW i \in Records, Deliver(r, p, i)
    PROVE  Delivery'
<1> DEFINE me == srv[r][p]
           row(ok) == [me EXCEPT !.sent = me.sent \ {i}, !.ok = ok]
           unsent == [me EXCEPT !.sent = me.sent \ {i}]
<1>1. UNCHANGED <<rec, part, rel>>
  BY DEF Deliver, table
<1>2. me \in ServeRow /\ me.ok \subseteq accepted
  BY DEF Delivery, Rows, OkTaken
<1>3. CASE /\ Takes(p, me.epoch, i)
           /\ \E ok \in {me.ok, me.ok \cup {i}} : srv' = [srv EXCEPT ![r][p] = row(ok)]
  <2>1. PICK ok \in {me.ok, me.ok \cup {i}} : srv' = [srv EXCEPT ![r][p] = row(ok)]
    BY <1>3
  <2>2. accepted' = accepted \cup {i}
    BY <1>3 DEF Takes
  <2> HIDE DEF me
  <2>3. row(ok) \in ServeRow /\ row(ok).ok = ok
    BY <1>2, <2>1 DEF ServeRow
  <2>4. row(ok).ok \subseteq accepted' /\ accepted \subseteq accepted'
    BY <1>2, <2>1, <2>2, <2>3
  <2> HIDE DEF row
  <2>5. srv' \in [Relays -> [Partitions -> ServeRow]] /\ OkTaken'
    BY <2>1, <2>3, <2>4, ServeStep DEF Delivery
  <2> QED  BY <1>1, <2>2, <2>5, NoSettle DEF Delivery, Rows
<1>4. CASE srv' = [srv EXCEPT ![r][p] = unsent] /\ UNCHANGED <<seen, accepted, last>>
  <2> HIDE DEF me
  <2>1. unsent \in ServeRow /\ unsent.ok = me.ok
    BY <1>2 DEF ServeRow
  <2> HIDE DEF unsent
  <2> QED  BY <1>1, <1>4, <2>1, ServeOnly DEF Delivery, Rows, me
<1> QED  BY <1>3, <1>4 DEF Deliver

\* What is marked delivered was reported as taken.
LEMMA SettleDeliveredStep ==
    ASSUME Delivery, NEW r \in Relays, NEW p \in Partitions, settleDelivered(r, p)
    PROVE  Delivery'
<1> DEFINE me == srv[r][p]
           new == [me EXCEPT !.pc = "fail", !.wave = me.wave \ me.ok]
<1>1. UNCHANGED <<part, accepted>>
  BY DEF settleDelivered, sink
<1>2. CASE Lose(r, p)
  BY <1>1, <1>2, LoseStep
<1>3. CASE /\ rec' = [i \in Records |-> IF i \in me.ok THEN [rec[i] EXCEPT !.state = "delivered"]
                                        ELSE rec[i]]
           /\ srv' = [srv EXCEPT ![r][p] = new] /\ UNCHANGED rel
  <2>1. me \in ServeRow /\ me.ok \subseteq accepted
    BY DEF Delivery, Rows, OkTaken
  <2>2. rec' \in [Records -> RecordRow]
    BY <1>3 DEF Delivery, Rows, RecordRow
  <2>3. InState("delivered")' \subseteq InState("delivered") \cup me.ok
    BY <1>3 DEF InState
  <2>4. NothingLost'
    BY <1>1, <2>1, <2>3 DEF Delivery, NothingLost
  <2> HIDE DEF me
  <2>5. new \in ServeRow /\ new.ok = me.ok
    BY <2>1 DEF ServeRow
  <2> HIDE DEF new
  <2>6. srv' \in [Relays -> [Partitions -> ServeRow]] /\ OkTaken'
    BY <1>1, <1>3, <2>1, <2>5, ServeStep DEF Delivery
  <2> QED  BY <1>1, <1>3, <2>2, <2>4, <2>6 DEF Delivery, Rows
<1> QED  BY <1>2, <1>3 DEF settleDelivered

\* A failed or parked record was pending or settled otherwise: it is not
\* marked delivered by this.
LEMMA SettleFailedStep ==
    ASSUME Delivery, NEW r \in Relays, NEW p \in Partitions, NEW i \in Records,
           settleFailed(r, p, i) \/ settleParked(r, p, i)
    PROVE  Delivery'
<1> DEFINE me == srv[r][p]
           wave == me.wave \ {i}
           keys == me.keys \cup KeysOf({i})
           new == [me EXCEPT !.wave = wave, !.keys = keys]
<1>1. UNCHANGED <<part, accepted>>
  BY DEF settleFailed, settleParked, Failed, sink
<1>2. CASE Lose(r, p)
  BY <1>1, <1>2, LoseStep
<1>3. CASE Settled(r, p, i) /\ UNCHANGED rel
           /\ (\/ rec' = [rec EXCEPT ![i].attempts = @ + 1, ![i].due = @ /\ Keyed(i)]
               \/ rec' = [rec EXCEPT ![i].state = "parked", ![i].attempts = 0])
  <2>1. me \in ServeRow
    BY DEF Delivery, Rows
  <2>2. wave \in SUBSET Records /\ keys \in SUBSET Keys
    BY <2>1, OutboxAssumption DEF ServeRow, KeysOf
  <2>3. srv' = [srv EXCEPT ![r][p] = new]
    BY <1>3 DEF Settled
  <2> HIDE DEF me, wave, keys
  <2>4. new \in ServeRow /\ new.ok = me.ok
    BY <2>1, <2>2 DEF ServeRow
  <2> HIDE DEF new
  <2>5. srv' \in [Relays -> [Partitions -> ServeRow]] /\ OkTaken'
    BY <1>1, <2>3, <2>4, ServeStep DEF Delivery, OkTaken, me
  <2>6. rec' \in [Records -> RecordRow] /\ \A j \in Records : rec'[j].state # rec[j].state
                                                              => rec'[j].state = "parked"
    <3>1. CASE rec' = [rec EXCEPT ![i].attempts = @ + 1, ![i].due = @ /\ Keyed(i)]
      <4> DEFINE due == rec[i].due /\ Keyed(i)
                 row == [rec[i] EXCEPT !.attempts = rec[i].attempts + 1, !.due = due]
      <4>1. rec[i] \in RecordRow /\ rec[i].attempts + 1 \in Nat
        BY DEF Delivery, Rows, RecordRow
      <4>4. due \in BOOLEAN
        OBVIOUS
      <4>5. rec' = [rec EXCEPT ![i] = row]
        BY <3>1 DEF Delivery, Rows
      <4> HIDE DEF due
      <4>6. row \in RecordRow
        BY <4>1, <4>4 DEF RecordRow
      <4> HIDE DEF row
      <4>2. \A j \in Records : rec'[j].state = rec[j].state
        BY <3>1 DEF Delivery, Rows, RecordRow
      <4>3. rec' \in [Records -> RecordRow]
        BY <4>5, <4>6 DEF Delivery, Rows
      <4> QED  BY <4>2, <4>3
    <3>2. CASE rec' = [rec EXCEPT ![i].state = "parked", ![i].attempts = 0]
      BY <3>2 DEF Delivery, Rows, RecordRow
    <3> QED  BY <1>3, <3>1, <3>2
  <2>7. NothingLost'
    BY <1>1, <2>6 DEF Delivery, NothingLost, InState
  <2> QED  BY <1>1, <1>3, <2>5, <2>6, <2>7 DEF Delivery, Rows
<1>4. \/ Lose(r, p)
      \/ /\ Settled(r, p, i) /\ UNCHANGED rel
         /\ \/ rec' = [rec EXCEPT ![i].attempts = @ + 1, ![i].due = @ /\ Keyed(i)]
            \/ rec' = [rec EXCEPT ![i].state = "parked", ![i].attempts = 0]
  BY DEF settleFailed, settleParked
<1> QED  BY <1>2, <1>3, <1>4

LEMMA WaveEnds ==
    ASSUME Delivery, NEW r \in Relays, NEW p \in Partitions,
           WaveDone(r, p) \/ StatementFails(r, p)
    PROVE  Delivery'
<1> DEFINE me == srv[r][p]
           new == [me EXCEPT !.pc = "wave"]
<1>1. UNCHANGED <<rec, part, rel, accepted>> /\ rel' \in [Relays -> RelayRow]
  BY DEF WaveDone, StatementFails, table, sink, Delivery, Rows
<1>2. \E x \in {Idle, new} : srv' = [srv EXCEPT ![r][p] = x]
  BY DEF WaveDone, StatementFails
<1>3. me \in ServeRow
  BY DEF Delivery, Rows
<1> HIDE DEF me
<1>4. new \in ServeRow /\ new.ok = me.ok
  BY <1>3 DEF ServeRow
<1> HIDE DEF new
<1> QED  BY <1>1, <1>2, <1>4, IdleType, ServeOnly DEF me

LEMMA LateStep == ASSUME Delivery, NEW c \in late, DeliverLate(c) PROVE Delivery'
<1>1. accepted \subseteq accepted' /\ UNCHANGED <<rec, part, rel, srv>>
  BY DEF DeliverLate, Takes, table
<1> QED  BY <1>1, NoServe, NoSettle DEF Delivery, Rows

LEMMA TimeStep ==
    ASSUME Delivery,
           \/ \E p \in Partitions : LapseUnheld(p) \/ LapseStalled(p)
           \/ \E r \in Relays : Unseen(r) \/ UnseenStalled(r)
    PROVE  Delivery'
<1>1. UNCHANGED <<rec, rel, srv, accepted>>
  BY DEF LapseUnheld, LapseStalled, Lapse, Unseen, UnseenStalled, Fades, table, sink
<1>2. part' \in [Partitions -> LeaseRow]
  <2>1. ASSUME NEW p \in Partitions, Lapse(p) PROVE part' \in [Partitions -> LeaseRow]
    BY <2>1 DEF Lapse, Delivery, Rows, LeaseRow
  <2>2. ASSUME NEW r \in Relays, Fades(r) PROVE part' \in [Partitions -> LeaseRow]
    BY <2>2 DEF Fades, Delivery, Rows
  <2> QED  BY <2>1, <2>2 DEF LapseUnheld, LapseStalled, Unseen, UnseenStalled
<1> QED  BY <1>1, <1>2, NoServe, NoSettle DEF Delivery, Rows

\* Delays end and the administrator acts: no record becomes delivered.
LEMMA AdminStep ==
    ASSUME Delivery, Delay \/ setPaused \/ \E i \in Records : replay(i) \/ discard(i)
    PROVE  Delivery'
<1>1. UNCHANGED <<part, rel, srv, accepted>>
  BY DEF Delay, setPaused, replay, discard, Administers, sink
<1>2. \/ rec' = rec
      \/ \E i \in Records :
            \/ rec' = [rec EXCEPT ![i].due = TRUE]
            \/ rec' = [rec EXCEPT ![i] = [state |-> "pending", attempts |-> 0, due |-> TRUE]]
            \/ rec' = [rec EXCEPT ![i].state = "gone"]
  BY DEF Delay, DelayEnds, setPaused, replay, discard
<1>3. /\ rec' \in [Records -> RecordRow]
      /\ \A j \in Records : rec'[j].state = "delivered" => rec[j].state = "delivered"
  <2>1. ASSUME NEW i \in Records, rec' = [rec EXCEPT ![i].due = TRUE] PROVE <1>3
    BY <2>1 DEF Delivery, Rows, RecordRow
  <2>2. ASSUME NEW i \in Records,
               rec' = [rec EXCEPT ![i] = [state |-> "pending", attempts |-> 0, due |-> TRUE]]
        PROVE <1>3
    BY <2>2 DEF Delivery, Rows, RecordRow
  <2>3. ASSUME NEW i \in Records, rec' = [rec EXCEPT ![i].state = "gone"] PROVE <1>3
    BY <2>3 DEF Delivery, Rows, RecordRow
  <2>4. CASE rec' = rec
    BY <2>4 DEF Delivery, Rows
  <2> QED  BY <1>2, <2>1, <2>2, <2>3, <2>4
<1>4. InState("delivered")' \subseteq InState("delivered")
  BY <1>3 DEF InState
<1> QED  BY <1>1, <1>3, <1>4, NoServe DEF Delivery, Rows, NothingLost

-----------------------------------------------------------------------------
LEMMA DeliveryInit == Init => Delivery
<1> SUFFICES ASSUME Init PROVE Delivery
  OBVIOUS
<1>1. Rows
  <2>1. rec \in [Records -> RecordRow] /\ part \in [Partitions -> LeaseRow]
    BY DEF Init, RecordRow, LeaseRow
  <2>2. rel \in [Relays -> RelayRow]
    BY DownType DEF Init
  <2>3. srv \in [Relays -> [Partitions -> ServeRow]]
    BY IdleType DEF Init
  <2> QED  BY <2>1, <2>2, <2>3 DEF Rows
<1>2. OkTaken
  BY IdleType DEF Init, OkTaken
<1>3. NothingLost
  BY DEF Init, NothingLost, InState
<1> QED  BY <1>1, <1>2, <1>3 DEF Delivery

LEMMA DeliveryStep == Delivery /\ [Next]_vars => Delivery'
<1> SUFFICES ASSUME Delivery, [Next]_vars PROVE Delivery'
  OBVIOUS
<1>1. CASE Writers
  BY <1>1, WritersStep
<1>2. ASSUME NEW r \in Relays, Start(r) \/ Beat(r) \/ Rebalance(r) \/ Close(r)
      PROVE Delivery'
  BY <1>2, RelayStep
<1>3. ASSUME NEW r \in Relays, Crash(r) PROVE Delivery'
  BY <1>3, CrashStep
<1>4. ASSUME NEW r \in Relays, NEW p \in Partitions, Serve(r, p) PROVE Delivery'
  <2>1. CASE readPartition(r, p)
    BY <2>1, ReadStep
  <2>2. CASE NextWave(r, p)
    BY <2>2, NextWaveStep
  <2>3. CASE settleDelivered(r, p)
    BY <2>3, SettleDeliveredStep
  <2>4. CASE WaveDone(r, p)
    BY <2>4, WaveEnds
  <2>5. ASSUME NEW i \in Records, Deliver(r, p, i) PROVE Delivery'
    BY <2>5, DeliverStep
  <2>6. ASSUME NEW i \in Records, settleFailed(r, p, i) \/ settleParked(r, p, i) PROVE Delivery'
    BY <2>6, SettleFailedStep
  <2> QED  BY <1>4, <2>1, <2>2, <2>3, <2>4, <2>5, <2>6 DEF Serve
<1>5. ASSUME NEW r \in Relays, NEW p \in Partitions, StatementFails(r, p) PROVE Delivery'
  BY <1>5, WaveEnds
<1>6. ASSUME NEW c \in late, DeliverLate(c) PROVE Delivery'
  BY <1>6, LateStep
<1>7. CASE \/ \E p \in Partitions : LapseUnheld(p) \/ LapseStalled(p)
           \/ \E r \in Relays : Unseen(r) \/ UnseenStalled(r)
  BY <1>7, TimeStep
<1>8. CASE Delay \/ setPaused \/ \E i \in Records : replay(i) \/ discard(i)
  BY <1>8, AdminStep
<1>9. CASE UNCHANGED vars
  BY <1>9, NoServe, NoSettle DEF vars, Delivery, Rows
<1> QED  BY <1>1, <1>2, <1>3, <1>4, <1>5, <1>6, <1>7, <1>8, <1>9 DEF Next, Time

\* What a serve settles as delivered the sink has taken, through lost leases,
\* crashes, failed statements and calls that arrive late.
THEOREM DeliveryInvariant == Spec => []Delivery
  BY DeliveryInit, DeliveryStep, PTL DEF Spec

\* No record is marked delivered that the sink did not take.
THEOREM NothingIsLost == Spec => []NothingLost
<1>1. Delivery => NothingLost
  BY DEF Delivery
<1> QED  BY <1>1, DeliveryInvariant, PTL

-----------------------------------------------------------------------------
(* The order of a key.                                                     *)

\* A record that nothing delivers any more.
Done(i) == rec[i].state \in {"delivered", "gone"}
\* Every earlier record of the key is delivered or discarded.
Prior(i) == \A j \in Records : SameKey(j, i) /\ j < i => Done(j)

\* What the table says of keys.
Table ==
    /\ blocked \in [Keys -> {"no", "delay", "forever"}]
    /\ \A i, j \in Records : SameKey(i, j) /\ i < j /\ rec[j].state # "none"
                             => rec[i].state \notin {"none", "open"}
    /\ \A i \in Records : Keyed(i) => rec[i].due
    /\ \A i \in Records : rec[i].state = "parked" /\ Keyed(i)
                          => blocked[KeyOf[i]] = "forever" /\ Prior(i)

\* Relay r holds, or still works under, epoch e of partition p.
Uses(r, p, e) == e # NotHeld /\ e \in {rel[r].held[p], srv[r][p].epoch}

\* An epoch of a partition belongs to one relay; that of a call under way
\* belongs to a relay that died, and to nobody now.
Epochs ==
    /\ \A r \in Relays, p \in Partitions :
          rel[r].held[p] <= part[p].epoch /\ srv[r][p].epoch <= part[p].epoch
    /\ \A q, r \in Relays, p \in Partitions : \A e \in Nat :
          Uses(q, p, e) /\ Uses(r, p, e) => q = r
    /\ \A c \in late : c.epoch <= part[c.p].epoch /\ \A r \in Relays : ~Uses(r, c.p, c.epoch)

\* What a serve still has to deliver.
Load(s) == s.wave \cup s.rest

\* A wave holds the first record of its keys, and no key that failed before.
Shaped(s, p) ==
    /\ s.sent \subseteq s.wave /\ s.wave \cap s.rest = {}
    /\ s.pc = "sink" => s.ok \subseteq s.wave
    /\ s.pc \in {"idle", "wave"} => s.wave = {}
    /\ s.pc = "fail" => s.sent = {}
    /\ s.epoch = NotHeld => Load(s) = {}
    /\ \A i \in Load(s) : PartitionOf[i] = p
    /\ \A i \in s.wave : KeyOf[i] \notin s.keys /\ \A j \in Load(s) : SameKey(i, j) => i <= j

\* A serve leaves out no earlier record of a key that did not fail under it.
Follows(s) ==
    \A j \in Load(s) : KeyOf[j] \notin s.keys =>
        \A i \in Records : SameKey(i, j) /\ i < j => i \in Load(s) \/ Done(i)

\* What the serve of the current epoch holds nobody else settles.
Leads(s, p) == s.epoch = part[p].epoch => \A i \in Load(s) : rec[i].state = "pending"

\* A record that was delivered meanwhile was so under a higher epoch.
Refused(p, e, i) == rec[i].state = "delivered" => e < seen[p]

\* What a serve of the partition p may rely on.
Serving(s, p) ==
    /\ Shaped(s, p) /\ Follows(s) /\ Leads(s, p)
    /\ \A i \in Load(s) : Refused(p, s.epoch, i)
    /\ s.ok # {} => s.epoch <= seen[p]

\* A call under way of a relay that died.
Calling(c) ==
    /\ c \in [p : Partitions, epoch : Nat \ {NotHeld}, id : Records]
    /\ PartitionOf[c.id] = c.p
    /\ Refused(c.p, c.epoch, c.id) /\ Prior(c.id)

\* What came before the last record that the sink took of a key is done.
Sink ==
    /\ seen \in [Partitions -> Nat] /\ last \in [Keys -> Nat]
    /\ \A i \in Records : Keyed(i) /\ i < last[KeyOf[i]] => Done(i)

\* The invariant behind the order of a key.
Ordered ==
    /\ Rows /\ Table /\ Epochs /\ Sink
    /\ \A r \in Relays, p \in Partitions : Serving(srv[r][p], p)
    /\ \A c \in late : Calling(c)

-----------------------------------------------------------------------------
LEMMA RowFacts ==
    ASSUME Rows, NEW r \in Relays, NEW p \in Partitions
    PROVE  /\ srv[r][p] \in ServeRow /\ srv[r][p].epoch \in Nat
           /\ rel[r].held[p] \in Nat /\ part[p].epoch \in Nat
<1>1. srv[r][p] \in ServeRow /\ rel[r] \in RelayRow /\ part[p] \in LeaseRow
  BY DEF Rows
<1>2. srv[r][p].epoch \in Nat
  BY <1>1 DEF ServeRow
<1>3. rel[r].held[p] \in Nat
  BY <1>1 DEF RelayRow
<1>4. part[p].epoch \in Nat
  BY <1>1 DEF LeaseRow
<1> QED  BY <1>1, <1>2, <1>3, <1>4

LEMMA LeaseFacts == ASSUME Rows, NEW p \in Partitions PROVE part[p].epoch \in Nat
  BY DEF Rows, LeaseRow

\* Records that are done stay done.
DoneKept == \A i \in Records : Done(i) => Done(i)'

LEMMA PriorKept == ASSUME DoneKept, NEW i, Prior(i) PROVE Prior(i)'
  BY DEF DoneKept, Prior

\* A serve that a step leaves alone.
LEMMA ServingKept ==
    ASSUME NEW s \in ServeRow, NEW p \in Partitions, Serving(s, p), DoneKept,
           part'[p].epoch \in Nat, part[p].epoch \in Nat, part'[p].epoch >= part[p].epoch,
           s.epoch <= part[p].epoch,
           seen[p] \in Nat, seen'[p] \in Nat, seen'[p] >= seen[p],
           s.epoch = part[p].epoch => \A i \in Load(s) : rec'[i].state = rec[i].state,
           \A i \in Load(s) : rec'[i].state = "delivered"
                              => rec[i].state = "delivered" \/ s.epoch < seen'[p]
    PROVE  Serving(s, p)'
<1>1. s.epoch \in Nat /\ Load(s) \subseteq Records
  BY DEF ServeRow, Load
<1>2. Shaped(s, p)'
  BY DEF Serving, Shaped, Load
<1>3. Follows(s)'
  BY DEF Serving, Follows, DoneKept, Load
<1>4. Leads(s, p)'
  <2>1. s.epoch = part'[p].epoch => s.epoch = part[p].epoch
    BY <1>1
  <2> QED  BY <2>1 DEF Serving, Leads, Load
<1>5. \A i \in Load(s) : Refused(p, s.epoch, i)'
  BY <1>1 DEF Serving, Refused
<1>6. s.ok # {} => s.epoch <= seen'[p]
  BY <1>1 DEF Serving
<1> QED  BY <1>2, <1>3, <1>4, <1>5, <1>6 DEF Serving, Load

LEMMA CallingKept ==
    ASSUME NEW c, Calling(c), DoneKept, seen[c.p] \in Nat, seen'[c.p] \in Nat, seen'[c.p] >= seen[c.p],
           rec'[c.id].state = "delivered" => rec[c.id].state = "delivered" \/ c.epoch < seen'[c.p]
    PROVE  Calling(c)'
<1>1. c.epoch \in Nat /\ Prior(c.id)'
  BY PriorKept DEF Calling
<1> QED  BY <1>1 DEF Calling, Refused

\* The lemma for the steps that settle no record.
Quiet == \A i \in Records :
            \/ rec'[i].state = rec[i].state
            \/ /\ rec[i].state \notin {"pending", "delivered", "gone"}
               /\ rec'[i].state # "delivered"

LEMMA QuietDone == Quiet => DoneKept
  BY DEF Quiet, DoneKept, Done

LEMMA QuietSink == ASSUME Sink, DoneKept, UNCHANGED <<seen, last>> PROVE Sink'
  BY DEF Sink, DoneKept

LEMMA QuietServing ==
    ASSUME Quiet, NEW s \in ServeRow, NEW p \in Partitions, Serving(s, p),
           part'[p].epoch \in Nat, part[p].epoch \in Nat, part'[p].epoch >= part[p].epoch,
           s.epoch <= part[p].epoch,
           seen[p] \in Nat, seen'[p] \in Nat, seen'[p] >= seen[p]
    PROVE  Serving(s, p)'
<1>1. Load(s) \subseteq Records
  BY DEF ServeRow, Load
<1>2. s.epoch = part[p].epoch => \A i \in Load(s) : rec'[i].state = rec[i].state
  BY <1>1 DEF Serving, Leads, Quiet
<1>3. \A i \in Load(s) : rec'[i].state = "delivered" => rec[i].state = "delivered"
  BY <1>1 DEF Quiet
<1> QED  BY <1>2, <1>3, QuietDone, ServingKept

LEMMA QuietCalling ==
    ASSUME Quiet, NEW c, Calling(c), seen[c.p] \in Nat, seen'[c.p] \in Nat, seen'[c.p] >= seen[c.p]
    PROVE  Calling(c)'
<1>1. rec'[c.id].state = "delivered" => rec[c.id].state = "delivered"
  BY DEF Quiet, Calling
<1> QED  BY <1>1, QuietDone, CallingKept

\* A step that settles no record, moves no serve and no call.
LEMMA QuietStep ==
    ASSUME Ordered, Rows', Table', Epochs', Quiet,
           UNCHANGED <<srv, seen, last, late>>,
           \A p \in Partitions : part'[p].epoch >= part[p].epoch
    PROVE  Ordered'
<1>1. Sink'
  BY QuietDone, QuietSink DEF Ordered
<1>2. ASSUME NEW r \in Relays, NEW p \in Partitions PROVE Serving(srv[r][p], p)'
  <2>1. PICK s : s = srv[r][p]
    OBVIOUS
  <2>2. s \in ServeRow /\ part[p].epoch \in Nat /\ part'[p].epoch \in Nat /\ s.epoch <= part[p].epoch
    BY <2>1, RowFacts DEF Ordered, Epochs, Rows, LeaseRow
  <2>3. Serving(s, p) /\ seen[p] \in Nat /\ seen'[p] \in Nat /\ seen'[p] >= seen[p]
    BY <2>1 DEF Ordered, Sink
  <2>4. Serving(s, p)'
    BY <2>2, <2>3, QuietServing
  <2> QED  BY <2>1, <2>4
<1>3. ASSUME NEW c \in late' PROVE Calling(c)'
  <2>1. Calling(c)
    BY DEF Ordered
  <2>2. seen[c.p] \in Nat /\ seen'[c.p] \in Nat /\ seen'[c.p] >= seen[c.p]
    BY <2>1 DEF Calling, Ordered, Sink
  <2> QED  BY <2>1, <2>2, QuietCalling
<1> QED  BY <1>1, <1>2, <1>3 DEF Ordered

-----------------------------------------------------------------------------
(* Steps on the table.                                                     *)

LEMMA TableKept ==
    ASSUME Table, DoneKept, blocked' \in [Keys -> {"no", "delay", "forever"}],
           \A i \in Records : /\ rec'[i].state = "none" => rec[i].state = "none"
                              /\ rec[i].state = "none" => rec'[i].state = "none"
                              /\ rec'[i].state = "open" => rec[i].state = "open"
                              /\ Keyed(i) => rec'[i].due
                              /\ rec'[i].state = "parked" /\ Keyed(i)
                                 => /\ blocked'[KeyOf[i]] = "forever"
                                    /\ rec[i].state = "parked" \/ Prior(i)
    PROVE  Table'
<1>1. \A i, j \in Records : SameKey(i, j) /\ i < j /\ rec'[j].state # "none"
                            => rec'[i].state \notin {"none", "open"}
  BY DEF Table
<1>2. \A i \in Records : rec'[i].state = "parked" /\ Keyed(i) => Prior(i)'
  <2>1. \A i \in Records : rec'[i].state = "parked" /\ Keyed(i) => Prior(i)
    BY DEF Table
  <2> QED  BY <2>1, PriorKept
<1> QED  BY <1>1, <1>2 DEF Table

\* Only one record of a key is parked.
LEMMA OneParked ==
    ASSUME Table, NEW i \in Records, NEW j \in Records, SameKey(i, j),
           rec[i].state = "parked", rec[j].state = "parked"
    PROVE  i = j
<1>1. i \in Nat /\ j \in Nat /\ SameKey(j, i) /\ Keyed(i) /\ Keyed(j)
  BY OutboxAssumption DEF SameKey, Keyed
<1>2. Prior(i) /\ Prior(j)
  BY <1>1 DEF Table
<1>3. ~(i < j) /\ ~(j < i)
  BY <1>1, <1>2 DEF Prior, Done
<1> QED  BY <1>1, <1>3

LEMMA StateSet ==
    ASSUME Rows, NEW i \in Records, NEW s, rec' = [rec EXCEPT ![i].state = s]
    PROVE  /\ rec'[i].state = s /\ \A j \in Records : rec[j].due => rec'[j].due
           /\ \A j \in Records : j # i => rec'[j] = rec[j]
<1>1. PICK x, row : x = rec[i] /\ x \in RecordRow /\ row = [x EXCEPT !.state = s]
  BY DEF Rows
<1>2. row.state = s
  BY <1>1 DEF RecordRow
<1>3. x.due => row.due
  BY <1>1 DEF RecordRow
<1>4. rec'[i] = row /\ \A j \in Records : j # i => rec'[j] = rec[j]
  BY <1>1 DEF Rows
<1> QED  BY <1>1, <1>2, <1>3, <1>4, Zenon

LEMMA TableStep ==
    ASSUME Ordered, Rows', Table', Quiet, UNCHANGED <<part, rel, srv, seen, last, late>>
    PROVE  Ordered'
<1>1. Epochs'
  BY DEF Ordered, Epochs, Uses
<1>2. \A p \in Partitions : part'[p].epoch >= part[p].epoch
  BY LeaseFacts DEF Ordered
<1> QED  BY <1>1, <1>2, QuietStep

LEMMA SameOrdered ==
    ASSUME Ordered, Rows', UNCHANGED <<rec, blocked, part, rel, srv, seen, last, late>>
    PROVE  Ordered'
<1>1. Table' /\ Quiet
  BY DEF Ordered, Table, Prior, Done, Quiet
<1> QED  BY <1>1, TableStep

LEMMA WriteOrdered ==
    ASSUME Ordered, Rows', NEW i \in Records, Write(i)
    PROVE  Ordered'
<1>1. /\ rec' = [rec EXCEPT ![i].state = "open"]
      /\ UNCHANGED <<blocked, part, rel, srv, seen, last, late>>
      /\ rec[i].state = "none" /\ Rows /\ Table
  BY DEF Write, sink, Ordered
<1>2. rec'[i].state = "open" /\ \A j \in Records : /\ rec[j].due => rec'[j].due
                                                   /\ j # i => rec'[j] = rec[j]
  BY <1>1, StateSet
<1>3. Quiet
  BY <1>1, <1>2 DEF Quiet
<1>4. ASSUME NEW j \in Records, NEW k \in Records, SameKey(j, k), j < k, rec'[k].state # "none"
      PROVE  rec'[j].state \notin {"none", "open"}
  <2>1. j \in Nat /\ k \in Nat /\ j # k /\ SameKey(k, j)
    BY <1>4, OutboxAssumption DEF SameKey, Keyed
  <2>2. CASE k = i
    <3>1. rec[j].state # "none" /\ rec[j].state # "open"
      BY <1>4, <2>1, <2>2 DEF Write, InState
    <3> QED  BY <1>2, <2>1, <2>2, <3>1
  <2>3. CASE k # i
    <3>1. rec[k].state # "none"
      BY <1>2, <1>4, <2>3
    <3>2. rec[j].state \notin {"none", "open"}
      BY <1>1, <1>4, <3>1 DEF Table
    <3> QED  BY <1>1, <1>2, <3>2
  <2> QED  BY <2>2, <2>3
<1>5. ASSUME NEW j \in Records, rec'[j].state = "parked", Keyed(j)
      PROVE  blocked'[KeyOf[j]] = "forever" /\ Prior(j)'
  <2>1. rec[j].state = "parked"
    BY <1>2, <1>5
  <2>2. blocked[KeyOf[j]] = "forever" /\ Prior(j)
    BY <1>1, <1>5, <2>1 DEF Table
  <2> QED  BY <1>1, <1>3, <2>2, QuietDone, PriorKept
<1>6. Table'
  BY <1>1, <1>2, <1>4, <1>5 DEF Table
<1> QED  BY <1>1, <1>3, <1>6, TableStep

\* Changes of one record that is not being delivered.
LEMMA RecordOrdered ==
    ASSUME Ordered, Rows', NEW i \in Records, NEW s \in {"pending", "gone"},
           rec[i].state \in {"open", "parked"}, rec'[i].state = s,
           Keyed(i) => rec'[i].due,
           \A j \in Records : j # i => rec'[j] = rec[j],
           \/ blocked' = blocked
           \/ rec[i].state = "parked"
              /\ blocked' = [k \in Keys |-> IF k = KeyOf[i] THEN "no" ELSE blocked[k]],
           UNCHANGED <<part, rel, srv, seen, last, late>>
    PROVE  Ordered'
<1>1. Table
  BY DEF Ordered
<1>2. Quiet
  BY DEF Quiet
<1>3. ASSUME NEW j \in Records, rec'[j].state = "parked", Keyed(j)
      PROVE  blocked'[KeyOf[j]] = "forever" /\ rec[j].state = "parked"
  <2>1. j # i /\ rec[j].state = "parked"
    BY <1>3
  <2>2. blocked[KeyOf[j]] = "forever" /\ KeyOf[j] \in Keys
    BY <1>1, <1>3, <2>1, OutboxAssumption DEF Table, Keyed
  <2>3. CASE KeyOf[j] = KeyOf[i]
    <3>1. SameKey(i, j)
      BY <1>3, <2>3 DEF SameKey, Keyed
    <3>2. rec[i].state # "parked"
      BY <1>1, <2>1, <3>1, OneParked
    <3> QED  BY <2>1, <2>2, <3>2
  <2>4. CASE KeyOf[j] # KeyOf[i]
    BY <2>1, <2>2, <2>4
  <2> QED  BY <2>3, <2>4
<1>4. blocked' \in [Keys -> {"no", "delay", "forever"}]
  BY <1>1 DEF Table
<1>5. \A j \in Records : Keyed(j) => rec'[j].due
  BY <1>1 DEF Table
<1>6. \A j \in Records : rec[j].state = "none" => rec'[j].state = "none"
  OBVIOUS
<1>7. \A j \in Records : rec'[j].state \in {"none", "open"} => rec'[j].state = rec[j].state
  OBVIOUS
<1>8. Table'
  BY <1>1, <1>2, <1>3, <1>4, <1>5, <1>6, <1>7, QuietDone, TableKept
<1> QED  BY <1>2, <1>8, TableStep

LEMMA EndWriteOrdered ==
    ASSUME Ordered, Rows', NEW i \in Records, NEW s \in {"pending", "gone"}, EndWrite(i, s)
    PROVE  Ordered'
<1>1. /\ rec' = [rec EXCEPT ![i].state = s] /\ rec[i].state = "open" /\ Rows
      /\ UNCHANGED <<blocked, part, rel, srv, seen, last, late>>
  BY DEF EndWrite, sink, Ordered
<1>2. /\ rec'[i].state = s /\ \A j \in Records : j # i => rec'[j] = rec[j]
      /\ rec[i].due => rec'[i].due
  BY <1>1, StateSet
<1>3. Keyed(i) => rec'[i].due
  BY <1>2 DEF Ordered, Table
<1> QED  BY <1>1, <1>2, <1>3, RecordOrdered

LEMMA DiscardOrdered ==
    ASSUME Ordered, Rows', NEW i \in Records, discard(i)
    PROVE  Ordered'
<1>1. /\ rec' = [rec EXCEPT ![i].state = "gone"] /\ rec[i].state = "parked" /\ Rows
      /\ UNCHANGED <<part, rel, srv, seen, last, late>>
      /\ blocked' = [k \in Keys |-> IF k = KeyOf[i] THEN "no" ELSE blocked[k]]
  BY DEF discard, Administers, Unblocks, sink, Ordered
<1>2. /\ rec'[i].state = "gone" /\ \A j \in Records : j # i => rec'[j] = rec[j]
      /\ rec[i].due => rec'[i].due
  BY <1>1, StateSet
<1>3. Keyed(i) => rec'[i].due
  BY <1>2 DEF Ordered, Table
<1> QED  BY <1>1, <1>2, <1>3, RecordOrdered

LEMMA ReplayOrdered ==
    ASSUME Ordered, Rows', NEW i \in Records, replay(i)
    PROVE  Ordered'
<1>1. /\ rec' = [rec EXCEPT ![i] = [state |-> "pending", attempts |-> 0, due |-> TRUE]]
      /\ rec[i].state = "parked" /\ Rows
      /\ UNCHANGED <<part, rel, srv, seen, last, late>>
      /\ blocked' = [k \in Keys |-> IF k = KeyOf[i] THEN "no" ELSE blocked[k]]
  BY DEF replay, Administers, Unblocks, sink, Ordered
<1>2. /\ rec'[i].state = "pending" /\ \A j \in Records : j # i => rec'[j] = rec[j]
      /\ rec'[i].due
  BY <1>1 DEF Rows
<1> QED  BY <1>1, <1>2, RecordOrdered

LEMMA DelayOrdered == ASSUME Ordered, Rows', Delay PROVE Ordered'
<1>1. /\ UNCHANGED <<part, rel, srv, seen, last, late>> /\ Rows /\ Table
      /\ DelayEnds
  BY DEF Delay, sink, Ordered
<1>2. /\ \A i \in Records : rec'[i].state = rec[i].state /\ (rec[i].due => rec'[i].due)
      /\ \A k \in Keys : blocked'[k] = blocked[k] \/ blocked[k] = "delay"
      /\ blocked' \in [Keys -> {"no", "delay", "forever"}]
  <2>1. CASE UNCHANGED rec /\ \E k \in Keys : /\ blocked[k] = "delay"
                                              /\ blocked' = [blocked EXCEPT ![k] = "no"]
    BY <1>1, <2>1 DEF Table
  <2>2. ASSUME NEW i \in Records, rec' = [rec EXCEPT ![i].due = TRUE], UNCHANGED blocked PROVE <1>2
    <3>1. \A j \in Records : rec'[j].state = rec[j].state
      BY <1>1, <2>2 DEF Rows, RecordRow
    <3>2. \A j \in Records : rec[j].due => rec'[j].due
      BY <1>1, <2>2 DEF Rows, RecordRow
    <3> QED  BY <1>1, <2>2, <3>1, <3>2 DEF Table
  <2> QED  BY <1>1, <2>1, <2>2 DEF DelayEnds
<1>3. Quiet
  BY <1>2 DEF Quiet
<1>4. ASSUME NEW i \in Records, rec'[i].state = "parked", Keyed(i)
      PROVE  blocked'[KeyOf[i]] = "forever" /\ rec[i].state = "parked"
  BY <1>1, <1>2, <1>4, OutboxAssumption DEF Table, Keyed
<1>5. \A i \in Records : Keyed(i) => rec'[i].due
  BY <1>1, <1>2 DEF Table
<1>6. Table'
  BY <1>1, <1>2, <1>3, <1>4, <1>5, QuietDone, TableKept
<1> QED  BY <1>1, <1>3, <1>6, TableStep

LEMMA PauseOrdered == ASSUME Ordered, Rows', setPaused PROVE Ordered'
<1>1. UNCHANGED <<rec, blocked, part, rel, srv, seen, last, late>>
  BY DEF setPaused, Administers, sink
<1> QED  BY <1>1, SameOrdered

-----------------------------------------------------------------------------
(* Steps on the leases.                                                    *)

\* The epoch x under which a relay works at p after a step: given up, kept or
\* newly granted.
Moves(r, p, x, y) ==
    /\ \/ x \in {NotHeld, rel[r].held[p]}
       \/ x = part[p].epoch + 1 /\ part'[p].epoch = part[p].epoch + 1
    /\ y \in {NotHeld, srv[r][p].epoch, rel[r].held[p]}

LEMMA UsedEpoch ==
    ASSUME Ordered, NEW r \in Relays, NEW p \in Partitions, NEW e, Uses(r, p, e)
    PROVE  e \in Nat \ {NotHeld} /\ e <= part[p].epoch
<1>1. Rows /\ Epochs
  BY DEF Ordered
<1> QED  BY <1>1, RowFacts DEF Uses, Epochs

\* One relay gives up, keeps or is granted epochs.
LEMMA EpochsMove ==
    ASSUME Ordered, Rows', NEW r \in Relays,
           \A q \in Relays, p \in Partitions :
               q # r => rel'[q].held[p] = rel[q].held[p] /\ srv'[q][p].epoch = srv[q][p].epoch,
           \A p \in Partitions : Moves(r, p, rel'[r].held[p], srv'[r][p].epoch),
           \A p \in Partitions : part'[p].epoch >= part[p].epoch,
           late' \subseteq late
    PROVE  Epochs'
<1>0. Rows /\ Epochs
  BY DEF Ordered
<1>1. ASSUME NEW q \in Relays, NEW p \in Partitions, NEW e, Uses(q, p, e)'
      PROVE  Uses(q, p, e) \/ (q = r /\ e = part[p].epoch + 1 /\ e = part'[p].epoch)
  BY <1>1 DEF Uses, Moves
<1>2. \A p \in Partitions : part[p].epoch \in Nat /\ part'[p].epoch \in Nat
  BY <1>0, LeaseFacts DEF Rows, LeaseRow
<1>3. ASSUME NEW q \in Relays, NEW p \in Partitions, NEW e, Uses(q, p, e)'
      PROVE  e \in Nat /\ e <= part'[p].epoch
  BY <1>1, <1>2, <1>3, UsedEpoch
<1>4. ASSUME NEW q \in Relays, NEW p \in Partitions
      PROVE  rel'[q].held[p] <= part'[p].epoch /\ srv'[q][p].epoch <= part'[p].epoch
  <2>1. \A e \in {rel'[q].held[p], srv'[q][p].epoch} : e = NotHeld \/ Uses(q, p, e)'
    BY DEF Uses
  <2>2. \A e \in {rel'[q].held[p], srv'[q][p].epoch} : e = 0 \/ e <= part'[p].epoch
    BY <1>3, <2>1 DEF NotHeld
  <2>3. 0 <= part'[p].epoch
    BY <1>2
  <2> QED  BY <2>2, <2>3
<1>5. ASSUME NEW q1 \in Relays, NEW q2 \in Relays, NEW p \in Partitions, NEW e \in Nat,
             Uses(q1, p, e)', Uses(q2, p, e)'
      PROVE  q1 = q2
  <2>1. CASE Uses(q1, p, e) /\ Uses(q2, p, e)
    BY <1>0, <2>1 DEF Epochs
  <2>2. CASE ~Uses(q1, p, e)
    <3>1. q1 = r /\ e = part[p].epoch + 1
      BY <1>1, <1>5, <2>2
    <3>2. ~Uses(q2, p, e)
      BY <1>2, <3>1, UsedEpoch
    <3> QED  BY <1>1, <1>5, <3>1, <3>2
  <2>3. CASE ~Uses(q2, p, e)
    <3>1. q2 = r /\ e = part[p].epoch + 1
      BY <1>1, <1>5, <2>3
    <3>2. ~Uses(q1, p, e)
      BY <1>2, <3>1, UsedEpoch
    <3> QED  BY <1>1, <1>5, <3>1, <3>2
  <2> QED  BY <2>1, <2>2, <2>3
<1>6. ASSUME NEW c \in late'
      PROVE  c.epoch <= part'[c.p].epoch /\ \A q \in Relays : ~Uses(q, c.p, c.epoch)'
  <2>1. /\ c.p \in Partitions /\ c.epoch \in Nat /\ c.epoch <= part[c.p].epoch
        /\ \A q \in Relays : ~Uses(q, c.p, c.epoch)
    BY <1>0 DEF Ordered, Calling, Epochs
  <2>2. c.epoch <= part'[c.p].epoch /\ c.epoch # part[c.p].epoch + 1
    BY <1>2, <2>1
  <2>3. \A q \in Relays : ~Uses(q, c.p, c.epoch)'
    BY <1>1, <2>1, <2>2
  <2> QED  BY <2>2, <2>3
<1> QED  BY <1>4, <1>5, <1>6 DEF Epochs

LEMMA LeaseStep ==
    ASSUME Ordered, Rows', NEW r \in Relays, NEW x, rel' = [rel EXCEPT ![r] = x],
           \A p \in Partitions :
              /\ \/ x.held[p] \in {NotHeld, rel[r].held[p]}
                 \/ x.held[p] = part[p].epoch + 1 /\ part'[p].epoch = part[p].epoch + 1
              /\ part'[p].epoch \in {part[p].epoch, part[p].epoch + 1},
           UNCHANGED <<rec, blocked, srv, seen, last, late>>
    PROVE  Ordered'
<1>1. Rows
  BY DEF Ordered
<1>2. rel'[r] = x /\ \A q \in Relays : q # r => rel'[q] = rel[q]
  BY <1>1 DEF Rows
<1>3. \A p \in Partitions : part'[p].epoch >= part[p].epoch
  BY <1>1, LeaseFacts
<1>4. \A p \in Partitions : Moves(r, p, rel'[r].held[p], srv'[r][p].epoch)
  BY <1>2 DEF Moves
<1>5. Epochs'
  BY <1>2, <1>3, <1>4, EpochsMove
<1>6. Table' /\ Quiet
  BY DEF Ordered, Table, Prior, Done, Quiet
<1> QED  BY <1>3, <1>5, <1>6, QuietStep

LEMMA HeartbeatOrdered ==
    ASSUME Ordered, Rows', NEW r \in Relays, Start(r) \/ Beat(r)
    PROVE  Ordered'
<1> DEFINE kept == {p \in HeldBy(r) : Owns(r, p, rel[r].held[p])}
           held == [p \in Partitions |-> IF p \in kept THEN rel[r].held[p] ELSE NotHeld]
           live == Cardinality({q \in Relays : fresh'[q]})
           pc == IF rel[r].pc = "down" THEN "loop" ELSE rel[r].pc
           new == [rel[r] EXCEPT !.held = held, !.live = live, !.churn = 0, !.pc = pc]
<1>1. /\ part' = [p \in Partitions |-> IF p \in kept THEN [part[p] EXCEPT !.live = TRUE] ELSE part[p]]
      /\ UNCHANGED <<rec, blocked, srv, seen, last, late>>
      /\ rel' = [rel EXCEPT ![r] = new]
  BY DEF Start, Beat, heartbeat, table, sink
<1>2. \A p \in Partitions : held[p] \in {NotHeld, rel[r].held[p]}
  OBVIOUS
<1>3. \A p \in Partitions : part'[p].epoch = part[p].epoch
  BY <1>1 DEF Ordered, Rows, LeaseRow
<1> HIDE DEF held, live, pc, kept
<1>4. new.held = held
  <2>1. rel[r] \in RelayRow
    BY DEF Ordered, Rows
  <2> QED  BY <2>1 DEF RelayRow
<1> HIDE DEF new
<1> QED  BY <1>1, <1>2, <1>3, <1>4, LeaseStep

LEMMA GivenEpoch ==
    ASSUME Rows, NEW r \in Relays, NEW S, part' = Given(r, S), NEW p \in Partitions
    PROVE  part'[p].epoch = part[p].epoch
  BY Zenon DEF Given, Rows, LeaseRow

LEMMA RebalanceOrdered ==
    ASSUME Ordered, Rows', NEW r \in Relays, Rebalance(r)
    PROVE  Ordered'
<1>0. Rows /\ rel[r] \in RelayRow
  BY DEF Ordered, Rows
<1>1. CASE Acquire(r)
  <2>1. PICK got :
          /\ part' = [p \in Partitions |->
                        IF p \in got
                        THEN [epoch |-> part[p].epoch + 1, owner |-> r, live |-> TRUE]
                        ELSE part[p]]
          /\ Round(r, [p \in Partitions |-> IF p \in got THEN part[p].epoch + 1
                                            ELSE rel[r].held[p]], Live)
    BY <1>1 DEF Acquire
  <2> DEFINE held == [p \in Partitions |-> IF p \in got THEN part[p].epoch + 1
                                           ELSE rel[r].held[p]]
             mine == {p \in Partitions : held[p] # NotHeld}
             over == Cardinality(mine) > fairShare(Live)
             pc == IF over THEN "excess" ELSE "loop"
             todo == IF over THEN {} ELSE mine
             new == [rel[r] EXCEPT !.held = held, !.live = Live, !.pc = pc, !.todo = todo]
  <2>2. rel' = [rel EXCEPT ![r] = new]
    BY <2>1 DEF Round
  <2>3. \A p \in Partitions :
          /\ \/ held[p] \in {NotHeld, rel[r].held[p]}
             \/ held[p] = part[p].epoch + 1 /\ part'[p].epoch = part[p].epoch + 1
          /\ part'[p].epoch \in {part[p].epoch, part[p].epoch + 1}
    BY <2>1
  <2>4. UNCHANGED <<rec, blocked, srv, seen, last, late>>
    BY <1>1 DEF Acquire, table, sink
  <2> HIDE DEF held, pc, todo
  <2>5. new.held = held
    BY <1>0 DEF RelayRow
  <2> HIDE DEF new
  <2>6. \A p \in Partitions :
          /\ \/ new.held[p] \in {NotHeld, rel[r].held[p]}
             \/ new.held[p] = part[p].epoch + 1 /\ part'[p].epoch = part[p].epoch + 1
          /\ part'[p].epoch \in {part[p].epoch, part[p].epoch + 1}
    BY <2>3, <2>5
  <2> QED  BY <2>2, <2>4, <2>6, LeaseStep
<1>2. CASE SkipAcquire(r)
  <2>1. PICK x : x = [rel[r] EXCEPT !.pc = "excess"]
    OBVIOUS
  <2>2. x.held = rel[r].held /\ rel' = [rel EXCEPT ![r] = x]
    BY <1>0, <1>2, <2>1 DEF SkipAcquire, RelayRow
  <2>3. UNCHANGED <<part, rec, blocked, srv, seen, last, late>>
    BY <1>2 DEF SkipAcquire, table, sink
  <2> QED  BY <2>2, <2>3, LeaseStep
<1>3. CASE ReleaseExcess(r)
  <2>1. PICK extra :
          /\ part' = Given(r, extra)
          /\ rel' = [rel EXCEPT ![r] =
               [rel[r] EXCEPT !.pc = "loop", !.todo = HeldBy(r) \ extra,
                              !.churn = rel[r].churn + 1,
                              !.held = [p \in Partitions |-> IF p \in extra THEN NotHeld
                                                             ELSE rel[r].held[p]]]]
    BY <1>3, Zenon DEF ReleaseExcess
  <2> DEFINE held == [p \in Partitions |-> IF p \in extra THEN NotHeld ELSE rel[r].held[p]]
             todo == HeldBy(r) \ extra
             churn == rel[r].churn + 1
             new == [rel[r] EXCEPT !.pc = "loop", !.todo = todo, !.churn = churn, !.held = held]
  <2>2. \A p \in Partitions : held[p] \in {NotHeld, rel[r].held[p]}
    OBVIOUS
  <2>3. rel' = [rel EXCEPT ![r] = new]
    BY <2>1
  <2>4. UNCHANGED <<rec, blocked, srv, seen, last, late>>
    BY <1>3 DEF ReleaseExcess, table, sink
  <2>6. \A p \in Partitions : part'[p].epoch = part[p].epoch
    BY <1>0, <2>1, GivenEpoch
  <2> HIDE DEF held, todo, churn
  <2>5. new.held = held
    BY <1>0 DEF RelayRow
  <2> HIDE DEF new
  <2>7. \A p \in Partitions :
          /\ \/ new.held[p] \in {NotHeld, rel[r].held[p]}
             \/ new.held[p] = part[p].epoch + 1 /\ part'[p].epoch = part[p].epoch + 1
          /\ part'[p].epoch \in {part[p].epoch, part[p].epoch + 1}
    BY <2>2, <2>5, <2>6
  <2> QED  BY <2>3, <2>4, <2>7, LeaseStep
<1> QED  BY <1>1, <1>2, <1>3 DEF Rebalance

LEMMA CloseOrdered == ASSUME Ordered, Rows', NEW r \in Relays, Close(r) PROVE Ordered'
<1>1. PICK x : x = [Down EXCEPT !.pc = "closed"]
  OBVIOUS
<1>2. /\ part' = Given(r, HeldBy(r)) /\ rel' = [rel EXCEPT ![r] = x]
      /\ UNCHANGED <<rec, blocked, srv, seen, last, late>> /\ Rows
  BY <1>1 DEF Close, table, sink, Ordered
<1>3. \A p \in Partitions : x.held[p] \in {NotHeld, rel[r].held[p]}
  BY <1>1 DEF Down
<1>4. \A p \in Partitions : part'[p].epoch = part[p].epoch
  BY <1>2, GivenEpoch
<1>5. \A p \in Partitions :
         /\ \/ x.held[p] \in {NotHeld, rel[r].held[p]}
            \/ x.held[p] = part[p].epoch + 1 /\ part'[p].epoch = part[p].epoch + 1
         /\ part'[p].epoch \in {part[p].epoch, part[p].epoch + 1}
  BY <1>3, <1>4
<1> QED  BY <1>2, <1>5, LeaseStep

LEMMA TimeOrdered ==
    ASSUME Ordered, Rows',
           \/ \E p \in Partitions : LapseUnheld(p) \/ LapseStalled(p)
           \/ \E r \in Relays : Unseen(r) \/ UnseenStalled(r)
    PROVE  Ordered'
<1>1. UNCHANGED <<rec, blocked, rel, srv, seen, last, late>>
  BY DEF LapseUnheld, LapseStalled, Lapse, Unseen, UnseenStalled, Fades, table, sink
<1>2. \A p \in Partitions : part'[p].epoch = part[p].epoch
  <2>1. part' = part \/ \E q \in Partitions : part' = [part EXCEPT ![q].live = FALSE]
    BY DEF LapseUnheld, LapseStalled, Lapse, Unseen, UnseenStalled, Fades
  <2> QED  BY <2>1 DEF Ordered, Rows, LeaseRow
<1>3. Epochs'
  BY <1>1, <1>2 DEF Ordered, Epochs, Uses, Calling
<1>4. Table' /\ Quiet
  BY <1>1 DEF Ordered, Table, Prior, Done, Quiet
<1>5. \A p \in Partitions : part'[p].epoch >= part[p].epoch
  BY <1>2, LeaseFacts DEF Ordered
<1> QED  BY <1>1, <1>3, <1>4, <1>5, QuietStep

-----------------------------------------------------------------------------
(* Steps of a serve.                                                       *)

LEMMA ServingSame ==
    ASSUME NEW s, NEW p, Serving(s, p), UNCHANGED <<rec, part, seen>>
    PROVE  Serving(s, p)'
  BY DEF Serving, Shaped, Follows, Leads, Refused, Done, Load

\* A record that a serve settles belongs to its partition, which no other
\* relay holds now.
Settles(r, p, i) ==
    /\ srv[r][p].epoch = part[p].epoch /\ srv[r][p].epoch # NotHeld /\ PartitionOf[i] = p
    /\ rec'[i].state = "delivered" => srv[r][p].epoch <= seen[p]

\* One serve moves on: the others and the calls under way keep what they know.
LEMMA OneServe ==
    ASSUME Ordered, Rows', Table', Sink', DoneKept,
           NEW r \in Relays, NEW p \in Partitions, NEW new, srv' = [srv EXCEPT ![r][p] = new],
           Serving(new, p)', new.epoch \in {NotHeld, srv[r][p].epoch, rel[r].held[p]},
           \A q \in Relays, o \in Partitions :
              rel'[q].held[o] = rel[q].held[o] \/ (q = r /\ rel'[q].held[o] = NotHeld),
           \A i \in Records : rec'[i].state = rec[i].state \/ Settles(r, p, i),
           part' = part, late' \subseteq late, \A o \in Partitions : seen'[o] >= seen[o]
    PROVE  Ordered'
<1>0. /\ Rows /\ Epochs
      /\ seen \in [Partitions -> Nat] /\ seen' \in [Partitions -> Nat]
  BY DEF Ordered, Sink
<1>1. /\ srv'[r][p] = new
      /\ \A q \in Relays, o \in Partitions : q # r \/ o # p => srv'[q][o] = srv[q][o]
  BY <1>0 DEF Rows
<1>2. Epochs'
  <2>1. ASSUME NEW o \in Partitions PROVE Moves(r, o, rel'[r].held[o], srv'[r][o].epoch)
    <3>1. CASE o = p
      BY <1>1, <3>1 DEF Moves
    <3>2. CASE o # p
      BY <1>1, <3>2 DEF Moves
    <3> QED  BY <3>1, <3>2
  <2>2. \A o \in Partitions : part'[o].epoch >= part[o].epoch
    BY <1>0, LeaseFacts
  <2> QED  BY <1>1, <2>1, <2>2, EpochsMove
<1>3. ASSUME NEW e \in Nat, NEW i \in Records, ~(rec'[i].state = rec[i].state),
             e <= part[p].epoch, e # srv[r][p].epoch
      PROVE  rec'[i].state = "delivered" => e < seen'[p]
  <2>1. Settles(r, p, i)
    BY <1>3
  <2>2. part[p].epoch \in Nat /\ seen[p] \in Nat /\ seen'[p] \in Nat /\ seen'[p] >= seen[p]
    BY <1>0, LeaseFacts
  <2> QED  BY <1>3, <2>1, <2>2 DEF Settles
<1>4. ASSUME NEW q \in Relays, NEW o \in Partitions, q # r \/ o # p
      PROVE  Serving(srv[q][o], o)'
  <2>1. PICK s : s = srv[q][o]
    OBVIOUS
  <2>2. /\ s \in ServeRow /\ s.epoch \in Nat /\ s.epoch <= part[o].epoch /\ Serving(s, o)
        /\ part[o].epoch \in Nat /\ Load(s) \subseteq Records
    BY <1>0, <2>1, RowFacts DEF Ordered, Epochs, ServeRow, Load
  <2>3. ASSUME NEW i \in Load(s), ~(rec'[i].state = rec[i].state)
        PROVE  o = p /\ s.epoch # srv[r][p].epoch
    <3>1. Settles(r, p, i) /\ PartitionOf[i] = o
      BY <2>2, <2>3 DEF Serving, Shaped
    <3>2. o = p /\ q # r
      BY <1>4, <3>1 DEF Settles
    <3>3. Uses(r, p, srv[r][p].epoch) /\ (s.epoch = srv[r][p].epoch => Uses(q, p, srv[r][p].epoch))
      BY <2>1, <3>1, <3>2 DEF Settles, Uses
    <3>4. srv[r][p].epoch \in Nat
      BY <1>0, RowFacts
    <3> QED  BY <1>0, <3>2, <3>3, <3>4 DEF Epochs
  <2>4. s.epoch = part[o].epoch => \A i \in Load(s) : rec'[i].state = rec[i].state
    BY <2>2, <2>3 DEF Settles
  <2>5. \A i \in Load(s) : rec'[i].state = "delivered"
                            => rec[i].state = "delivered" \/ s.epoch < seen'[o]
    BY <1>3, <2>2, <2>3
  <2>6. Serving(s, o)'
    <3>1. part'[o].epoch \in Nat /\ part'[o].epoch >= part[o].epoch
      BY <2>2
    <3>2. seen[o] \in Nat /\ seen'[o] \in Nat /\ seen'[o] >= seen[o]
      BY <1>0
    <3> QED  BY <2>2, <2>4, <2>5, <3>1, <3>2, ServingKept
  <2>7. srv'[q][o] = s
    BY <1>1, <1>4, <2>1
  <2> QED  BY <2>6, <2>7
<1>5. ASSUME NEW c \in late' PROVE Calling(c)'
  <2>1. /\ Calling(c) /\ c.p \in Partitions /\ c.epoch \in Nat /\ c.id \in Records
        /\ PartitionOf[c.id] = c.p
        /\ c.epoch <= part[c.p].epoch /\ ~Uses(r, c.p, c.epoch)
    BY <1>0 DEF Ordered, Calling, Epochs
  <2>2. rec'[c.id].state = "delivered" => rec[c.id].state = "delivered" \/ c.epoch < seen'[c.p]
    <3>1. CASE rec'[c.id].state = rec[c.id].state
      BY <3>1
    <3>2. CASE ~(rec'[c.id].state = rec[c.id].state)
      <4>1. Settles(r, p, c.id)
        BY <2>1, <3>2
      <4>2. c.p = p /\ c.epoch # srv[r][p].epoch
        BY <2>1, <4>1 DEF Settles, Uses
      <4> QED  BY <1>3, <2>1, <3>2, <4>2
    <3> QED  BY <3>1, <3>2
  <2>3. seen[c.p] \in Nat /\ seen'[c.p] \in Nat /\ seen'[c.p] >= seen[c.p]
    BY <1>0, <2>1
  <2> QED  BY <2>1, <2>2, <2>3, CallingKept
<1>6. \A q \in Relays, o \in Partitions : Serving(srv[q][o], o)'
  <2>1. ASSUME NEW q \in Relays, NEW o \in Partitions PROVE Serving(srv[q][o], o)'
    <3>1. CASE q = r /\ o = p
      BY <1>1, <3>1
    <3>2. CASE q # r \/ o # p
      BY <1>4, <3>2
    <3> QED  BY <3>1, <3>2
  <2> QED  BY <2>1
<1> QED  BY <1>2, <1>5, <1>6 DEF Ordered

\* A serve moves on, and neither records nor sink change.
LEMMA ServeMoves ==
    ASSUME Ordered, Rows', NEW r \in Relays, NEW p \in Partitions, NEW new,
           srv' = [srv EXCEPT ![r][p] = new], Serving(new, p),
           new.epoch \in {NotHeld, srv[r][p].epoch, rel[r].held[p]},
           \A q \in Relays, o \in Partitions :
              rel'[q].held[o] = rel[q].held[o] \/ (q = r /\ rel'[q].held[o] = NotHeld),
           UNCHANGED <<rec, blocked, part, seen, last, late>>
    PROVE  Ordered'
<1>1. Table' /\ Sink' /\ DoneKept
  BY DEF Ordered, Table, Sink, Prior, Done, DoneKept
<1>2. Serving(new, p)'
  BY ServingSame
<1>3. \A o \in Partitions : seen'[o] >= seen[o]
  BY DEF Ordered, Sink
<1> QED  BY <1>1, <1>2, <1>3, OneServe

LEMMA IdleServing == ASSUME NEW p PROVE Serving(Idle, p)
  BY DEF Serving, Shaped, Follows, Leads, Refused, Load, Idle, NotHeld

\* The first n of S hold what comes before one of them.
LEMMA FirstOfEarlier ==
    ASSUME NEW S \in SUBSET Records, NEW n \in Nat, NEW j \in FirstOf(S, n), NEW i \in S, i < j
    PROVE  i \in FirstOf(S, n)
<1>1. PICK A, B : A = {x \in S : x < i} /\ B = {x \in S : x < j}
  OBVIOUS
<1>2. A \subseteq B /\ B \subseteq Records
  <2>1. j \in S /\ i \in Nat /\ j \in Nat
    BY OutboxAssumption DEF FirstOf
  <2>2. ASSUME NEW x \in A PROVE x \in B
    <3>1. x \in S /\ x \in Nat /\ x < i
      BY <1>1, OutboxAssumption
    <3>2. x < j
      BY <2>1, <3>1
    <3> QED  BY <1>1, <3>1, <3>2
  <2> QED  BY <1>1, <2>2
<1>3. IsFiniteSet(B)
  BY <1>2, OutboxAssumption, FS_Subset
<1>4. Cardinality(A) \in Nat /\ Cardinality(B) \in Nat /\ Cardinality(A) <= Cardinality(B)
  BY <1>2, <1>3, FS_Subset, FS_CardinalityType
<1>5. Cardinality(B) < n
  BY <1>1 DEF FirstOf
<1>6. Cardinality(A) < n
  BY <1>4, <1>5
<1> QED  BY <1>1, <1>6 DEF FirstOf

\* A read takes, of every key, the earliest record that is not done.
LEMMA ReadServing ==
    ASSUME Ordered, NEW p \in Partitions, NEW e \in Nat, e # NotHeld,
           NEW rows, rows = FirstOf(Deliverable(p), BatchSize),
           NEW new, new = [Idle EXCEPT !.pc = "wave", !.rest = rows, !.epoch = e]
    PROVE  Serving(new, p)
<1>1. /\ new.pc = "wave" /\ new.epoch = e /\ new.rest = rows /\ new.wave = {} /\ new.sent = {}
      /\ new.ok = {} /\ new.keys = {}
  BY DEF Idle
<1>2. Load(new) = rows
  BY <1>1 DEF Load
<1>3. /\ rows \subseteq Deliverable(p) /\ Deliverable(p) \subseteq Records
      /\ \A i \in rows : rec[i].state = "pending" /\ PartitionOf[i] = p /\ i \in Records
  BY DEF FirstOf, Deliverable, InState
<1>4. Shaped(new, p)
  BY <1>1, <1>2, <1>3 DEF Shaped
<1>5. ASSUME NEW j \in rows, NEW i \in Records, SameKey(i, j), i < j
      PROVE  i \in rows \/ Done(i)
  <2>1. Table /\ Rows
    BY DEF Ordered
  <2>2. rec[j].state # "none" /\ j \in Records /\ Keyed(i) /\ Keyed(j) /\ KeyOf[i] = KeyOf[j]
    BY <1>3, <1>5 DEF SameKey, Keyed
  <2>3. rec[i].state \notin {"none", "open"} /\ rec[i].due
    BY <1>5, <2>1, <2>2 DEF Table
  <2>4. blocked[KeyOf[i]] = "no" /\ ~paused
    BY <1>3, <2>2 DEF Deliverable
  <2>5. rec[i].state # "parked"
    BY <2>1, <2>2, <2>4 DEF Table
  <2>6. rec[i].state \in {"pending", "delivered", "gone"}
    BY <2>1, <2>3, <2>5 DEF Rows, RecordRow
  <2>7. CASE rec[i].state = "pending"
    <3>1. PartitionOf[i] = p
      BY <1>3, <2>2, OutboxAssumption DEF Keyed
    <3>2. i \in Deliverable(p)
      BY <2>2, <2>3, <2>4, <2>7, <3>1 DEF Deliverable, InState
    <3>3. i \in rows
      BY <1>3, <1>5, <3>2, OutboxAssumption, FirstOfEarlier
    <3> QED  BY <3>3
  <2> QED  BY <2>6, <2>7 DEF Done
<1>6. Follows(new)
  BY <1>2, <1>5 DEF Follows
<1>7. Leads(new, p) /\ \A i \in Load(new) : Refused(p, new.epoch, i)
  BY <1>2, <1>3 DEF Leads, Refused
<1> QED  BY <1>1, <1>4, <1>6, <1>7 DEF Serving

LEMMA ReadOrdered ==
    ASSUME Ordered, Rows', NEW r \in Relays, NEW p \in Partitions, readPartition(r, p)
    PROVE  Ordered'
<1>1. PICK e, rows, new : /\ e = rel[r].held[p] /\ rows = FirstOf(Deliverable(p), BatchSize)
                          /\ new = [Idle EXCEPT !.pc = "wave", !.rest = rows, !.epoch = e]
  BY Zenon
<1>2. /\ srv' = srv \/ (e # NotHeld /\ srv' = [srv EXCEPT ![r][p] = new])
      /\ rel' = [rel EXCEPT ![r].todo = @ \ {p}]
      /\ UNCHANGED <<rec, blocked, part, seen, last, late>>
  BY <1>1 DEF readPartition, table, sink
<1>3. e \in Nat /\ Rows
  BY <1>1, RowFacts DEF Ordered
<1>4. \A q \in Relays : rel'[q].held = rel[q].held
  BY <1>2, <1>3 DEF Rows, RelayRow
<1>5. CASE e # NotHeld /\ srv' = [srv EXCEPT ![r][p] = new]
  <2>1. Serving(new, p)
    BY <1>1, <1>3, <1>5, ReadServing, Zenon
  <2>2. new.epoch = rel[r].held[p]
    BY <1>1 DEF Idle
  <2> QED  BY <1>2, <1>4, <1>5, <2>1, <2>2, ServeMoves
<1>6. CASE srv' = srv
  <2>1. PICK s : s = srv[r][p]
    OBVIOUS
  <2>2. Serving(s, p) /\ srv' = [srv EXCEPT ![r][p] = s] /\ s.epoch = srv[r][p].epoch
    BY <1>3, <1>6, <2>1 DEF Ordered, Rows
  <2> QED  BY <1>2, <1>4, <2>2, ServeMoves
<1> QED  BY <1>2, <1>5, <1>6

\* The serve that NextWave makes of me, unless it ends.
Advances(me, new) ==
    \E wave, rest :
        /\ wave = {i \in Heads(me.rest) : KeyOf[i] \notin me.keys}
        /\ rest = me.rest \ Heads(me.rest)
        /\ \/ wave = {} /\ new = [me EXCEPT !.rest = rest]
           \/ new = [me EXCEPT !.pc = "sink", !.rest = rest, !.wave = wave,
                               !.sent = wave, !.ok = {}]

LEMMA NextWaveServing ==
    ASSUME NEW p, NEW me \in ServeRow, Serving(me, p), me.pc = "wave", NEW new, Advances(me, new)
    PROVE  Serving(new, p) /\ new.epoch = me.epoch
<1>0. PICK wave, rest :
        /\ wave = {i \in Heads(me.rest) : KeyOf[i] \notin me.keys}
        /\ rest = me.rest \ Heads(me.rest)
        /\ \/ wave = {} /\ new = [me EXCEPT !.rest = rest]
           \/ new = [me EXCEPT !.pc = "sink", !.rest = rest, !.wave = wave,
                               !.sent = wave, !.ok = {}]
  BY Zenon DEF Advances
<1>1. /\ new.epoch = me.epoch /\ new.rest = rest /\ new.wave = wave /\ new.keys = me.keys
      /\ \/ new.pc = "wave" /\ wave = {} /\ new.sent = me.sent /\ new.ok = me.ok
         \/ new.pc = "sink" /\ new.sent = wave /\ new.ok = {}
  BY <1>0 DEF ServeRow, Serving, Shaped
<1>2. me.wave = {} /\ me.sent = {} /\ Load(me) = me.rest
  BY DEF Serving, Shaped, Load
<1>3. Load(new) \subseteq me.rest /\ wave \subseteq me.rest /\ wave \cap rest = {}
  BY <1>0, <1>1 DEF Load, Heads
<1>4. \A i \in wave : KeyOf[i] \notin me.keys /\ \A j \in me.rest : SameKey(i, j) => i <= j
  BY <1>0 DEF Heads
<1>5. Shaped(new, p)
  <2>1. \A i \in Load(new) : PartitionOf[i] = p
    BY <1>2, <1>3 DEF Serving, Shaped
  <2>2. new.epoch = NotHeld => Load(new) = {}
    BY <1>1, <1>2, <1>3 DEF Serving, Shaped
  <2>3. \A i \in new.wave : KeyOf[i] \notin new.keys /\ \A j \in Load(new) : SameKey(i, j) => i <= j
    BY <1>1, <1>3, <1>4
  <2> QED  BY <1>1, <1>2, <1>3, <2>1, <2>2, <2>3 DEF Shaped
<1>6. ASSUME NEW j \in Load(new), KeyOf[j] \notin new.keys, NEW i \in Records, SameKey(i, j), i < j
      PROVE  i \in Load(new) \/ Done(i)
  <2>1. i \in me.rest \/ Done(i)
    BY <1>1, <1>2, <1>3, <1>6 DEF Serving, Follows
  <2>2. CASE i \in Heads(me.rest)
    BY <1>0, <1>1, <1>6, <2>2 DEF SameKey, Load
  <2>3. CASE i \in me.rest \ Heads(me.rest)
    BY <1>0, <1>1, <2>3 DEF Load
  <2> QED  BY <2>1, <2>2, <2>3
<1>7. Follows(new)
  BY <1>6 DEF Follows
<1>8. Leads(new, p) /\ \A i \in Load(new) : Refused(p, new.epoch, i)
  BY <1>1, <1>2, <1>3 DEF Serving, Leads
<1>9. new.ok # {} => new.epoch <= seen[p]
  BY <1>1 DEF Serving
<1> QED  BY <1>1, <1>5, <1>7, <1>8, <1>9 DEF Serving

LEMMA NextWaveOrdered ==
    ASSUME Ordered, Rows', NEW r \in Relays, NEW p \in Partitions, NextWave(r, p)
    PROVE  Ordered'
<1>1. PICK me : me = srv[r][p]
  OBVIOUS
<1>2. PICK new : srv' = [srv EXCEPT ![r][p] = new] /\ (new = Idle \/ Advances(me, new))
  <2> DEFINE wave == {i \in Heads(me.rest) : KeyOf[i] \notin me.keys}
             rest == me.rest \ Heads(me.rest)
             dropped == [me EXCEPT !.rest = rest]
             sending == [me EXCEPT !.pc = "sink", !.rest = rest, !.wave = wave,
                                   !.sent = wave, !.ok = {}]
  <2>1. \/ srv' = [srv EXCEPT ![r][p] = Idle]
        \/ wave = {} /\ srv' = [srv EXCEPT ![r][p] = dropped]
        \/ srv' = [srv EXCEPT ![r][p] = sending]
    BY <1>1 DEF NextWave
  <2>2. Advances(me, sending) /\ (wave = {} => Advances(me, dropped))
    BY Zenon DEF Advances
  <2> HIDE DEF dropped, sending, wave
  <2> QED  BY <2>1, <2>2
<1>3. me.pc = "wave" /\ UNCHANGED <<rec, blocked, part, rel, seen, last, late>>
  BY <1>1 DEF NextWave, table, sink
<1>4. me \in ServeRow /\ Serving(me, p)
  BY <1>1 DEF Ordered, Rows
<1>5. CASE new = Idle
  <2>1. Serving(new, p) /\ new.epoch = NotHeld
    BY <1>5, IdleServing DEF Idle
  <2> QED  BY <1>2, <1>3, <2>1, ServeMoves
<1>6. CASE new # Idle
  <2>1. Serving(new, p) /\ new.epoch = srv[r][p].epoch
    BY <1>1, <1>2, <1>3, <1>4, <1>6, NextWaveServing
  <2> QED  BY <1>2, <1>3, <2>1, ServeMoves
<1> QED  BY <1>5, <1>6

LEMMA WaveEndsOrdered ==
    ASSUME Ordered, Rows', NEW r \in Relays, NEW p \in Partitions,
           WaveDone(r, p) \/ StatementFails(r, p)
    PROVE  Ordered'
<1>1. UNCHANGED <<rec, blocked, part, rel, seen, last, late>>
  BY DEF WaveDone, StatementFails, table, sink
<1>2. CASE WaveDone(r, p)
  <2>1. PICK me, new : me = srv[r][p] /\ new = [me EXCEPT !.pc = "wave"]
    OBVIOUS
  <2>2. srv' = [srv EXCEPT ![r][p] = new] /\ me.wave = {} /\ me.pc = "fail"
    BY <1>2, <2>1 DEF WaveDone
  <2>3. me \in ServeRow /\ Serving(me, p)
    BY <2>1 DEF Ordered, Rows
  <2>4. /\ new.pc = "wave" /\ new.wave = me.wave /\ new.rest = me.rest /\ new.sent = me.sent
        /\ new.ok = me.ok /\ new.keys = me.keys /\ new.epoch = me.epoch
    BY <2>1, <2>3 DEF ServeRow
  <2>5. Serving(new, p)
    <3>1. Load(new) = Load(me)
      BY <2>4 DEF Load
    <3>2. Shaped(new, p)
      BY <2>2, <2>3, <2>4, <3>1 DEF Serving, Shaped
    <3> QED  BY <2>3, <2>4, <3>1, <3>2 DEF Serving, Follows, Leads
  <2> QED  BY <1>1, <2>1, <2>2, <2>4, <2>5, ServeMoves
<1>3. CASE StatementFails(r, p)
  <2>1. srv' = [srv EXCEPT ![r][p] = Idle]
    BY <1>3 DEF StatementFails
  <2>2. Serving(Idle, p) /\ Idle.epoch = NotHeld
    BY IdleServing DEF Idle
  <2> QED  BY <1>1, <2>1, <2>2, ServeMoves
<1> QED  BY <1>2, <1>3

LEMMA LoseOrdered ==
    ASSUME Ordered, Rows', NEW r \in Relays, NEW p \in Partitions, Lose(r, p),
           UNCHANGED <<part, seen, last, late>>
    PROVE  Ordered'
<1>1. srv' = [srv EXCEPT ![r][p] = Idle] /\ UNCHANGED <<rec, blocked>> /\ rel' = Forgets(r, p) /\ Rows
  BY DEF Lose, Ordered
<1>2. Serving(Idle, p) /\ Idle.epoch = NotHeld
  BY IdleServing DEF Idle
<1>3. \A q \in Relays, o \in Partitions :
         rel'[q].held[o] = rel[q].held[o] \/ (q = r /\ rel'[q].held[o] = NotHeld)
  BY <1>1 DEF Forgets, Rows, RelayRow
<1> QED  BY <1>1, <1>2, <1>3, ServeMoves

-----------------------------------------------------------------------------
(* Crashes and deliveries.                                                 *)

\* Before a record of a wave no other of its key is left to deliver.
LEMMA HeadPrior ==
    ASSUME NEW p, NEW s \in ServeRow, Serving(s, p), NEW i \in s.wave
    PROVE  /\ i \in Records /\ Prior(i) /\ PartitionOf[i] = p
           /\ s.epoch # NotHeld /\ Refused(p, s.epoch, i)
<1>1. i \in Records /\ i \in Load(s) /\ i \in Nat /\ Shaped(s, p) /\ Follows(s)
  BY OutboxAssumption DEF ServeRow, Load, Serving
<1>2. ASSUME NEW j \in Records, SameKey(j, i), j < i PROVE Done(j)
  <2>1. j \in Load(s) \/ Done(j)
    BY <1>1, <1>2 DEF Shaped, Follows
  <2>2. SameKey(i, j) /\ j \in Nat
    BY <1>2, OutboxAssumption DEF SameKey, Keyed
  <2>3. j \notin Load(s)
    BY <1>1, <1>2, <2>2 DEF Shaped
  <2> QED  BY <2>1, <2>3
<1>3. Prior(i)
  BY <1>2 DEF Prior
<1> QED  BY <1>1, <1>3 DEF Shaped, Serving

LEMMA CrashOrdered ==
    ASSUME Ordered, Rows', NEW r \in Relays, Crash(r)
    PROVE  Ordered'
<1>1. /\ late' = late \cup InFlight(r) /\ rel' = [rel EXCEPT ![r] = Down]
      /\ srv' = [srv EXCEPT ![r] = [p \in Partitions |-> Idle]]
      /\ UNCHANGED <<rec, blocked, part, seen, last>>
  BY DEF Crash, table
<1>2. Rows /\ Epochs
  BY DEF Ordered
<1>3. ASSUME NEW c \in InFlight(r)
      PROVE  Calling(c) /\ Uses(r, c.p, c.epoch) /\ c.epoch <= part[c.p].epoch
  <2>0. PICK p \in Partitions :
           \E i \in srv[r][p].sent : c = [p |-> p, epoch |-> srv[r][p].epoch, id |-> i]
    BY <1>3 DEF InFlight
  <2>1. PICK i \in srv[r][p].sent : c = [p |-> p, epoch |-> srv[r][p].epoch, id |-> i]
    BY <2>0
  <2>2. PICK s : s = srv[r][p]
    OBVIOUS
  <2>3. s \in ServeRow /\ Serving(s, p) /\ s.epoch \in Nat /\ s.epoch <= part[p].epoch
    BY <1>2, <2>2, RowFacts DEF Ordered, Epochs
  <2>4. i \in s.wave
    BY <2>2, <2>3 DEF Serving, Shaped
  <2>5. c.p = p /\ c.epoch = s.epoch /\ c.id = i
    BY <2>1, <2>2
  <2>6. i \in Records /\ Prior(i) /\ PartitionOf[i] = p /\ s.epoch # NotHeld /\ Refused(p, s.epoch, i)
    BY <2>3, <2>4, HeadPrior
  <2>7. c \in [p : Partitions, epoch : Nat \ {NotHeld}, id : Records]
    BY <2>1, <2>2, <2>3, <2>6
  <2> QED  BY <2>2, <2>3, <2>5, <2>6, <2>7 DEF Calling, Uses
<1>4. \A q \in Relays, p \in Partitions :
         \/ q # r /\ rel'[q].held[p] = rel[q].held[p] /\ srv'[q][p] = srv[q][p]
         \/ q = r /\ rel'[q].held[p] = NotHeld /\ srv'[q][p] = Idle
  BY <1>1, <1>2 DEF Rows, Down
<1>5. Idle.epoch = NotHeld
  BY DEF Idle
<1>6. Epochs'
  <2>1. ASSUME NEW q \in Relays, NEW p \in Partitions, NEW e, Uses(q, p, e)'
        PROVE  q # r /\ Uses(q, p, e)
    BY <1>4, <1>5, <2>1 DEF Uses
  <2>2. ASSUME NEW q \in Relays, NEW p \in Partitions
        PROVE  rel'[q].held[p] <= part'[p].epoch /\ srv'[q][p].epoch <= part'[p].epoch
    <3>1. NotHeld <= part[p].epoch
      BY <1>2, LeaseFacts DEF NotHeld
    <3> QED  BY <1>1, <1>2, <1>4, <1>5, <3>1 DEF Epochs
  <2>3. ASSUME NEW q1 \in Relays, NEW q2 \in Relays, NEW p \in Partitions, NEW e \in Nat,
               Uses(q1, p, e)', Uses(q2, p, e)'
        PROVE  q1 = q2
    BY <1>2, <2>1, <2>3 DEF Epochs
  <2>4. ASSUME NEW c \in late'
        PROVE  c.epoch <= part'[c.p].epoch /\ \A q \in Relays : ~Uses(q, c.p, c.epoch)'
    <3>1. CASE c \in late
      <4>1. c.p \in Partitions
        BY <3>1 DEF Ordered, Calling
      <4> QED  BY <1>1, <1>2, <2>1, <3>1, <4>1 DEF Epochs
    <3>2. CASE c \in InFlight(r)
      <4>1. Uses(r, c.p, c.epoch) /\ c.p \in Partitions /\ c.epoch \in Nat /\ c.epoch <= part[c.p].epoch
        BY <1>3, <3>2 DEF Calling
      <4>2. \A q \in Relays : Uses(q, c.p, c.epoch) => q = r
        BY <1>2, <4>1 DEF Epochs
      <4> QED  BY <1>1, <2>1, <4>1, <4>2
    <3> QED  BY <1>1, <3>1, <3>2
  <2> QED  BY <2>2, <2>3, <2>4 DEF Epochs
<1>7. Table' /\ Sink'
  BY <1>1 DEF Ordered, Table, Sink, Prior, Done
<1>8. ASSUME NEW q \in Relays, NEW p \in Partitions PROVE Serving(srv[q][p], p)'
  <2>1. PICK s : s = IF q = r THEN Idle ELSE srv[q][p]
    OBVIOUS
  <2>2. Serving(s, p)
    BY <2>1, IdleServing DEF Ordered
  <2>3. Serving(s, p)'
    BY <1>1, <2>2, ServingSame
  <2>4. srv'[q][p] = s
    BY <1>4, <2>1
  <2> QED  BY <2>3, <2>4
<1>9. ASSUME NEW c \in late' PROVE Calling(c)'
  <2>1. Calling(c)
    BY <1>1, <1>3 DEF Ordered
  <2> QED  BY <1>1, <2>1 DEF Calling, Refused, Prior, Done
<1> QED  BY <1>6, <1>7, <1>8, <1>9 DEF Ordered

\* The sink takes a record before which every other of its key is done.
LEMMA TakesSink ==
    ASSUME Sink, NEW p \in Partitions, NEW e \in Nat, NEW i \in Records, Prior(i),
           Takes(p, e, i) \/ UNCHANGED <<seen, accepted, last>>, rec' = rec
    PROVE  Sink' /\ \A o \in Partitions : seen'[o] >= seen[o]
<1>0. i \in Nat /\ (Keyed(i) => KeyOf[i] \in Keys)
  BY OutboxAssumption DEF Keyed
<1>1. CASE Takes(p, e, i)
  <2>1. /\ seen' = [seen EXCEPT ![p] = e] /\ e >= seen[p]
        /\ last' = IF Keyed(i) THEN [last EXCEPT ![KeyOf[i]] = i] ELSE last
        /\ seen \in [Partitions -> Nat] /\ last \in [Keys -> Nat]
    BY <1>1 DEF Takes, Sink
  <2>2. seen' \in [Partitions -> Nat] /\ \A o \in Partitions : seen'[o] >= seen[o]
    BY <2>1
  <2>3. last' \in [Keys -> Nat]
    BY <1>0, <2>1
  <2>4. ASSUME NEW j \in Records, Keyed(j), j < last'[KeyOf[j]] PROVE Done(j)
    <3>1. CASE Keyed(i) /\ KeyOf[j] = KeyOf[i]
      <4>1. last'[KeyOf[j]] = i
        BY <1>0, <2>1, <3>1
      <4>2. SameKey(j, i)
        BY <2>4, <3>1 DEF SameKey
      <4> QED  BY <2>4, <4>1, <4>2 DEF Prior
    <3>2. CASE ~(Keyed(i) /\ KeyOf[j] = KeyOf[i])
      <4>1. last'[KeyOf[j]] = last[KeyOf[j]]
        BY <2>1, <2>4, <3>2
      <4> QED  BY <2>4, <4>1 DEF Sink
    <3> QED  BY <3>1, <3>2
  <2> QED  BY <2>2, <2>3, <2>4 DEF Sink, Done
<1>2. CASE UNCHANGED <<seen, accepted, last>>
  BY <1>2 DEF Sink, Done
<1> QED  BY <1>1, <1>2

LEMMA DeliverOrdered ==
    ASSUME Ordered, Rows', NEW r \in Relays, NEW p \in Partitions, NEW i \in Records, Deliver(r, p, i)
    PROVE  Ordered'
<1>1. PICK me, sent : me = srv[r][p] /\ sent = me.sent \ {i}
  OBVIOUS
<1>2. /\ me.pc = "sink" /\ i \in me.sent
      /\ UNCHANGED <<rec, blocked, part, rel, late>>
  BY <1>1 DEF Deliver, table
<1>3. /\ me \in ServeRow /\ Serving(me, p) /\ me.epoch \in Nat /\ me.epoch <= part[p].epoch
      /\ Rows /\ Sink /\ Table
  BY <1>1, RowFacts DEF Ordered, Epochs
<1>4. i \in me.wave /\ Prior(i)
  <2>1. i \in me.wave
    BY <1>2, <1>3 DEF Serving, Shaped
  <2> QED  BY <1>3, <2>1, HeadPrior
<1>5. PICK ok, new :
        /\ srv' = [srv EXCEPT ![r][p] = new] /\ new = [me EXCEPT !.sent = sent, !.ok = ok]
        /\ \/ Takes(p, me.epoch, i) /\ ok \in {me.ok, me.ok \cup {i}}
           \/ UNCHANGED <<seen, accepted, last>> /\ ok = me.ok
  <2>1. [me EXCEPT !.sent = sent] = [me EXCEPT !.sent = sent, !.ok = me.ok]
    BY <1>3 DEF ServeRow
  <2> QED  BY <1>1, <2>1, Zenon DEF Deliver
<1>6. Sink' /\ \A o \in Partitions : seen'[o] >= seen[o]
  BY <1>2, <1>3, <1>4, <1>5, TakesSink
<1>7. Table' /\ DoneKept
  BY <1>2, <1>3 DEF Table, Prior, Done, DoneKept
<1>8. ok # {} => me.epoch <= seen'[p]
  <2>1. CASE Takes(p, me.epoch, i)
    BY <1>3, <2>1 DEF Takes, Sink
  <2>2. CASE UNCHANGED seen /\ ok = me.ok
    BY <1>3, <2>2 DEF Serving
  <2> QED  BY <1>5, <2>1, <2>2
<1>9. /\ new.pc = "sink" /\ new.wave = me.wave /\ new.rest = me.rest /\ new.sent = sent
      /\ new.ok = ok /\ new.keys = me.keys /\ new.epoch = me.epoch
  BY <1>2, <1>3, <1>5 DEF ServeRow
<1>10. Serving(me, p)'
  <2>1. /\ part'[p].epoch \in Nat /\ part[p].epoch \in Nat /\ part'[p].epoch >= part[p].epoch
        /\ seen[p] \in Nat /\ seen'[p] \in Nat /\ seen'[p] >= seen[p]
    BY <1>2, <1>3, <1>6, LeaseFacts DEF Sink
  <2> QED  BY <1>2, <1>3, <1>7, <2>1, ServingKept
<1>11. Serving(new, p)'
  <2>1. Load(new) = Load(me)
    BY <1>9 DEF Load
  <2>2. Shaped(new, p)'
    <3>1. sent \subseteq me.wave /\ ok \subseteq me.wave
      BY <1>1, <1>2, <1>3, <1>4, <1>5 DEF Serving, Shaped
    <3> QED  BY <1>9, <1>10, <2>1, <3>1 DEF Serving, Shaped
  <2> QED  BY <1>8, <1>9, <1>10, <2>1, <2>2 DEF Serving, Follows, Leads
<1>12. /\ new.epoch = srv[r][p].epoch /\ \A j \in Records : rec'[j].state = rec[j].state
       /\ part' = part /\ late' \subseteq late
       /\ \A q \in Relays, o \in Partitions : rel'[q].held[o] = rel[q].held[o]
  BY <1>1, <1>2, <1>9
<1> QED  BY <1>5, <1>6, <1>7, <1>11, <1>12, OneServe

LEMMA LateOrdered ==
    ASSUME Ordered, Rows', NEW c \in late, DeliverLate(c)
    PROVE  Ordered'
<1>1. /\ late' \subseteq late /\ UNCHANGED <<rec, blocked, part, rel, srv>>
      /\ Takes(c.p, c.epoch, c.id) \/ UNCHANGED <<seen, accepted, last>>
  BY DEF DeliverLate, table
<1>2. /\ c.p \in Partitions /\ c.epoch \in Nat /\ c.id \in Records /\ Prior(c.id)
      /\ Sink /\ Rows
  BY DEF Ordered, Calling
<1>3. Sink' /\ \A o \in Partitions : seen'[o] >= seen[o]
  BY <1>1, <1>2, TakesSink
<1>4. Table' /\ Epochs' /\ Quiet
  BY <1>1 DEF Ordered, Table, Prior, Done, Quiet, Epochs, Uses
<1>5. seen \in [Partitions -> Nat] /\ seen' \in [Partitions -> Nat]
  BY <1>2, <1>3 DEF Sink
<1>6. ASSUME NEW r \in Relays, NEW p \in Partitions PROVE Serving(srv[r][p], p)'
  <2>1. PICK s : s = srv[r][p]
    OBVIOUS
  <2>2. /\ s \in ServeRow /\ part[p].epoch \in Nat /\ part'[p].epoch >= part[p].epoch
        /\ s.epoch <= part[p].epoch /\ Serving(s, p)
    BY <1>1, <1>2, <2>1, RowFacts DEF Ordered, Epochs
  <2>3. Serving(s, p)'
    BY <1>1, <1>3, <1>4, <1>5, <2>2, QuietServing
  <2> QED  BY <1>1, <2>1, <2>3
<1>7. ASSUME NEW d \in late' PROVE Calling(d)'
  <2>1. Calling(d) /\ d.p \in Partitions
    BY <1>1 DEF Ordered, Calling
  <2> QED  BY <1>3, <1>4, <1>5, <2>1, QuietCalling
<1> QED  BY <1>3, <1>4, <1>6, <1>7 DEF Ordered

-----------------------------------------------------------------------------
(* Settling.                                                               *)

\* While a serve holds its partition no record of a key it sent is parked.
LEMMA NoneParked ==
    ASSUME Ordered, NEW r \in Relays, NEW p \in Partitions, NEW i \in srv[r][p].wave,
           srv[r][p].epoch = part[p].epoch, NEW j \in Records, KeyOf[j] = KeyOf[i], Keyed(j)
    PROVE  rec[j].state # "parked"
<1>1. PICK s : s = srv[r][p]
  OBVIOUS
<1>2. s \in ServeRow /\ Serving(s, p) /\ Table
  BY <1>1 DEF Ordered, Rows
<1>3. i \in Records /\ Prior(i) /\ i \in Load(s)
  BY <1>1, <1>2, HeadPrior DEF Load
<1>4. rec[i].state = "pending"
  BY <1>1, <1>2, <1>3 DEF Serving, Leads
<1>5. SUFFICES ASSUME rec[j].state = "parked" PROVE FALSE
  OBVIOUS
<1>6. SameKey(i, j) /\ SameKey(j, i) /\ i \in Nat /\ j \in Nat /\ i # j
  BY <1>3, <1>4, <1>5, OutboxAssumption DEF SameKey, Keyed
<1>7. Prior(j)
  BY <1>2, <1>5 DEF Table
<1>8. i < j => Done(i)
  BY <1>3, <1>6, <1>7 DEF Prior
<1>9. j < i => Done(j)
  BY <1>3, <1>6 DEF Prior
<1> QED  BY <1>4, <1>5, <1>6, <1>8, <1>9 DEF Done

LEMMA SettleDeliveredOrdered ==
    ASSUME Ordered, Rows', NEW r \in Relays, NEW p \in Partitions, settleDelivered(r, p)
    PROVE  Ordered'
<1>1. PICK me, wave, new : /\ me = srv[r][p] /\ wave = me.wave \ me.ok
                           /\ new = [me EXCEPT !.pc = "fail", !.wave = wave]
  BY Zenon
<1>2. me.pc = "sink" /\ me.sent = {} /\ UNCHANGED <<part, seen, last, late>>
  BY <1>1 DEF settleDelivered, sink
<1>3. CASE Lose(r, p)
  BY <1>2, <1>3, LoseOrdered
<1>4. CASE ~Lose(r, p)
  <2>1. /\ me.ok = {} \/ Locked(r, p)
        /\ rec' = [i \in Records |-> IF i \in me.ok
                                      THEN [rec[i] EXCEPT !.state = "delivered"] ELSE rec[i]]
        /\ blocked' = [k \in Keys |-> IF k \in KeysOf(me.ok) THEN "no" ELSE blocked[k]]
        /\ srv' = [srv EXCEPT ![r][p] = new] /\ rel' = rel
    BY <1>1, <1>4 DEF settleDelivered
  <2>2. /\ me \in ServeRow /\ Serving(me, p) /\ Rows /\ Sink /\ Table
        /\ me.epoch \in Nat /\ part[p].epoch \in Nat
    BY <1>1, RowFacts DEF Ordered
  <2>3. me.ok \subseteq me.wave /\ me.wave \cap me.rest = {} /\ me.wave \subseteq Records
    BY <1>2, <2>2 DEF Serving, Shaped, ServeRow
  <2>4. /\ \A i \in Records : i \notin me.ok => rec'[i] = rec[i]
        /\ \A i \in me.ok : rec'[i].state = "delivered"
    BY <2>1, <2>2, <2>3 DEF Rows, RecordRow
  <2>5. me.ok # {} => me.epoch = part[p].epoch /\ me.epoch # NotHeld /\ me.epoch <= seen[p]
    <3>1. me.ok # {} => Owns(r, p, me.epoch)
      BY <1>1, <2>1 DEF Locked
    <3> QED  BY <2>2, <2>3, <3>1, HeadPrior DEF Owns, Serving
  <2>6. \A i \in me.ok : i \in Records /\ PartitionOf[i] = p /\ i \in Load(me)
    BY <2>2, <2>3, HeadPrior DEF Load
  <2>7. DoneKept
    BY <2>4 DEF DoneKept, Done
  <2>8. \A i \in Records : rec'[i].state = rec[i].state \/ Settles(r, p, i)
    BY <1>1, <2>4, <2>5, <2>6 DEF Settles
  <2>9. Table'
    <3>1. \A i \in Records : Keyed(i) => rec'[i].due
      <4>1. \A i \in Records : rec[i].due => rec'[i].due
        BY <2>1, <2>2 DEF Rows, RecordRow
      <4> QED  BY <2>2, <4>1 DEF Table
    <3>2. \A i \in me.ok : rec[i].state = "pending"
      BY <2>2, <2>5, <2>6 DEF Serving, Leads
    <3>3. ASSUME NEW j \in Records, rec'[j].state = "parked", Keyed(j)
          PROVE  blocked'[KeyOf[j]] = "forever" /\ rec[j].state = "parked"
      <4>1. rec[j].state = "parked" /\ KeyOf[j] \in Keys
        BY <2>4, <3>3, OutboxAssumption DEF Keyed
      <4>2. KeyOf[j] \notin KeysOf(me.ok)
        <5>1. ASSUME NEW i \in me.ok, KeyOf[j] = KeyOf[i] PROVE FALSE
          BY <1>1, <2>3, <2>5, <3>3, <4>1, <5>1, NoneParked
        <5> QED  BY <5>1 DEF KeysOf
      <4> QED  BY <2>1, <2>2, <3>3, <4>1, <4>2 DEF Table
    <3>4. blocked' \in [Keys -> {"no", "delay", "forever"}]
      BY <2>1, <2>2 DEF Table
    <3>5. /\ \A i \in Records : rec[i].state = "none" => rec'[i].state = "none"
          /\ \A i \in Records : rec'[i].state \in {"none", "open"} => rec'[i].state = rec[i].state
      BY <2>4, <3>2
    <3> QED  BY <2>2, <2>7, <3>1, <3>3, <3>4, <3>5, TableKept
  <2>10. Sink' /\ \A o \in Partitions : seen'[o] >= seen[o]
    BY <1>2, <2>2, <2>7, QuietSink DEF Sink
  <2>11. /\ new.pc = "fail" /\ new.wave = wave /\ new.rest = me.rest /\ new.sent = {}
         /\ new.ok = me.ok /\ new.keys = me.keys /\ new.epoch = me.epoch
    BY <1>1, <1>2, <2>2 DEF ServeRow
  <2>12. Load(new) = Load(me) \ me.ok
    BY <1>1, <2>3, <2>11 DEF Load
  <2>13. Shaped(new, p)'
    BY <1>1, <2>2, <2>11, <2>12 DEF Serving, Shaped
  <2>14. Follows(new)'
    <3>1. ASSUME NEW j \in Load(new), KeyOf[j] \notin new.keys, NEW i \in Records, SameKey(i, j), i < j
          PROVE  i \in Load(new) \/ Done(i)'
      <4>1. i \in Load(me) \/ Done(i)
        BY <2>2, <2>11, <2>12, <3>1 DEF Serving, Follows
      <4> QED  BY <2>4, <2>7, <2>12, <3>1, <4>1 DEF DoneKept, Done
    <3> QED  BY <3>1 DEF Follows
  <2>15. \A i \in Load(new) : rec'[i] = rec[i] /\ i \in Load(me)
    BY <2>2, <2>4, <2>12 DEF ServeRow, Load
  <2>16. Leads(new, p)' /\ \A i \in Load(new) : Refused(p, new.epoch, i)'
    BY <1>2, <2>2, <2>11, <2>15 DEF Serving, Leads, Refused
  <2>17. Serving(new, p)'
    BY <1>2, <2>2, <2>11, <2>13, <2>14, <2>16 DEF Serving
  <2>18. new.epoch = srv[r][p].epoch
    BY <1>1, <2>11
  <2> QED  BY <1>2, <2>1, <2>7, <2>8, <2>9, <2>10, <2>17, <2>18, OneServe
<1> QED  BY <1>3, <1>4

\* A failed record leaves the wave and takes its key with it.
Drops(me, i, new) ==
    new = [me EXCEPT !.wave = me.wave \ {i}, !.keys = me.keys \cup KeysOf({i})]

LEMMA SettledServing ==
    ASSUME NEW p \in Partitions, NEW me \in ServeRow, Serving(me, p), me.pc = "fail", NEW i \in me.wave,
           NEW new, Drops(me, i, new), DoneKept,
           \A j \in Records : j # i => rec'[j].state = rec[j].state,
           UNCHANGED <<part, seen>>
    PROVE  Serving(new, p)' /\ new.epoch = me.epoch
<1>0. PICK wave, keys : /\ wave = me.wave \ {i} /\ keys = me.keys \cup KeysOf({i})
                       /\ new = [me EXCEPT !.wave = wave, !.keys = keys]
  BY Zenon DEF Drops
<1>1. /\ new.pc = "fail" /\ new.wave = wave /\ new.rest = me.rest /\ new.sent = me.sent
      /\ new.ok = me.ok /\ new.keys = keys /\ new.epoch = me.epoch
  BY <1>0 DEF ServeRow
<1>2. Shaped(me, p) /\ Follows(me) /\ i \in Records /\ Load(me) \subseteq Records
  BY DEF Serving, ServeRow, Load
<1>3. Load(new) = Load(me) \ {i}
  BY <1>0, <1>1, <1>2 DEF Load, Shaped
<1>4. \A j \in Records : KeyOf[j] \notin keys => KeyOf[j] \notin me.keys /\ ~SameKey(i, j)
  BY <1>0 DEF KeysOf, SameKey, Keyed
<1>5. ASSUME NEW j \in wave PROVE KeyOf[j] \notin keys
  <2>1. j \in me.wave /\ j # i /\ j \in Load(me) /\ i \in Load(me) /\ j \in Nat /\ i \in Nat
    BY <1>0, <1>2, <1>5, OutboxAssumption DEF Load
  <2>2. KeyOf[j] \notin me.keys
    BY <1>2, <2>1 DEF Shaped
  <2>3. SUFFICES ASSUME KeyOf[j] \in KeysOf({i}) PROVE FALSE
    BY <1>0, <2>2
  <2>4. SameKey(i, j) /\ SameKey(j, i)
    BY <2>3 DEF KeysOf, SameKey, Keyed
  <2>5. i <= j /\ j <= i
    BY <1>2, <2>1, <2>4 DEF Shaped
  <2> QED  BY <2>1, <2>5
<1>6. Shaped(new, p)'
  <2>1. new.sent \subseteq new.wave /\ new.wave \cap new.rest = {} /\ new.sent = {}
    BY <1>0, <1>1, <1>2 DEF Shaped
  <2>2. \A j \in new.wave : KeyOf[j] \notin new.keys /\ \A l \in Load(new) : SameKey(j, l) => j <= l
    BY <1>0, <1>1, <1>2, <1>3, <1>5 DEF Shaped
  <2> QED  BY <1>1, <1>2, <1>3, <2>1, <2>2 DEF Shaped
<1>7. ASSUME NEW j \in Load(new), KeyOf[j] \notin new.keys, NEW l \in Records, SameKey(l, j), l < j
      PROVE  l \in Load(new) \/ Done(l)'
  <2>1. KeyOf[j] \notin me.keys /\ ~SameKey(i, j) /\ j \in Load(me)
    BY <1>1, <1>2, <1>3, <1>4, <1>7
  <2>2. l \in Load(me) \/ Done(l)
    BY <1>2, <1>7, <2>1 DEF Follows
  <2> QED  BY <1>3, <1>7, <2>1, <2>2 DEF DoneKept
<1>8. Follows(new)'
  BY <1>7 DEF Follows
<1>9. \A j \in Load(new) : rec'[j].state = rec[j].state /\ j \in Load(me)
  BY <1>2, <1>3
<1>10. Leads(new, p)' /\ \A j \in Load(new) : Refused(p, new.epoch, j)'
  BY <1>1, <1>9 DEF Serving, Leads, Refused
<1> QED  BY <1>1, <1>6, <1>8, <1>10 DEF Serving

LEMMA SettleFailedOrdered ==
    ASSUME Ordered, Rows', NEW r \in Relays, NEW p \in Partitions, NEW i \in Records,
           settleFailed(r, p, i) \/ settleParked(r, p, i)
    PROVE  Ordered'
<1>1. PICK me, new : /\ me = srv[r][p]
                     /\ new = [me EXCEPT !.wave = me.wave \ {i}, !.keys = me.keys \cup KeysOf({i})]
  BY Zenon
<1>2. /\ me.pc = "fail" /\ i \in me.wave /\ UNCHANGED <<part, seen, last, late>>
  BY <1>1 DEF settleFailed, settleParked, Failed, sink
<1>3. CASE Lose(r, p)
  BY <1>2, <1>3, LoseOrdered
<1>4. CASE ~Lose(r, p)
  <2>1. /\ Owns(r, p, me.epoch) /\ srv' = [srv EXCEPT ![r][p] = new] /\ rel' = rel
        /\ \/ /\ rec' = [rec EXCEPT ![i].attempts = @ + 1, ![i].due = @ /\ Keyed(i)]
              /\ blocked' = [k \in Keys |-> IF k = KeyOf[i] THEN "delay" ELSE blocked[k]]
           \/ /\ rec' = [rec EXCEPT ![i].state = "parked", ![i].attempts = 0]
              /\ blocked' = [k \in Keys |-> IF k = KeyOf[i] THEN "forever" ELSE blocked[k]]
    BY <1>1, <1>4 DEF settleFailed, settleParked, Locked, Settled
  <2>2. /\ me \in ServeRow /\ Serving(me, p) /\ Rows /\ Sink /\ Table /\ me.epoch = part[p].epoch
    BY <1>1, <2>1 DEF Ordered, Rows, Owns
  <2>3. Prior(i) /\ PartitionOf[i] = p /\ me.epoch # NotHeld /\ rec[i].state = "pending"
    <3>1. i \in Load(me)
      BY <1>2 DEF Load
    <3> QED  BY <1>2, <2>2, <3>1, HeadPrior DEF Serving, Leads
  <2>4. /\ \A j \in Records : j # i => rec'[j] = rec[j]
        /\ \/ rec'[i].state = "pending"
           \/ rec'[i].state = "parked" /\ (Keyed(i) => blocked'[KeyOf[i]] = "forever")
    BY <2>1, <2>2, <2>3, OutboxAssumption DEF Rows, RecordRow, Keyed
  <2>5. DoneKept
    BY <2>3, <2>4 DEF DoneKept, Done
  <2>6. \A j \in Records : rec'[j].state = rec[j].state \/ Settles(r, p, j)
    BY <1>1, <2>2, <2>3, <2>4 DEF Settles
  <2>7. Table'
    <3>1. \A j \in Records : Keyed(j) => rec'[j].due
      <4>1. Keyed(i) /\ rec[i].due => rec'[i].due
        BY <2>1, <2>2 DEF Rows, RecordRow
      <4> QED  BY <2>2, <2>4, <4>1 DEF Table
    <3>2. ASSUME NEW j \in Records, rec'[j].state = "parked", Keyed(j)
          PROVE  blocked'[KeyOf[j]] = "forever" /\ (rec[j].state = "parked" \/ Prior(j))
      <4>1. CASE j = i
        BY <2>3, <2>4, <3>2, <4>1
      <4>2. CASE j # i
        <5>1. rec[j].state = "parked" /\ KeyOf[j] \in Keys
          BY <2>4, <3>2, <4>2, OutboxAssumption DEF Keyed
        <5>2. KeyOf[j] # KeyOf[i]
          BY <1>1, <1>2, <2>2, <3>2, <5>1, NoneParked
        <5>3. blocked'[KeyOf[j]] = blocked[KeyOf[j]]
          BY <2>1, <5>1, <5>2
        <5> QED  BY <2>2, <3>2, <5>1, <5>3 DEF Table
      <4> QED  BY <4>1, <4>2
    <3>3. blocked' \in [Keys -> {"no", "delay", "forever"}]
      BY <2>1, <2>2 DEF Table
    <3>4. /\ \A j \in Records : rec[j].state = "none" => rec'[j].state = "none"
          /\ \A j \in Records : rec'[j].state \in {"none", "open"} => rec'[j].state = rec[j].state
      BY <2>3, <2>4
    <3> QED  BY <2>2, <2>5, <3>1, <3>2, <3>3, <3>4, TableKept
  <2>8. Sink' /\ \A o \in Partitions : seen'[o] >= seen[o]
    BY <1>2, <2>2, <2>5, QuietSink DEF Sink
  <2>9. Serving(new, p)' /\ new.epoch = srv[r][p].epoch
    <3>1. Drops(me, i, new)
      BY <1>1 DEF Drops
    <3>2. \A j \in Records : j # i => rec'[j].state = rec[j].state
      BY <2>4
    <3>3. Serving(new, p)' /\ new.epoch = me.epoch
      BY <1>2, <2>2, <2>5, <3>1, <3>2, SettledServing
    <3> QED  BY <1>1, <3>3
  <2> QED  BY <1>2, <2>1, <2>5, <2>6, <2>7, <2>8, <2>9, OneServe
<1> QED  BY <1>3, <1>4

-----------------------------------------------------------------------------
LEMMA InitOrdered == Init => Ordered
<1> SUFFICES ASSUME Init PROVE Ordered
  OBVIOUS
<1>1. Rows /\ Table
  <2>1. Rows
    BY DeliveryInit DEF Delivery
  <2>2. \A i \in Records : rec[i].state = "none" /\ rec[i].due
    BY DEF Init
  <2> QED  BY <2>1, <2>2 DEF Init, Table
<1>2. /\ \A r \in Relays, p \in Partitions : srv[r][p] = Idle /\ rel[r].held[p] = NotHeld
      /\ \A p \in Partitions : part[p].epoch = 0
      /\ late = {} /\ Idle.epoch = NotHeld
  BY DEF Init, Down, Idle
<1>3. Epochs
  BY <1>2 DEF Epochs, Uses, NotHeld
<1>4. Sink
  BY OutboxAssumption DEF Init, Sink, Keyed
<1>5. \A r \in Relays, p \in Partitions : Serving(srv[r][p], p)
  BY <1>2, IdleServing
<1> QED  BY <1>1, <1>2, <1>3, <1>4, <1>5 DEF Ordered

LEMMA NextOrdered == Delivery /\ Ordered /\ [Next]_vars => Ordered'
<1> SUFFICES ASSUME Delivery, Ordered, [Next]_vars PROVE Ordered'
  OBVIOUS
<1>0. Rows'
  BY DeliveryStep DEF Delivery
<1>1. CASE Writers
  BY <1>0, <1>1, WriteOrdered, EndWriteOrdered DEF Writers
<1>2. ASSUME NEW r \in Relays, Start(r) \/ Beat(r) \/ Rebalance(r) \/ Close(r) \/ Crash(r)
      PROVE Ordered'
  BY <1>0, <1>2, HeartbeatOrdered, RebalanceOrdered, CloseOrdered, CrashOrdered
<1>3. ASSUME NEW r \in Relays, NEW p \in Partitions, Serve(r, p) PROVE Ordered'
  <2>1. CASE readPartition(r, p)
    BY <1>0, <2>1, ReadOrdered
  <2>2. CASE NextWave(r, p)
    BY <1>0, <2>2, NextWaveOrdered
  <2>3. CASE settleDelivered(r, p)
    BY <1>0, <2>3, SettleDeliveredOrdered
  <2>4. CASE WaveDone(r, p)
    BY <1>0, <2>4, WaveEndsOrdered
  <2>5. ASSUME NEW i \in Records, Deliver(r, p, i) PROVE Ordered'
    BY <1>0, <2>5, DeliverOrdered
  <2>6. ASSUME NEW i \in Records, settleFailed(r, p, i) \/ settleParked(r, p, i) PROVE Ordered'
    BY <1>0, <2>6, SettleFailedOrdered
  <2> QED  BY <1>3, <2>1, <2>2, <2>3, <2>4, <2>5, <2>6 DEF Serve
<1>4. ASSUME NEW r \in Relays, NEW p \in Partitions, StatementFails(r, p) PROVE Ordered'
  BY <1>0, <1>4, WaveEndsOrdered
<1>5. ASSUME NEW c \in late, DeliverLate(c) PROVE Ordered'
  BY <1>0, <1>5, LateOrdered
<1>6. CASE \/ \E p \in Partitions : LapseUnheld(p) \/ LapseStalled(p)
           \/ \E r \in Relays : Unseen(r) \/ UnseenStalled(r)
  BY <1>0, <1>6, TimeOrdered
<1>7. CASE Delay \/ setPaused \/ \E i \in Records : replay(i) \/ discard(i)
  BY <1>0, <1>7, DelayOrdered, PauseOrdered, ReplayOrdered, DiscardOrdered
<1>8. CASE UNCHANGED vars
  <2>1. UNCHANGED <<rec, blocked, part, rel, srv, seen, last, late>>
    BY <1>8 DEF vars
  <2> QED  BY <1>0, <2>1, SameOrdered
<1> QED  BY <1>1, <1>2, <1>3, <1>4, <1>5, <1>6, <1>7, <1>8 DEF Next, Time

\* Through crashes, lapsed leases, rebalancing and administration, no epoch is
\* shared, every record sent is the first of its key that is not done, and what
\* is stale the sink refuses.
THEOREM OrderedHolds == Spec => []Ordered
  BY InitOrdered, NextOrdered, DeliveryInvariant, PTL DEF Spec

-----------------------------------------------------------------------------
\* The step that KeyOrder asks for.
OrderKept ==
    \A k \in Keys :
        /\ last'[k] > last[k] =>
               \A j \in Records : KeyOf[j] = k /\ j < last'[k]
                                  => rec[j].state \in {"delivered", "gone"}
        /\ last'[k] < last[k] => rec[last'[k]].state = "gone"

LEMMA LastUnmoved == ASSUME Ordered, UNCHANGED last PROVE OrderKept
  BY DEF Ordered, Sink, OrderKept

LEMMA TakesInOrder ==
    ASSUME Ordered, NEW p \in Partitions, NEW e \in Nat, NEW i \in Records, Prior(i),
           PartitionOf[i] = p, Refused(p, e, i), Takes(p, e, i)
    PROVE  OrderKept
<1>1. /\ last' = IF Keyed(i) THEN [last EXCEPT ![KeyOf[i]] = i] ELSE last
      /\ e >= seen[p] /\ Sink /\ last \in [Keys -> Nat] /\ seen[p] \in Nat
  BY DEF Takes, Ordered, Sink
<1>2. CASE ~Keyed(i)
  BY <1>1, <1>2, LastUnmoved
<1>3. CASE Keyed(i)
  <2>1. KeyOf[i] \in Keys /\ i \in Nat
    BY <1>3, OutboxAssumption DEF Keyed
  <2>2. last'[KeyOf[i]] = i /\ \A k \in Keys : k # KeyOf[i] => last'[k] = last[k]
    BY <1>1, <1>3, <2>1
  <2>3. ASSUME NEW j \in Records, KeyOf[j] = KeyOf[i], j < i
        PROVE  rec[j].state \in {"delivered", "gone"}
    BY <1>3, <2>3 DEF Prior, SameKey, Keyed, Done
  <2>4. i < last[KeyOf[i]] => rec[i].state = "gone"
    <3>1. i < last[KeyOf[i]] => Done(i)
      BY <1>1, <1>3 DEF Sink
    <3>2. ~(e < seen[p])
      BY <1>1
    <3> QED  BY <3>1, <3>2 DEF Done, Refused
  <2> QED  BY <1>1, <2>2, <2>3, <2>4 DEF OrderKept
<1> QED  BY <1>2, <1>3

LEMMA ServeInOrder ==
    ASSUME Ordered, NEW r \in Relays, NEW p \in Partitions, NEW i \in Records, Deliver(r, p, i)
    PROVE  OrderKept
<1>1. PICK s : s = srv[r][p]
  OBVIOUS
<1>2. s \in ServeRow /\ Serving(s, p) /\ s.epoch \in Nat
  BY <1>1, RowFacts DEF Ordered
<1>3. i \in s.wave /\ (Takes(p, s.epoch, i) \/ UNCHANGED last)
  BY <1>1, <1>2 DEF Deliver, Serving, Shaped
<1>4. Prior(i) /\ PartitionOf[i] = p /\ Refused(p, s.epoch, i)
  BY <1>2, <1>3, HeadPrior
<1> QED  BY <1>2, <1>3, <1>4, TakesInOrder, LastUnmoved

LEMMA LateInOrder == ASSUME Ordered, NEW c \in late, DeliverLate(c) PROVE OrderKept
<1>1. /\ c.p \in Partitions /\ c.epoch \in Nat /\ c.id \in Records
      /\ PartitionOf[c.id] = c.p /\ Refused(c.p, c.epoch, c.id) /\ Prior(c.id)
  BY DEF Ordered, Calling
<1> QED  BY <1>1, TakesInOrder, LastUnmoved DEF DeliverLate

LEMMA StepInOrder == ASSUME Ordered, Next PROVE OrderKept
<1>1. CASE \E r \in Relays, p \in Partitions, i \in Records : Deliver(r, p, i)
  BY <1>1, ServeInOrder
<1>2. CASE \E c \in late : DeliverLate(c)
  BY <1>2, LateInOrder
<1>3. CASE /\ ~\E r \in Relays, p \in Partitions, i \in Records : Deliver(r, p, i)
           /\ ~\E c \in late : DeliverLate(c)
  <2>1. CASE Writers \/ setPaused \/ \E i \in Records : replay(i) \/ discard(i)
    BY <2>1, LastUnmoved DEF Writers, Write, EndWrite, setPaused, replay, discard, Administers, sink
  <2>2. CASE Time \/ \E p \in Partitions : LapseStalled(p)
    BY <2>2, LastUnmoved DEF Time, LapseUnheld, LapseStalled, Lapse, Unseen, Fades, Delay, sink
  <2>3. ASSUME NEW r \in Relays, \/ Start(r) \/ Beat(r) \/ Rebalance(r)
                                 \/ Crash(r) \/ Close(r) \/ UnseenStalled(r)
        PROVE  OrderKept
    BY <2>3, LastUnmoved DEF Start, Beat, Rebalance, Acquire, SkipAcquire, ReleaseExcess, Crash, Close,
       UnseenStalled, Fades, sink
  <2>4. ASSUME NEW r \in Relays, NEW p \in Partitions, Serve(r, p) \/ StatementFails(r, p)
        PROVE  OrderKept
    BY <1>3, <2>4, LastUnmoved DEF Serve, StatementFails, readPartition, NextWave, settleDelivered,
       WaveDone, settleFailed, settleParked, Failed, sink
  <2> QED  BY <1>3, <2>1, <2>2, <2>3, <2>4 DEF Next
<1> QED  BY <1>1, <1>2, <1>3

\* The records of a key reach a fencing sink in id order: none before an earlier
\* one is done, and a later one is followed by an earlier only if that was
\* discarded while its call was under way.
THEOREM KeyOrderHolds == Spec => KeyOrder
<1>1. Ordered /\ [Next]_vars =>
        [\A k \in Keys :
           /\ last'[k] > last[k] =>
                  \A j \in Records : KeyOf[j] = k /\ j < last'[k]
                                     => rec[j].state \in {"delivered", "gone"}
           /\ last'[k] < last[k] => rec[last'[k]].state = "gone"]_vars
  BY StepInOrder DEF OrderKept
<1> QED  BY <1>1, OrderedHolds, PTL DEF Spec, KeyOrder
=============================================================================
