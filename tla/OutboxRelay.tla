----------------------------- MODULE OutboxRelay -----------------------------
(***************************************************************************)
(* The relays of pg-prime-outbox on one ordered topic: writers that insert *)
(* records in their transactions, relays that share the partitions by      *)
(* leases with a growing epoch, deliver them to a sink and settle them,    *)
(* and the administrator.                                                  *)
(*                                                                         *)
(* A statement of PostgreSQL is one step.  The token of a lease is its     *)
(* epoch: both are new whenever a partition changes hands.  The sink is a  *)
(* receiver that keeps the highest epoch it has seen per partition and     *)
(* rejects lower ones; once a call was answered it has no later effect.    *)
(***************************************************************************)
EXTENDS Integers, FiniteSets, FiniteSetsExt

CONSTANTS
    Relays,         \* processes that run a relay
    Partitions,     \* topics.partitions, as numbers
    Records,        \* bound: records, numbered in the order of their ids
    Keys, NoKey,    \* record keys; NoKey is null
    KeyOf,          \* the key of each record
    PartitionOf,    \* the partition of each record
    BatchSize,      \* RelayOptions.batchSize
    MaxAttempts,    \* RelayOptions.retry.maxAttempts
    MayClose,       \* relays that may be closed for good
    MaxChurn,       \* bound: releases of excess between two heartbeats
    MaxFaults,      \* bound: crashes, failed statements, stalls
    MaxAdmin        \* bound: pauses, replays and discards

ASSUME OutboxAssumption ==
    /\ Records \subseteq Nat /\ IsFiniteSet(Records) /\ Partitions \subseteq Nat
    /\ IsFiniteSet(Relays)
    /\ NoKey \notin Keys /\ KeyOf \in [Records -> Keys \cup {NoKey}]
    /\ PartitionOf \in [Records -> Partitions]
    /\ \A i, j \in Records : KeyOf[i] = KeyOf[j] /\ KeyOf[i] # NoKey
                             => PartitionOf[i] = PartitionOf[j]
    /\ BatchSize \in Nat \ {0} /\ MaxAttempts \in Nat \ {0}
    /\ MaxChurn \in Nat \ {0} /\ MaxFaults \in Nat /\ MaxAdmin \in Nat

VARIABLES
    rec,      \* records: state, attempts and whether next_at is past
    blocked,  \* blocked, per key: "no" row in force, a "delay", or "forever"
    paused,   \* topics.paused
    part,     \* partitions: epoch, owner (NoRelay: no token), lease in force
    fresh,    \* relays, per relay: seen_at within leaseMs
    rel,      \* memory of a relay: loop, held leases, partitions of the round
    srv,      \* memory of serve, per relay and partition
    seen,     \* the sink: highest epoch per partition
    last,     \* the sink: last record it accepted per key
    accepted, \* ghost: records the sink ever accepted
    late,     \* calls of relays that died, still on their way to the sink
    budget    \* faults and administrative calls left

vars == <<rec, blocked, paused, part, fresh, rel, srv, seen, last, accepted, late, budget>>

NoRelay == "none"
\* The epoch of a partition that is not held.
NotHeld == 0

Keyed(i) == KeyOf[i] # NoKey
SameKey(i, j) == Keyed(i) /\ KeyOf[i] = KeyOf[j]
KeysOf(S) == {KeyOf[i] : i \in S} \ {NoKey}

Down == [pc |-> "down", held |-> [p \in Partitions |-> NotHeld], todo |-> {}, live |-> 1,
         churn |-> 0]
Idle == [pc |-> "idle", epoch |-> NotHeld, rest |-> {}, wave |-> {}, sent |-> {},
         ok |-> {}, keys |-> {}]

Init ==
    /\ rec = [i \in Records |-> [state |-> "none", attempts |-> 0, due |-> TRUE]]
    /\ blocked = [k \in Keys |-> "no"] /\ paused = FALSE
    /\ part = [p \in Partitions |-> [epoch |-> 0, owner |-> NoRelay, live |-> FALSE]]
    /\ fresh = [r \in Relays |-> FALSE]
    /\ rel = [r \in Relays |-> Down]
    /\ srv = [r \in Relays |-> [p \in Partitions |-> Idle]]
    /\ seen = [p \in Partitions |-> 0] /\ last = [k \in Keys |-> 0]
    /\ accepted = {} /\ late = {}
    /\ budget = [faults |-> MaxFaults, admin |-> MaxAdmin]

sink == <<seen, last, accepted, late>>
table == <<rec, blocked, paused>>
Fault == budget.faults > 0 /\ budget' = [budget EXCEPT !.faults = @ - 1]

-----------------------------------------------------------------------------
(* Writers.                                                                *)

InState(s) == {i \in Records : rec[i].state = s}

\* The transaction of a writer holds the lock of its key from before the
\* insert, which assigns the id, to its end.
Write(i) ==
    /\ rec[i].state = "none" /\ \A j \in Records : j < i => rec[j].state # "none"
    /\ \A j \in InState("open") : ~SameKey(i, j)
    /\ rec' = [rec EXCEPT ![i].state = "open"]
    /\ UNCHANGED <<blocked, paused, part, fresh, rel, srv, sink, budget>>

EndWrite(i, state) ==
    /\ rec[i].state = "open"
    /\ rec' = [rec EXCEPT ![i].state = state]
    /\ UNCHANGED <<blocked, paused, part, fresh, rel, srv, sink, budget>>

-----------------------------------------------------------------------------
(* Membership and leases.                                                  *)

HeldBy(r) == {p \in Partitions : rel[r].held[p] # NotHeld}
Owns(r, p, epoch) == part[p].owner = r /\ part[p].epoch = epoch
Live == Cardinality({r \in Relays : fresh[r]})

AtLeast1(n) == IF n < 1 THEN 1 ELSE n
\* Mutant: the share does not shrink when relays join.
fairShareOfOne(live) == Cardinality(Partitions)

\* ceil(P / live)
fairShare(live) ==
    (Cardinality(Partitions) + AtLeast1(live) - 1) \div AtLeast1(live)

\* Registers the relay, extends the leases it holds and forgets those that
\* another relay took over.
heartbeat(r) ==
    LET me == rel[r]
        kept == {p \in HeldBy(r) : Owns(r, p, me.held[p])}
    IN  /\ fresh' = [fresh EXCEPT ![r] = TRUE]
        /\ part' = [p \in Partitions |->
                       IF p \in kept THEN [part[p] EXCEPT !.live = TRUE] ELSE part[p]]
        /\ rel' = [rel EXCEPT ![r] =
              [me EXCEPT !.held = [p \in Partitions |-> IF p \in kept THEN me.held[p] ELSE NotHeld],
                         !.live = Cardinality({q \in Relays : fresh'[q]}),
                         !.churn = 0,
                         !.pc = IF me.pc = "down" THEN "loop" ELSE me.pc]]

Start(r) ==
    /\ rel[r].pc = "down"
    /\ heartbeat(r)
    /\ UNCHANGED <<table, srv, sink, budget>>

Beat(r) ==
    /\ rel[r].pc \in {"loop", "excess"}
    /\ heartbeat(r)
    /\ UNCHANGED <<table, srv, sink, budget>>

\* Between two rounds: nothing is being served and nothing is left to serve.
BetweenRounds(r) ==
    /\ rel[r].pc = "loop" /\ rel[r].todo = {} /\ rel[r].churn < MaxChurn
    /\ \A p \in Partitions : srv[r][p].pc = "idle"

\* Mutant: only released partitions are free, expired ones are not.
GrantsFree(r) ==
    LET free == {p \in Partitions : part[p].owner = NoRelay}
    IN  kSubset(IF free = {} THEN 0 ELSE 1, free)

\* Free or expired partitions, up to the fair share of the relays alive now.
Grants(r) ==
    LET mine == {p \in Partitions : part[p].owner = r /\ part[p].live}
        free == {p \in Partitions : part[p].owner = NoRelay \/ ~part[p].live}
        share == fairShare(Live) - Cardinality(mine)
        n == IF share < 0 THEN 0 ELSE IF share > Cardinality(free) THEN Cardinality(free) ELSE share
    IN  kSubset(n, free)

\* The next round serves what is held, once no more than the share is held.
Round(r, held, live) ==
    LET mine == {p \in Partitions : held[p] # NotHeld}
        over == Cardinality(mine) > fairShare(live)
    IN  rel' = [rel EXCEPT ![r] = [rel[r] EXCEPT !.held = held, !.live = live,
                                                 !.pc = IF over THEN "excess" ELSE "loop",
                                                 !.todo = IF over THEN {} ELSE mine]]

Acquire(r) ==
    /\ BetweenRounds(r) /\ Cardinality(HeldBy(r)) <= fairShare(rel[r].live)
    /\ \E got \in Grants(r) :
           /\ part' = [p \in Partitions |->
                          IF p \in got
                          THEN [epoch |-> part[p].epoch + 1, owner |-> r, live |-> TRUE]
                          ELSE part[p]]
           /\ Round(r, [p \in Partitions |-> IF p \in got THEN part[p].epoch + 1
                                             ELSE rel[r].held[p]], Live)
    /\ UNCHANGED <<table, fresh, srv, sink, budget>>

\* More than the fair share is held: no acquire, straight to the release.
SkipAcquire(r) ==
    /\ BetweenRounds(r) /\ Cardinality(HeldBy(r)) > fairShare(rel[r].live)
    /\ rel' = [rel EXCEPT ![r].pc = "excess"]
    /\ UNCHANGED <<table, part, fresh, srv, sink, budget>>

\* Gives up the leases of S whose tokens are still those of the relay.
Given(r, S) ==
    [p \in Partitions |-> IF p \in S /\ Owns(r, p, rel[r].held[p])
                          THEN [part[p] EXCEPT !.owner = NoRelay, !.live = FALSE]
                          ELSE part[p]]

\* The partitions with the highest numbers are released.
ReleaseExcess(r) ==
    LET me == rel[r]
        n == Cardinality(HeldBy(r)) - fairShare(me.live)
        extra == {p \in HeldBy(r) : Cardinality({q \in HeldBy(r) : q > p}) < n}
    IN  /\ me.pc = "excess"
        /\ part' = Given(r, extra)
        /\ rel' = [rel EXCEPT ![r] =
              [me EXCEPT !.pc = "loop", !.todo = HeldBy(r) \ extra, !.churn = me.churn + 1,
                         !.held = [p \in Partitions |-> IF p \in extra THEN NotHeld ELSE me.held[p]]]]
        /\ UNCHANGED <<table, fresh, srv, sink, budget>>

-----------------------------------------------------------------------------
(* Serving a partition.                                                    *)

\* The deliverable head of the partition, in id order.
Deliverable(p) ==
    {i \in InState("pending") : /\ PartitionOf[i] = p /\ rec[i].due /\ ~paused
                                /\ Keyed(i) => blocked[KeyOf[i]] = "no"}
FirstOf(S, n) == {i \in S : Cardinality({j \in S : j < i}) < n}

readPartition(r, p) ==
    /\ rel[r].pc = "loop" /\ p \in rel[r].todo
    /\ rel' = [rel EXCEPT ![r].todo = @ \ {p}]
    /\ LET rows == FirstOf(Deliverable(p), BatchSize)
       IN  srv' = IF rows = {} \/ rel[r].held[p] = NotHeld THEN srv
                  ELSE [srv EXCEPT ![r][p] = [Idle EXCEPT !.pc = "wave", !.rest = rows,
                                                          !.epoch = rel[r].held[p]]]
    /\ UNCHANGED <<table, part, fresh, sink, budget>>

Holds(r, p) == rel[r].held[p] = srv[r][p].epoch

\* The first record of every key and all unkeyed ones of what is left.
Heads(S) == {i \in S : \A j \in S : SameKey(i, j) => i <= j}

\* Mutant: a key that failed in an earlier wave is sent on.
NextWaveOfAll(r, p) ==
    LET me == srv[r][p]
        wave == Heads(me.rest)
    IN  /\ me.pc = "wave"
        /\ srv' = [srv EXCEPT ![r][p] =
              IF me.rest = {} \/ ~Holds(r, p) \/ rel[r].pc = "closed" THEN Idle
              ELSE [me EXCEPT !.pc = "sink", !.rest = me.rest \ wave, !.wave = wave,
                              !.sent = wave, !.ok = {}]]
        /\ UNCHANGED <<table, part, fresh, rel, sink, budget>>

\* A wave is sent unless the relay is closed or lost the partition; keys that
\* failed in an earlier wave are dropped.
NextWave(r, p) ==
    LET me == srv[r][p]
        wave == {i \in Heads(me.rest) : KeyOf[i] \notin me.keys}
        rest == me.rest \ Heads(me.rest)
    IN  /\ me.pc = "wave"
        /\ srv' = [srv EXCEPT ![r][p] =
              IF me.rest = {} \/ ~Holds(r, p) \/ rel[r].pc = "closed" THEN Idle
              ELSE IF wave = {} THEN [me EXCEPT !.rest = rest]
              ELSE [me EXCEPT !.pc = "sink", !.rest = rest, !.wave = wave,
                              !.sent = wave, !.ok = {}]]
        /\ UNCHANGED <<table, part, fresh, rel, sink, budget>>

\* The receiver takes one record of a call unless it has seen a higher epoch.
Takes(p, epoch, i) ==
    /\ epoch >= seen[p]
    /\ seen' = [seen EXCEPT ![p] = epoch]
    /\ accepted' = accepted \cup {i}
    /\ last' = IF Keyed(i) THEN [last EXCEPT ![KeyOf[i]] = i] ELSE last

\* The sink handles one record of the wave; a record that it took may still
\* be reported as failed.  A record the codec cannot decode is never sent,
\* which is the second disjunct.
Deliver(r, p, i) ==
    LET me == srv[r][p]
    IN  /\ me.pc = "sink" /\ i \in me.sent
        /\ \/ /\ Takes(p, me.epoch, i)
              /\ \E ok \in {me.ok, me.ok \cup {i}} :
                     srv' = [srv EXCEPT ![r][p] = [me EXCEPT !.sent = me.sent \ {i}, !.ok = ok]]
           \/ /\ srv' = [srv EXCEPT ![r][p] = [me EXCEPT !.sent = me.sent \ {i}]]
              /\ UNCHANGED <<seen, accepted, last>>
        /\ UNCHANGED <<table, part, fresh, rel, late, budget>>

DeliverLate(c) ==
    /\ c \in late
    /\ late' = late \ {c}
    /\ Takes(c.p, c.epoch, c.id) \/ UNCHANGED <<seen, accepted, last>>
    /\ UNCHANGED <<table, part, fresh, rel, srv, budget>>

\* The lease check of a settle: the token, and the lease not run out.
Locked(r, p) == Owns(r, p, srv[r][p].epoch) /\ part[p].live

Forgets(r, p) == IF Holds(r, p) THEN [rel EXCEPT ![r].held[p] = NotHeld] ELSE rel

\* Fewer settled than sent: the partition is lost and the serve ends.
Lose(r, p) ==
    /\ rel' = Forgets(r, p)
    /\ srv' = [srv EXCEPT ![r][p] = Idle]
    /\ UNCHANGED <<rec, blocked>>

\* Mutant: a sink that throws is taken for one that reports no failure.
settleDeliveredAll(r, p) ==
    LET me == srv[r][p]
    IN  /\ me.pc = "sink" /\ me.sent = {}
        /\ IF ~Locked(r, p) THEN Lose(r, p)
           ELSE /\ rec' = [i \in Records |-> IF i \in me.wave
                                             THEN [rec[i] EXCEPT !.state = "delivered"]
                                             ELSE rec[i]]
                /\ srv' = [srv EXCEPT ![r][p].pc = "fail", ![r][p].wave = {}]
                /\ UNCHANGED <<rel, blocked>>
        /\ UNCHANGED <<paused, part, fresh, sink, budget>>

\* Marked delivered; with keepDeliveredMs 0 deleted, which no reader can tell.
settleDelivered(r, p) ==
    LET me == srv[r][p]
    IN  /\ me.pc = "sink" /\ me.sent = {}
        /\ IF me.ok # {} /\ ~Locked(r, p) THEN Lose(r, p)
           ELSE /\ rec' = [i \in Records |-> IF i \in me.ok
                                             THEN [rec[i] EXCEPT !.state = "delivered"]
                                             ELSE rec[i]]
                /\ blocked' = [k \in Keys |-> IF k \in KeysOf(me.ok) THEN "no" ELSE blocked[k]]
                /\ srv' = [srv EXCEPT ![r][p] = [me EXCEPT !.pc = "fail", !.wave = me.wave \ me.ok]]
                /\ UNCHANGED rel
        /\ UNCHANGED <<paused, part, fresh, sink, budget>>

\* The failed records of a wave are settled one by one.
Failed(r, p, i) ==
    /\ srv[r][p].pc = "fail" /\ i \in srv[r][p].wave /\ \A j \in srv[r][p].wave : i <= j
    /\ UNCHANGED <<paused, part, fresh, sink, budget>>

Settled(r, p, i) ==
    LET me == srv[r][p]
    IN  srv' = [srv EXCEPT ![r][p] =
                    [me EXCEPT !.wave = me.wave \ {i}, !.keys = me.keys \cup KeysOf({i})]]

\* A keyed failure blocks its key, an unkeyed one delays itself.
settleFailed(r, p, i) ==
    /\ Failed(r, p, i) /\ rec[i].attempts + 1 < MaxAttempts
    /\ IF ~Locked(r, p) THEN Lose(r, p)
       ELSE /\ rec' = [rec EXCEPT ![i].attempts = @ + 1, ![i].due = @ /\ Keyed(i)]
            /\ blocked' = [k \in Keys |-> IF k = KeyOf[i] THEN "delay" ELSE blocked[k]]
            /\ Settled(r, p, i)
            /\ UNCHANGED rel

\* The last attempt, an undecodable payload or a sink that says so: the record
\* is parked and its key blocked.  Its attempts count again only after a replay,
\* which begins at zero.
settleParked(r, p, i) ==
    /\ Failed(r, p, i)
    /\ IF ~Locked(r, p) THEN Lose(r, p)
       ELSE /\ rec' = [rec EXCEPT ![i].state = "parked", ![i].attempts = 0]
            /\ blocked' = [k \in Keys |-> IF k = KeyOf[i] THEN "forever" ELSE blocked[k]]
            /\ Settled(r, p, i)
            /\ UNCHANGED rel

WaveDone(r, p) ==
    /\ srv[r][p].pc = "fail" /\ srv[r][p].wave = {}
    /\ srv' = [srv EXCEPT ![r][p] = [srv[r][p] EXCEPT !.pc = "wave"]]
    /\ UNCHANGED <<table, part, fresh, rel, sink, budget>>

-----------------------------------------------------------------------------
(* Faults, close and time.                                                 *)

InFlight(r) ==
    UNION {{[p |-> p, epoch |-> srv[r][p].epoch, id |-> i] : i \in srv[r][p].sent} :
           p \in Partitions}

Crash(r) ==
    /\ rel[r].pc \notin {"down", "closed"} /\ Fault
    /\ late' = late \cup InFlight(r)
    /\ rel' = [rel EXCEPT ![r] = Down]
    /\ srv' = [srv EXCEPT ![r] = [p \in Partitions |-> Idle]]
    /\ UNCHANGED <<table, part, fresh, seen, last, accepted>>

\* A statement of a serve fails: the serve ends, the lease stays.
StatementFails(r, p) ==
    /\ srv[r][p].pc = "fail" \/ (srv[r][p].pc = "sink" /\ srv[r][p].sent = {})
    /\ Fault
    /\ srv' = [srv EXCEPT ![r][p] = Idle]
    /\ UNCHANGED <<table, part, fresh, rel, sink>>

\* close() releases the leases and leaves, also when a serve is still running
\* after the grace period.
Close(r) ==
    /\ r \in MayClose /\ rel[r].pc \in {"loop", "excess"}
    /\ part' = Given(r, HeldBy(r))
    /\ fresh' = [fresh EXCEPT ![r] = FALSE]
    /\ rel' = [rel EXCEPT ![r] = [Down EXCEPT !.pc = "closed"]]
    /\ UNCHANGED <<table, srv, sink, budget>>

Up(r) == rel[r].pc \notin {"down", "closed"}
Beaten(p) == part[p].owner # NoRelay /\ rel[part[p].owner].held[p] = part[p].epoch

\* lease_until passes, nobody extending it; or the relay stalls.
Lapse(p) == /\ part[p].live /\ part' = [part EXCEPT ![p].live = FALSE]
            /\ UNCHANGED <<table, fresh, rel, srv, sink>>
LapseUnheld(p) == ~Beaten(p) /\ Lapse(p) /\ UNCHANGED budget
LapseStalled(p) == Beaten(p) /\ Lapse(p) /\ Fault

\* A relay that does not beat, or stalls, is not counted any more.
Fades(r) == /\ fresh[r] /\ fresh' = [fresh EXCEPT ![r] = FALSE]
            /\ UNCHANGED <<table, part, rel, srv, sink>>
Unseen(r) == ~Up(r) /\ Fades(r) /\ UNCHANGED budget
UnseenStalled(r) == Up(r) /\ Fades(r) /\ Fault

DelayEnds ==
    \/ \E k \in Keys : /\ blocked[k] = "delay"
                       /\ blocked' = [blocked EXCEPT ![k] = "no"]
                       /\ UNCHANGED rec
    \/ \E i \in Records : /\ ~rec[i].due
                          /\ rec' = [rec EXCEPT ![i].due = TRUE]
                          /\ UNCHANGED blocked
Delay == DelayEnds /\ UNCHANGED <<paused, part, fresh, rel, srv, sink, budget>>

-----------------------------------------------------------------------------
(* The administrator.                                                      *)

Administers ==
    /\ budget.admin > 0 /\ budget' = [budget EXCEPT !.admin = @ - 1]
    /\ UNCHANGED <<part, fresh, rel, srv, sink>>

setPaused ==
    /\ Administers
    /\ paused' = ~paused /\ UNCHANGED <<rec, blocked>>

Unblocks(i) == blocked' = [k \in Keys |-> IF k = KeyOf[i] THEN "no" ELSE blocked[k]]

replay(i) ==
    /\ rec[i].state = "parked" /\ Administers
    /\ rec' = [rec EXCEPT ![i] = [state |-> "pending", attempts |-> 0, due |-> TRUE]]
    /\ Unblocks(i) /\ UNCHANGED paused

discard(i) ==
    /\ rec[i].state = "parked" /\ Administers
    /\ rec' = [rec EXCEPT ![i].state = "gone"]
    /\ Unblocks(i) /\ UNCHANGED paused

-----------------------------------------------------------------------------
Writers == \E i \in Records : \/ Write(i)
                              \/ \E s \in {"pending", "gone"} : EndWrite(i, s)

Serve(r, p) ==
    \/ readPartition(r, p) \/ NextWave(r, p) \/ settleDelivered(r, p) \/ WaveDone(r, p)
    \/ \E i \in Records : \/ Deliver(r, p, i)
                          \/ settleFailed(r, p, i) \/ settleParked(r, p, i)

Rebalance(r) == Acquire(r) \/ SkipAcquire(r) \/ ReleaseExcess(r)

Time == \/ \E p \in Partitions : LapseUnheld(p)
        \/ \E r \in Relays : Unseen(r)
        \/ Delay

Next ==
    \/ Writers
    \/ \E r \in Relays : \/ Start(r) \/ Beat(r) \/ Rebalance(r) \/ Crash(r) \/ Close(r)
                         \/ UnseenStalled(r)
                         \/ \E p \in Partitions : Serve(r, p) \/ StatementFails(r, p)
    \/ \E c \in late : DeliverLate(c)
    \/ \E p \in Partitions : LapseStalled(p)
    \/ Time
    \/ setPaused \/ \E i \in Records : replay(i) \/ discard(i)

\* Relays run, sinks answer, heartbeats tick and time passes.
Fairness ==
    /\ \A r \in Relays : /\ WF_vars(Start(r)) /\ WF_vars(Beat(r)) /\ WF_vars(Rebalance(r))
                         /\ \A p \in Partitions : WF_vars(Serve(r, p))
    /\ \A p \in Partitions : WF_vars(LapseUnheld(p))
    /\ \A r \in Relays : WF_vars(Unseen(r))
    /\ WF_vars(Delay)

Spec == Init /\ [][Next]_vars
FairSpec == Spec /\ Fairness

-----------------------------------------------------------------------------
(* Properties.                                                             *)

\* At a receiver that fences by epoch the records of a key arrive in id order,
\* through failures, parked heads, lapsed leases, rebalancing and calls of dead
\* relays: a record never arrives before an earlier one of its key is delivered
\* or discarded.  It may arrive again, but not after a later one, unless it was
\* discarded while a call that carries it was under way.
KeyOrder ==
    [][\A k \in Keys :
           /\ last'[k] > last[k] =>
                  \A j \in Records : KeyOf[j] = k /\ j < last'[k]
                                     => rec[j].state \in {"delivered", "gone"}
           /\ last'[k] < last[k] => rec[last'[k]].state = "gone"]_vars

\* A record is marked delivered only after the sink took it.
NothingLost == InState("delivered") \subseteq accepted

\* Every committed record is delivered or parked in the end, unless the topic
\* is paused.
EventuallyDelivered ==
    \A i \in Records :
        rec[i].state = "pending" ~> (rec[i].state \in {"delivered", "parked", "gone"} \/ paused)

\* A relay that joins gets a partition in the end when there is one for each.
JoinerServed ==
    \A r \in Relays :
        rel[r].pc = "loop" /\ Cardinality(Partitions) >= Cardinality(Relays)
        ~> (HeldBy(r) # {} \/ ~Up(r))
=============================================================================
