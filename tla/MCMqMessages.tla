--------------------------- MODULE MCMqMessages ---------------------------
(* MqMessages for TLC: two families of messages, each on its own queue.  A *)
(* behaviour sends one of them and is about that one: all its steps are    *)
(* steps of Next.                                                          *)
EXTENDS MqMessages

CONSTANTS flow, chain, g1, p, c1, c2, s1, s2, s3

\* p waits for c1, whose failure fails it, and for c2, whose failure leaves it
\* waiting.
Flow == {p, c1, c2}

\* Three generations: s1, its child s2, and s3, which s2 spawns.  Every failure
\* cascades, and the children are in a limited group.
Chain == {s1, s2, s3}

QueueOf == [m \in Msg |-> IF m \in Flow THEN flow ELSE chain]
GroupOf == [m \in Msg |-> IF m \in {s2, s3} THEN g1 ELSE None]
ParentOf == [m \in Msg |-> CASE m \in {p, s1} -> None
                             [] m \in {c1, c2} -> p
                             [] m = s2 -> s1
                             [] m = s3 -> s2]
OnFail == [m \in Msg |-> IF m = c2 THEN "wait" ELSE "fail"]

Sent(F) == {m \in F : ~Is(m, "none")} # {}

\* The steps of Next that name messages of F and their queue q, which is given
\* the limits Caps, and that purge the states Purged; no claims.
Steps(F, q, Caps, Purged) ==
    \/ \E m \in F, tok \in 1..MaxClaims, to \in Live : Spawn(m, tok, to)
    \/ \E S \in SUBSET F : Promote(S) \/ Expire(q, S) \/ Retry(S)
    \/ \E S \in SUBSET F : (\A m \in S : messages[m].state \in Purged) /\ Purge(S)
    \/ \E m \in F, tok \in 1..MaxClaims : Settle(m, tok)
    \/ \E S \in SUBSET Active : Extend({<<m, messages[m].token>> : m \in S})
    \/ \E m \in F : \/ FinishExpired(m) \/ FlagCancel(m) \/ CancelIdle(m)
                    \/ Remove(m) \/ Lapse(m)
    \/ \E cap \in Caps : UpsertQueue(q, cap)
    \/ LimitEnds(q)

\* The flow has no limits and no pauses, may be claimed twice, and anything
\* but delayed messages is purged.
FlowStep ==
    /\ Sent(Flow)
    /\ \/ Steps(Flow, flow, {None}, Purgeable)
       \/ \E S \in SUBSET Flow : Claim(flow, S, FALSE, FALSE)

\* The chain has every limit and is claimed once; what is finished is purged.
\* The queue or the group may be paused, not both: a pause only forbids claims.
ChainStep ==
    /\ Sent(Chain)
    /\ \/ Steps(Chain, chain, QueueCaps, Terminal)
       \/ \E S \in SUBSET {m \in Chain : serial[m] = 0}, limited, spent \in BOOLEAN :
             Claim(chain, S, limited, spent) \/ ClaimGroups(chain, S, limited, spent)
       \/ SetPaused(chain, FALSE) \/ SetGroup(g1, FALSE, 1)
       \/ /\ Open(chain) /\ ~groups[g1].paused
          /\ SetPaused(chain, TRUE) \/ SetGroup(g1, TRUE, 1)

\* One of the families is sent, the flow where the chain has no limit.
Sending ==
    /\ ~Sent(Msg)
    /\ \E D \in SUBSET Msg :
          \/ queues[chain].concurrency = None /\ Send(p, D)
          \/ Send(s1, D)

MCInit == Init /\ queues[flow].concurrency = None

MCNext == Sending \/ FlowStep \/ ChainStep

MCSpec == MCInit /\ [][MCNext]_vars
===========================================================================
