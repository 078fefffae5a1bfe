----------------------------- MODULE EventStream -----------------------------
(***************************************************************************)
(* What one subscription of the events log promises, without cursors,      *)
(* leases or transaction ids: a log that grows by whole transactions and a *)
(* subscription that goes through it, entries of one transaction in the    *)
(* order they were inserted, and never past an entry that was not settled. *)
(***************************************************************************)
EXTENDS Naturals

CONSTANTS
    Rewinds,  \* whether an administrator may move the subscription
    Keeps,    \* whether an entry is kept until the subscription is past it
    Entries   \* every entry that may be published: records with id, xid, wanted

VARIABLES
    log,       \* the entries whose transactions committed
    consumed,  \* the entries of the log the subscription is past
    settled    \* the entries handled or parked since the last rewind

streamVars == <<log, consumed, settled>>

StreamInit == log = {} /\ consumed = {} /\ settled = {}

\* The entries S of the log are consumed in insertion order: an earlier entry
\* of the same transaction is consumed before or with a later one.
InOrder(S) ==
    \A e \in S, f \in log :
        f.xid = e.xid /\ f.id < e.id => f \in consumed \cup S

\* A transaction commits: all its entries join the log, none of them consumed.
Append ==
    /\ log \subseteq log'
    /\ \A e, f \in log' \ log : e.xid = f.xid
    /\ log' \subseteq Entries
    /\ UNCHANGED <<consumed, settled>>

\* Entries are handled or parked, and the subscription moves past entries:
\* those that it did not ask for and those that are settled.
Deliver ==
    /\ consumed \subseteq consumed' /\ consumed' \subseteq log
    /\ InOrder(consumed' \ consumed)
    /\ settled \subseteq settled' /\ settled' \subseteq Entries
    /\ \A e \in consumed' \ consumed : e.wanted => e \in settled'
    /\ UNCHANGED log

\* Retention forgets entries.
Forget ==
    /\ log' \subseteq log
    /\ Keeps => log \ log' \subseteq consumed
    /\ consumed' = consumed \cap log'
    /\ UNCHANGED settled

\* An administrator moves the subscription back or forward; it starts over
\* from there and what it was moved past counts as settled.
Rewind ==
    /\ Rewinds
    /\ consumed' \subseteq log
    /\ settled' \subseteq Entries
    /\ UNCHANGED log

StreamNext == Append \/ Deliver \/ Forget \/ Rewind

StreamSpec == StreamInit /\ [][StreamNext]_streamVars
=============================================================================
