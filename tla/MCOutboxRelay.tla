---------------------------- MODULE MCOutboxRelay ----------------------------
\* Small instances of OutboxRelay for TLC.
EXTENDS OutboxRelay, TLC

CONSTANTS r1, r2, a, none

\* Two records of one key.
TwoRecords == 1..2
TwoKeyOf == [i \in TwoRecords |-> a]
TwoPartitionOf == [i \in TwoRecords |-> 0]

\* Relays that are never closed behave alike.
Alike == Permutations(Relays)

\* One record without a key.
OneKeyOf == [i \in {1} |-> none]
OnePartitionOf == [i \in {1} |-> 0]
=============================================================================
