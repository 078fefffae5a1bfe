---------------------------- MODULE MCMqWorker ----------------------------
(* Small instances of MqWorker for TLC.                                     *)
EXTENDS MqWorker, TLC

CONSTANTS q1, g1, a, b, w1, w2

OneQueue == [m \in Msg |-> q1]
NoGroups == [m \in Msg |-> None]
OneGrouped == [m \in Msg |-> IF m = a THEN g1 ELSE None]
NoParents == [m \in Msg |-> None]
AllIgnore == [m \in Msg |-> "ignore"]

\* a spawns b.
AParent == [m \in Msg |-> IF m = a THEN None ELSE a]

Workers == Permutations(Worker)
===========================================================================
