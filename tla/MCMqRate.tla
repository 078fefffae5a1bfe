----------------------------- MODULE MCMqRate -----------------------------
(* Small instances of MqRate for TLC.                                       *)
EXTENDS MqRate, TLC
CONSTANTS c1, c2

Changing   == {[max |-> 2, ms |-> 3], [max |-> 1, ms |-> 2], None}

Claimers == Permutations(Claimer)
===========================================================================
