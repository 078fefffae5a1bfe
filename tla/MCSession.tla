------------------------------ MODULE MCSession ------------------------------
\* Small instances of Session for TLC.
EXTENDS Session

CONSTANTS k1, k2, c1

OneEach == (k1 :> "transaction") @@ (k2 :> "session")
=============================================================================
