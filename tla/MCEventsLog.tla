---------------------------- MODULE MCEventsLog ------------------------------
\* Small instances of EventsLog for TLC.
EXTENDS EventsLog, TLC

ReaderSymmetry == Permutations(Readers)
=============================================================================
