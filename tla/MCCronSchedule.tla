---------------------------- MODULE MCCronSchedule ----------------------------
\* Small instances of CronSchedule for TLC.
EXTENDS CronSchedule, TLC

CONSTANTS i1, i2

Every1 == [every |-> 1, limit |-> NoLimit, end |-> Never, overlap |-> "skip", misfire |-> "once"]

\* Two ticks and none made up for; an end; one tick.
Twice == [Every1 EXCEPT !.limit = 2, !.misfire = "skip"]
Until2 == [Every1 EXCEPT !.end = 2]
Once == [Every1 EXCEPT !.limit = 1, !.misfire = "skip"]

TickDefs == {Twice, Until2, Once}
=============================================================================
