-------------------------- MODULE MCMigrationRunner --------------------------
\* Small instances of MigrationRunner for TLC.
EXTENDS MigrationRunner, TLC

CONSTANTS r1, r2, a, b, i

Make(S) == [drops |-> {}, makes |-> S, strict |-> FALSE, slow |-> FALSE]
Drop(S) == [drops |-> S, makes |-> {}, strict |-> FALSE, slow |-> FALSE]
Build(S) == [drops |-> {}, makes |-> S, strict |-> TRUE, slow |-> TRUE]

File(mode, segments) ==
    [mode |-> mode, checkpoint |-> FALSE, segments |-> segments, rows |-> 0]

Transactional == File("transactional", << <<Make({a}), Make({b})>> >>)
\* Segment markers in a file whose label says otherwise (test/cli/withdraw.test.ts).
Mislabeled == File("transactional", << <<Make({a})>>, <<Make({b})>> >>)
Separate == File("none", << <<Make({a}), Make({b})>> >>)
Index == File("none", << <<Drop({i}), Build({i})>> >>)
Backfill == [File("none", << <<Make({})>> >>) EXCEPT !.rows = 2]
Checkpoint(S) == [File("transactional", << <<Make(S)>> >>) EXCEPT !.checkpoint = TRUE]

\* A schema file that is rewritten, the checkpoint that stands for it, an
\* index build, a backfill.
Deploys == << <<Transactional, Mislabeled, Separate>>, <<Checkpoint({a, b})>>, <<Index>>, <<Backfill>> >>

ASSUME DeploysFit == Contents = Deploys => Fitting

\* Two files and the checkpoint that stands for them.
Fresh == << <<Transactional>>, <<Index>>, <<Checkpoint(Objects)>> >>

=============================================================================
