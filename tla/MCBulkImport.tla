---------------------------- MODULE MCBulkImport ----------------------------
\* The instance of BulkImport that TLC checks.
EXTENDS BulkImport, TLC

CONSTANTS p1, p2, j1, j2

OnePerson == {p1}
TwoPeople == {p1, p2}
TwoJobs == {j1, j2}
\* One person's payments carry a bank reference, the other's do not.
TheFiles == {<<p2, p1>>}
Symmetry == Permutations(TwoJobs)
=============================================================================
