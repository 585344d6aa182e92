----------------------------- MODULE MCRepoApply -----------------------------
\* RepoApply for TLC.
EXTENDS RepoApply, TLC

\* A sync takes a resource from the one file that has it, whichever that is.
Symmetry == Permutations(Files)
==============================================================================
