-------------------------- MODULE MCJobLifecycle --------------------------
EXTENDS JobLifecycle, TLC

\* The commands are interchangeable.
CliSymmetry == Permutations(Clis)
=============================================================================
