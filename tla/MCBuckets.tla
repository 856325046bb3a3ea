----------------------------- MODULE MCBuckets -----------------------------
EXTENDS Buckets, TLC

\* Sound: no definition tells two writers apart.
MCSymmetry == Permutations(Writers)
=============================================================================
