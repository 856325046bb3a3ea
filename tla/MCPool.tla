------------------------------- MODULE MCPool -------------------------------
(***************************************************************************)
(* Instances of Pool for TLC: which requests, goroutines and deadlines.    *)
(***************************************************************************)
EXTENDS Pool, TLC

\* Already hopeless at arrival, and with one tick to spare.
MCBudgets == {-1, 1}

\* Tasks, submitters and workers are interchangeable.
MCSymmetry == Permutations(Tasks) \cup Permutations(Submitters) \cup Permutations(Workers)
=============================================================================
