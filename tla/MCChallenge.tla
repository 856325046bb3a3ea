---------------------------- MODULE MCChallenge ----------------------------
EXTENDS Challenge, TLC

CONSTANT i1

\* One instance serves all requests.
MCHostOf == [h \in Handlers |-> i1]

\* Sound: no definition tells two handlers, tickets or texts apart, and
\* MCHostOf is the same under every permutation of the handlers.
MCSymmetry ==
  Permutations(Texts) \cup Permutations(Nonces) \cup Permutations(Handlers)
=============================================================================
