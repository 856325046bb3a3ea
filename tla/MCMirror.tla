------------------------------ MODULE MCMirror ------------------------------
EXTENDS Mirror, TLC

CONSTANTS a, b

\* Entries come and go and come back, get another expiry; b has an odd hash.
MCEdits == {<<1, a, 1>>, <<1, b, 1>>, <<2, a, 2>>, <<2, a, Absent>>, <<2, b, Absent>>,
            <<3, a, 1>>, <<3, b, 1>>}
=============================================================================
