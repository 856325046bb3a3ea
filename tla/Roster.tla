------------------------------- MODULE Roster -------------------------------
(***************************************************************************)
(* What one command of internal/roster/roster.go does to one key of the    *)
(* internal Redis, and how a command can go wrong.  A key with a TTL is a   *)
(* record with the time it dies at; a dead key is as good as absent.       *)
(***************************************************************************)
EXTENDS Integers

Alive(until, now) == now < until

\* INCR and EXPIRE in one MULTI (Fail): the window starts anew with each hit.
\* The count stops at most, the largest value any caller tells apart.
Bump(counter, now, window, most) ==
  [n     |-> IF ~Alive(counter.until, now) THEN 1
             ELSE IF counter.n < most THEN counter.n + 1 ELSE most,
   until |-> now + window]

\* A call to Redis: applied and answered, never applied, or applied with the
\* answer lost to the store timeout.  The last two are errors to the caller.
Outcomes == {"ok", "lost", "late"}
Applied(outcome) == outcome # "lost"
=============================================================================
