-------------------------------- MODULE Rate --------------------------------
(***************************************************************************)
(* limits.issue_per_subnet and limits.verify_per_subnet, "N/m": within     *)
(* (cmd/http/verify.go) over Fail (internal/roster/roster.go), for one     *)
(* subnet and a store that answers.  INCR and EXPIRE go in one MULTI, so   *)
(* the instances of captcha-http share one history.                        *)
(***************************************************************************)
EXTENDS Roster, Sequences, FiniteSets

CONSTANTS
  Max,      \* the N of the rate
  Per,      \* its unit, in ticks
  Horizon,  \* bound: the clock stops here
  MaxHits   \* bound: requests in a behaviour

ASSUME RateAssumption ==
  Max \in Nat \ {0} /\ Per \in Nat \ {0} /\ Horizon \in Nat /\ MaxHits \in Nat

VARIABLES
  now,
  counter,  \* roster key fail:scope
  log       \* history: when each request came and whether it passed

vars == <<now, counter, log>>

Init == now = 0 /\ counter = [n |-> 0, until |-> 0] /\ log = << >>

\* Mutant: the window starts with the first hit and lasts.
FixedWindow(c) ==
  [Bump(c, now, Per, Max + 1) EXCEPT
     !.until = IF Alive(c.until, now) THEN c.until ELSE @]

\* Mutant: the key never dies.
NoExpire(c) == Bump([c EXCEPT !.until = now + 1], now, Per, Max + 1)

Window(c) == Bump(c, now, Per, Max + 1)

Within ==
  /\ Len(log) < MaxHits
  /\ counter' = Window(counter)
  /\ log' = Append(log, [at |-> now, passed |-> counter'.n <= Max])
  /\ UNCHANGED now

Tick == now < Horizon /\ now' = now + 1 /\ UNCHANGED <<counter, log>>

Next == Within \/ Tick
Spec == Init /\ [][Next]_vars

-----------------------------------------------------------------------------
\* Requests of the window of length Per that starts at time t.
Hits(t) == {k \in DOMAIN log : log[k].at >= t /\ log[k].at < t + Per}

\* No more than Max requests of any span of Per pass, wherever it starts: the
\* limit holds across the edges of windows too (roster.go:157, verify.go:508).
AdmittedWithinRate ==
  \A t \in 0..Horizon : Cardinality({k \in Hits(t) : log[k].passed}) <= Max

\* A subnet that was quiet for Per is served again (roster.go:165).
QuietIsForgiven ==
  \A k \in DOMAIN log :
    (k = 1 \/ log[k].at >= log[k-1].at + Per) => log[k].passed

\* As the profiles write it, "60/m" (profiles/default/profile.yaml:60): a
\* request is refused only if more than Max came within the last Per.  It fails:
\* every hit, a refused one too, renews the window, so the count of a client
\* that keeps a pace below the rate never starts anew.
RefusedOnlyOverRate ==
  \A k \in DOMAIN log :
    ~log[k].passed =>
      Cardinality({j \in 1..k : log[j].at > log[k].at - Per}) > Max
=============================================================================
