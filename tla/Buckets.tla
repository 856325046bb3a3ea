------------------------------ MODULE Buckets ------------------------------
(***************************************************************************)
(* One bucket of internal/buckets/buckets.go: a key of the internal Redis  *)
(* holding Rate * clock + level, charged by several processes.             *)
(*                                                                         *)
(* Apply is a pipeline (SETNX, INCRBYFLOAT, PEXPIRE) and, when the level   *)
(* left its range, a second one with a SET.  A pipeline is no transaction: *)
(* each command is an action.  Beside it runs applyLocal, the ledger of a  *)
(* process without Redis: what one writer makes of the same charges.       *)
(* Levels are whole units; a key's lifetime is a whole number of ticks.    *)
(***************************************************************************)
EXTENDS Integers

CONSTANTS
  Writers,    \* Apply calls that may be in progress at one time
  Charges,    \* the sums a call may add to the bucket
  Max,        \* the tier's capacity
  Rate,       \* what the bucket loses per tick, ratePerSec
  Lifetime,   \* ticks a full bucket needs to drain
  Latency,    \* bound: a call takes no longer (the store timeout)
  Start,      \* the clock at the first call, past epochStart
  Horizon,    \* bound: the clock stops here
  MaxFaults   \* bound: calls that fail

ASSUME BucketsAssumption ==
  /\ Max \in Nat \ {0} /\ Rate \in Nat \ {0}
  /\ Lifetime \in Nat /\ Lifetime * Rate = Max
  /\ Charges \subseteq Int \ {0}
  /\ {Latency, Start, Horizon, MaxFaults} \subseteq Nat

VARIABLES
  now,
  key,       \* the Redis key: its value, and when it dies (0: absent)
  pc,        \* the next command of each writer
  call,      \* its call: clock reading, charge, raw value read, fix to write
  told,      \* the level its last finished call returned
  ledger,    \* the in-process ledger's entry
  faults,    \* failed calls so far
  sound,     \* history: no call failed after its charge was the last applied
  alone      \* history: no call met another one, a failure or a tick

vars == <<now, key, pc, call, told, ledger, faults, sound, alone>>

Alive == now < key.until
NoTTL == Horizon + Lifetime + 1   \* later than the clock ever gets

Base(t) == Rate * t

\* Mutant: no upper bound.
ClampBelow(v) == IF v < 0 THEN 0 ELSE v

Clamp(v) == IF v < 0 THEN 0 ELSE IF v > Max THEN Max ELSE v

\* What a read returns at time t: GET, or nothing for a dead key (189-211).
Level(t) == IF Alive THEN Clamp(key.val - Base(t)) ELSE 0
LedgerLevel(t) == Clamp(ledger - Base(t))

Quiet == \A w \in Writers : pc[w] = "idle"
Idle == [at |-> 0, add |-> 0, raw |-> 0, fix |-> 0]

Init ==
  /\ now = Start
  /\ key = [val |-> 0, until |-> 0]
  /\ pc = [w \in Writers |-> "idle"]
  /\ call = [w \in Writers |-> Idle]
  /\ told = [w \in Writers |-> 0]
  /\ ledger = 0
  /\ faults = 0 /\ sound = TRUE /\ alone = TRUE

\* Apply reads the clock once, before anything is sent.
Apply(w, c) ==
  /\ pc[w] = "idle"
  /\ pc' = [pc EXCEPT ![w] = "setnx"]
  /\ call' = [call EXCEPT ![w] = [Idle EXCEPT !.at = now, !.add = c]]
  /\ alone' = (alone /\ Quiet)
  /\ UNCHANGED <<now, key, told, ledger, faults, sound>>

SetNX(w) ==
  /\ pc[w] = "setnx"
  /\ key' = IF Alive THEN key
            ELSE [val |-> Base(call[w].at), until |-> now + Lifetime]
  /\ pc' = [pc EXCEPT ![w] = "incr"]
  /\ UNCHANGED <<now, call, told, ledger, faults, sound, alone>>

\* INCRBYFLOAT: a key that died since SETNX comes back without base or TTL.
\* The same charge goes to the ledger (applyLocal 312-333).
IncrByFloat(w) ==
  /\ pc[w] = "incr"
  /\ key' = IF Alive THEN [key EXCEPT !.val = @ + call[w].add]
            ELSE [val |-> call[w].add, until |-> NoTTL]
  /\ call' = [call EXCEPT ![w].raw = key'.val]
  /\ pc' = [pc EXCEPT ![w] = "pexpire"]
  /\ ledger' = Clamp(LedgerLevel(call[w].at) + call[w].add) + Base(call[w].at)
  /\ sound' = TRUE
  /\ UNCHANGED <<now, told, faults, alone>>

Effective(w) == call[w].raw - Base(call[w].at)

\* Mutant: only an overfull bucket is set back.
NeverDrained(w) == FALSE

\* The level was below zero before the charge: the bucket had drained.
Drained(w) == Effective(w) < call[w].add

\* Mutant: an overfull bucket is only reported as full.
NeverOverfull(w) == FALSE

Overfull(w) == Effective(w) > Max

\* PEXPIRE, the end of the pipeline, and what Apply makes of its answers.
PExpire(w) ==
  /\ pc[w] = "pexpire"
  /\ key' = IF Alive THEN [key EXCEPT !.until = now + Lifetime] ELSE key
  /\ LET level == IF Drained(w) THEN Clamp(call[w].add) ELSE Clamp(Effective(w)) IN
     IF Drained(w) \/ Overfull(w)
       THEN /\ pc' = [pc EXCEPT ![w] = "fix"]
            /\ call' = [call EXCEPT ![w].fix = level]
            /\ UNCHANGED told
       ELSE /\ pc' = [pc EXCEPT ![w] = "idle"]
            /\ call' = [call EXCEPT ![w] = Idle]
            /\ told' = [told EXCEPT ![w] = level]
  /\ UNCHANGED <<now, ledger, faults, sound, alone>>

FixedValue(w) == Base(call[w].at) + call[w].fix

\* fixer: SET takes the place of whatever was charged since the pipeline.
Fix(w) ==
  /\ pc[w] = "fix"
  /\ key' = [val |-> FixedValue(w), until |-> now + Lifetime]
  /\ told' = [told EXCEPT ![w] = call[w].fix]
  /\ pc' = [pc EXCEPT ![w] = "idle"]
  /\ call' = [call EXCEPT ![w] = Idle]
  /\ UNCHANGED <<now, ledger, faults, sound, alone>>

\* The call fails: the commands sent so far were applied, the rest is not.
Fail(w) ==
  /\ pc[w] # "idle" /\ faults < MaxFaults
  /\ faults' = faults + 1
  /\ sound' = (sound /\ pc[w] \in {"setnx", "incr"})
  /\ pc' = [pc EXCEPT ![w] = "idle"]
  /\ call' = [call EXCEPT ![w] = Idle]
  /\ alone' = FALSE
  /\ UNCHANGED <<now, key, told, ledger>>

Tick ==
  /\ now < Horizon
  /\ \A w \in Writers : pc[w] # "idle" => now < call[w].at + Latency
  /\ now' = now + 1
  /\ alone' = (alone /\ Quiet)
  /\ UNCHANGED <<key, pc, call, told, ledger, faults, sound>>

Step(w) == SetNX(w) \/ IncrByFloat(w) \/ PExpire(w) \/ Fix(w) \/ Fail(w)

Next ==
  \/ \E w \in Writers, c \in Charges : Apply(w, c)
  \/ \E w \in Writers : Step(w)
  \/ Tick

Spec == Init /\ [][Next]_vars

-----------------------------------------------------------------------------
(* Properties. *)

\* The type of the key and of the calls; a call is no older than its timeout,
\* and a fix lies in the bucket (buckets.go:154-241).
TypeOK ==
  /\ now \in Nat /\ faults \in 0..MaxFaults /\ sound \in BOOLEAN /\ alone \in BOOLEAN
  /\ key \in [val : Int, until : Nat]
  /\ pc \in [Writers -> {"idle", "setnx", "incr", "pexpire", "fix"}]
  /\ call \in [Writers -> [at : Nat, add : Charges \cup {0}, raw : Int, fix : 0..Max]]
  /\ told \in [Writers -> 0..Max]
  /\ ledger \in Int
  /\ \A w \in Writers : pc[w] # "idle" => now \in call[w].at .. call[w].at + Latency

\* However the commands of several writers mix, whatever dies in between, a
\* bucket at rest holds no more than its capacity, so it drains in Lifetime:
\* the writer that overfilled it is the one that sets it back (218-225).  A
\* call that fails between its pipelines leaves the rest to the next charge.
AtMostFull == (Quiet /\ sound /\ Alive) => key.val <= Base(now) + Max

\* Writers that only charge up never lift the bucket above what one writer
\* would have made of the same charges: what races lose, they lose downwards,
\* so no client is challenged for charges it did not get (213-225, 243-249).
NeverOvercounts ==
  (Quiet /\ faults = 0 /\ \A c \in Charges : c > 0) =>
    Level(now) <= LedgerLevel(now) + Rate * Latency

\* Calls that do not overlap keep the sum the in-process ledger keeps, through
\* drained, overfull and expired keys: applyRedis is applyLocal (154, 295), and
\* the key dies when the bucket has drained, no earlier (lifetime, 31-37).
OneAtATime == (Quiet /\ alone) => Level(now) = LedgerLevel(now)

\* "one writer for all instances and one sum for all of them" (README.md:22-23).
\* It fails: the SET of one writer's fix takes away what another one charged
\* between the two pipelines.
OneSum == (Quiet /\ faults = 0) => Level(now) = LedgerLevel(now)
=============================================================================
