--------------------------- MODULE BucketsProofs ---------------------------
(***************************************************************************)
(* Type correctness of the bucket, and: at rest it is at most full, for    *)
(* any number of writers, any charges, capacity, rate, timeout and number  *)
(* of failures; calls that only charge up never take it above what the     *)
(* ledger of one process holds, but for what drains during a call; and     *)
(* calls that do not overlap keep the level of that ledger.                *)
(***************************************************************************)
EXTENDS Buckets, TLAPS

\* The value that stands for a level only grows with the clock.
LEMMA BaseGrows ==
  ASSUME NEW s \in Nat, NEW t \in Nat, s <= t
  PROVE  Base(s) \in Nat /\ Base(t) \in Nat /\ Base(s) <= Base(t)
<1>1. PICK d \in Nat : t = s + d
  BY t - s \in Nat
<1>2. Rate \in Nat /\ Rate * s \in Nat /\ Rate * d \in Nat
  BY BucketsAssumption
<1>3. Rate * (s + d) = Rate * s + Rate * d
  BY <1>2
<1> QED BY <1>1, <1>2, <1>3 DEF Base

\* A clamped level lies in the bucket.
LEMMA ClampRange == ASSUME NEW v \in Int PROVE Clamp(v) \in 0..Max
BY BucketsAssumption DEF Clamp

\* The assumption, but for its product: what most steps need.
LEMMA Bounds ==
  /\ Max \in Nat /\ Lifetime \in Nat /\ Latency \in Nat /\ Start \in Nat
  /\ Horizon \in Nat /\ MaxFaults \in Nat
  /\ \A c \in Charges : c \in Int
BY BucketsAssumption

LEMMA TypeInit == Init => TypeOK
BY BucketsAssumption DEF Init, TypeOK, Idle

LEMMA TypeStep == TypeOK /\ [Next]_vars => TypeOK'
<1> SUFFICES ASSUME TypeOK, [Next]_vars PROVE TypeOK'
  OBVIOUS
<1> USE Bounds
<1> DEFINE Calls == [at : Nat, add : Charges \cup {0}, raw : Int, fix : 0..Max]
<1>0. now \in Nat /\ call \in [Writers -> Calls] /\ Base(now) \in Nat
  BY BaseGrows DEF TypeOK
<1>b. \A w \in Writers : Base(call[w].at) \in Nat
  BY BaseGrows DEF TypeOK
<1>a. \A w \in Writers : call[w].add \in Int
  BY DEF TypeOK
<1>i. Idle \in Calls
  BY DEF Idle
<1>n. NoTTL \in Nat
  BY DEF NoTTL
<1>1. ASSUME NEW w \in Writers, NEW c \in Charges, Apply(w, c) PROVE TypeOK'
  <2>1. [Idle EXCEPT !.at = now, !.add = c] \in Calls
    <3>1. [Idle EXCEPT !.at = now] \in Calls
      BY <1>0, <1>i DEF Idle
    <3> QED BY <3>1
  <2> QED BY <1>1, <2>1 DEF Apply, TypeOK
<1>2. ASSUME NEW w \in Writers, SetNX(w) PROVE TypeOK'
  BY <1>2, <1>b DEF SetNX, TypeOK
<1>3. ASSUME NEW w \in Writers, IncrByFloat(w) PROVE TypeOK'
  <2>1. key' \in [val : Int, until : Nat]
    BY <1>3, <1>n DEF IncrByFloat, TypeOK
  <2>2. LedgerLevel(call[w].at) \in Int /\ call[w].add \in Int
    BY <1>a, <1>b, ClampRange DEF LedgerLevel, TypeOK
  <2>3. ledger' \in Int
    BY <1>3, <1>b, <2>2, ClampRange DEF IncrByFloat
  <2> QED BY <1>3, <2>1, <2>3 DEF IncrByFloat, TypeOK
<1>4. ASSUME NEW w \in Writers, PExpire(w) PROVE TypeOK'
  <2>1. Clamp(call[w].add) \in 0..Max
    BY <1>a, ClampRange
  <2>2. Clamp(Effective(w)) \in 0..Max
    BY <1>b, ClampRange DEF Effective, TypeOK
  <2>3. key' \in [val : Int, until : Nat]
    BY <1>4 DEF PExpire, TypeOK
  <2>4. call' \in [Writers -> Calls] /\ told' \in [Writers -> 0..Max]
    BY <1>4, <1>i, <2>1, <2>2 DEF PExpire, TypeOK
  <2>5. pc' \in [Writers -> {"idle", "setnx", "incr", "pexpire", "fix"}]
    BY <1>4 DEF PExpire, TypeOK
  <2>6. \A v \in Writers : pc'[v] # "idle" => pc[v] # "idle" /\ call'[v].at = call[v].at
    BY <1>4 DEF PExpire, TypeOK
  <2> QED BY <1>4, <2>3, <2>4, <2>5, <2>6 DEF PExpire, TypeOK
<1>5. ASSUME NEW w \in Writers, Fix(w) PROVE TypeOK'
  <2>1. FixedValue(w) \in Int
    BY <1>b DEF FixedValue, TypeOK
  <2> QED BY <1>5, <1>i, <2>1 DEF Fix, TypeOK
<1>6. ASSUME NEW w \in Writers, Fail(w) PROVE TypeOK'
  <2>1. faults' \in 0..MaxFaults
    BY <1>6, BucketsAssumption DEF Fail, TypeOK
  <2>2. \A v \in Writers : pc'[v] # "idle" => pc[v] # "idle" /\ call'[v] = call[v]
    BY <1>6 DEF Fail, TypeOK
  <2> QED BY <1>6, <1>i, <2>1, <2>2 DEF Fail, TypeOK
<1>7. CASE Tick
  BY <1>7 DEF Tick, TypeOK
<1>8. CASE UNCHANGED vars
  BY <1>8 DEF vars, TypeOK
<1> QED BY <1>1, <1>2, <1>3, <1>4, <1>5, <1>6, <1>7, <1>8 DEF Next, Step

\* The bucket stays well typed (buckets.go:154-241).
THEOREM TypeCorrect == Spec => []TypeOK
BY TypeInit, TypeStep, PTL DEF Spec

-----------------------------------------------------------------------------
\* A writer that is going to write the key back within its bounds.
WillFix(w) ==
  \/ pc[w] = "fix"
  \/ pc[w] = "pexpire" /\ call[w].raw > Base(call[w].at) + Max

\* The strengthening: an overfull bucket has a writer that will set it back,
\* since an INCRBYFLOAT that lifts it too high shows so to the caller, whose
\* clock reading is no later than the clock.
FullInv ==
  (sound /\ Alive /\ key.val > Base(now) + Max) => \E w \in Writers : WillFix(w)

LEMMA FullInit == Init => FullInv
BY BucketsAssumption DEF Init, FullInv, Alive

LEMMA FullStep == TypeOK /\ FullInv /\ [Next]_vars => FullInv'
<1> SUFFICES ASSUME TypeOK, FullInv, [Next]_vars,
                    sound', Alive', key'.val > Base(now') + Max
             PROVE  \E w \in Writers : WillFix(w)'
  BY DEF FullInv
<1> USE Bounds
<1>0. now \in Nat /\ Base(now) \in Nat /\ key.val \in Int
  BY BaseGrows DEF TypeOK
<1>b. \A w \in Writers : /\ Base(call[w].at) \in Nat
                         /\ pc[w] # "idle" => Base(call[w].at) <= Base(now)
  BY BaseGrows DEF TypeOK
<1>1. ASSUME NEW w \in Writers, NEW c \in Charges, Apply(w, c)
      PROVE  \E v \in Writers : WillFix(v)'
  <2>1. PICK v \in Writers : WillFix(v)
    BY <1>1 DEF Apply, FullInv, Alive
  <2>2. v # w
    BY <1>1, <2>1 DEF Apply, WillFix
  <2> QED BY <1>1, <2>1, <2>2 DEF Apply, WillFix, TypeOK
<1>2. ASSUME NEW w \in Writers, SetNX(w) PROVE \E v \in Writers : WillFix(v)'
  <2>1. key' = key
    BY <1>2, <1>0, <1>b DEF SetNX
  <2>2. PICK v \in Writers : WillFix(v)
    BY <1>2, <2>1 DEF SetNX, FullInv, Alive
  <2>3. v # w
    BY <1>2, <2>2 DEF SetNX, WillFix
  <2> QED BY <1>2, <2>2, <2>3 DEF SetNX, WillFix, TypeOK
<1>3. ASSUME NEW w \in Writers, IncrByFloat(w) PROVE \E v \in Writers : WillFix(v)'
  <2>1. /\ now' = now /\ pc'[w] = "pexpire"
        /\ call'[w].raw = key'.val /\ call'[w].at = call[w].at
    BY <1>3 DEF IncrByFloat, TypeOK
  <2>2. key'.val \in Int
    BY <1>3 DEF IncrByFloat, TypeOK
  <2>3. call'[w].raw > Base(call'[w].at) + Max
    BY <1>3, <1>0, <1>b, <2>1, <2>2 DEF IncrByFloat
  <2> QED BY <2>1, <2>3 DEF WillFix
<1>4. ASSUME NEW w \in Writers, PExpire(w) PROVE \E v \in Writers : WillFix(v)'
  <2>1. PICK v \in Writers : WillFix(v)
    BY <1>4, <1>0 DEF PExpire, FullInv, Alive, TypeOK
  <2>2. CASE v = w
    <3>1. Overfull(w)
      BY <1>4, <1>b, <2>1, <2>2 DEF PExpire, WillFix, Overfull, Effective, TypeOK
    <3> QED BY <1>4, <3>1 DEF PExpire, WillFix, TypeOK
  <2>3. CASE v # w
    BY <1>4, <2>1, <2>3 DEF PExpire, WillFix, TypeOK
  <2> QED BY <2>2, <2>3
<1>5. ASSUME NEW w \in Writers, Fix(w) PROVE \E v \in Writers : WillFix(v)'
  <2>1. key'.val = Base(call[w].at) + call[w].fix /\ call[w].fix <= Max /\ now' = now
    BY <1>5 DEF Fix, FixedValue, TypeOK
  <2>2. Base(call[w].at) <= Base(now) /\ call[w].fix \in Nat
    BY <1>5, <1>b DEF Fix, TypeOK
  <2> QED BY <1>0, <1>b, <2>1, <2>2
<1>6. ASSUME NEW w \in Writers, Fail(w) PROVE \E v \in Writers : WillFix(v)'
  <2>1. sound /\ pc[w] \in {"setnx", "incr"}
    BY <1>6 DEF Fail, TypeOK
  <2>2. PICK v \in Writers : WillFix(v)
    BY <1>6, <2>1 DEF Fail, FullInv, Alive
  <2>3. v # w
    BY <2>1, <2>2 DEF WillFix
  <2> QED BY <1>6, <2>2, <2>3 DEF Fail, WillFix, TypeOK
<1>7. CASE Tick
  <2>0. now' = now + 1 /\ key' = key /\ sound' = sound
    BY <1>7 DEF Tick
  <2>1. now' \in Nat /\ now <= now'
    BY <1>0, <2>0
  <2>2. Base(now') \in Nat /\ Base(now) <= Base(now')
    BY <1>0, <2>1, BaseGrows
  <2>3. Alive /\ key.val > Base(now) + Max
    BY <1>0, <2>0, <2>1, <2>2 DEF Alive, TypeOK
  <2>4. PICK v \in Writers : WillFix(v)
    BY <2>0, <2>3 DEF FullInv
  <2> QED BY <1>7, <2>4 DEF Tick, WillFix
<1>8. CASE UNCHANGED vars
  BY <1>8 DEF vars, FullInv, WillFix, Alive
<1> QED BY <1>1, <1>2, <1>3, <1>4, <1>5, <1>6, <1>7, <1>8 DEF Next, Step

\* However the commands of the writers mix, a bucket at rest is at most full.
THEOREM NeverLeftOverfull == Spec => []AtMostFull
<1>1. TypeOK /\ FullInv => AtMostFull
  <2> SUFFICES ASSUME TypeOK, FullInv, Quiet, sound, Alive
               PROVE  key.val <= Base(now) + Max
    BY DEF AtMostFull
  <2>1. \A w \in Writers : ~WillFix(w)
    BY DEF Quiet, WillFix
  <2>2. Base(now) \in Nat /\ key.val \in Int /\ Max \in Nat
    BY BaseGrows, BucketsAssumption DEF TypeOK
  <2> QED BY <2>1, <2>2 DEF FullInv
<1> QED BY <1>1, TypeInit, TypeStep, FullInit, FullStep, PTL DEF Spec

-----------------------------------------------------------------------------
(* Never above the ledger.                                                 *)

\* How far two readings of the clock by calls in progress can lie apart.
Slack == Rate * Latency

\* A writer that will SET the key, and what to.
WillWrite(w) == pc[w] = "fix" \/ (pc[w] = "pexpire" /\ (Drained(w) \/ Overfull(w)))
Target(w) ==
  IF pc[w] = "fix" THEN FixedValue(w)
  ELSE Base(call[w].at) + (IF Drained(w) THEN Clamp(call[w].add) ELSE Clamp(Effective(w)))

\* The key is not above the ledger, but for what drains in Slack, or is empty.
Within == Alive => key.val <= ledger + Slack \/ key.val <= Base(now)

\* A writer that overfilled the key, and the ledger with it.
Overfilled(w) ==
  /\ pc[w] = "fix" \/ (pc[w] = "pexpire" /\ Overfull(w))
  /\ ledger >= Base(call[w].at) + Max

Upwards == faults = 0 /\ \A c \in Charges : c > 0

\* The strengthening: what is too high is set back, and what it is set back to
\* is not too high.
OverInv ==
  Upwards =>
    /\ \A w \in Writers : WillWrite(w) => Target(w) <= ledger + Slack
    /\ Within \/ \E w \in Writers : Overfilled(w)

LEMMA SlackBounds ==
  ASSUME TypeOK
  PROVE  /\ Slack \in Nat /\ Base(now) \in Nat /\ key.val \in Int /\ ledger \in Int
         /\ \A w \in Writers :
              /\ Base(call[w].at) \in Nat
              /\ pc[w] # "idle" => Base(call[w].at) <= Base(now) /\ Base(now) <= Base(call[w].at) + Slack
<1> USE Bounds
<1>1. Slack \in Nat /\ key.val \in Int /\ ledger \in Int /\ now \in Nat
  BY BucketsAssumption DEF Slack, TypeOK
<1>2. ASSUME NEW w \in Writers
      PROVE  /\ Base(call[w].at) \in Nat
             /\ pc[w] # "idle" => Base(call[w].at) <= Base(now) /\ Base(now) <= Base(call[w].at) + Slack
  <2>1. call[w].at \in Nat /\ call[w].at + Latency \in Nat
    BY DEF TypeOK
  <2>2. Base(call[w].at + Latency) = Base(call[w].at) + Slack
    <3>1. \A r, a, l \in Nat : r * (a + l) = r * a + r * l
      OBVIOUS
    <3> QED BY <2>1, <3>1, BucketsAssumption DEF Base, Slack
  <2>3. Base(call[w].at) \in Nat
    BY <2>1, BaseGrows
  <2>4. ASSUME pc[w] # "idle" PROVE Base(call[w].at) <= Base(now) /\ Base(now) <= Base(call[w].at) + Slack
    <3>1. call[w].at <= now /\ now <= call[w].at + Latency
      BY <1>1, <2>1, <2>4 DEF TypeOK
    <3> QED BY <1>1, <2>1, <2>2, <3>1, BaseGrows
  <2> QED BY <2>3, <2>4
<1>3. Base(now) \in Nat
  BY <1>1, BaseGrows
<1> QED BY <1>1, <1>2, <1>3

\* Other writers' targets and overfillings stay, while the ledger does not fall.
LEMMA OthersStay ==
  ASSUME NEW v \in Writers, pc'[v] = pc[v], call'[v] = call[v]
  PROVE  /\ WillWrite(v)' <=> WillWrite(v)
         /\ Target(v)' = Target(v)
         /\ Overfilled(v)' <=> (pc[v] = "fix" \/ (pc[v] = "pexpire" /\ Overfull(v)))
                               /\ ledger' >= Base(call[v].at) + Max
BY DEF WillWrite, Target, Overfilled, Drained, Overfull, Effective, FixedValue, Base

LEMMA TargetBound ==
  ASSUME TypeOK, NEW w \in Writers, WillWrite(w)
  PROVE  Target(w) \in Int /\ Target(w) <= Base(call[w].at) + Max
<1>1. Base(call[w].at) \in Nat /\ call[w].add \in Int /\ Effective(w) \in Int /\ call[w].fix \in 0..Max
  BY SlackBounds, Bounds DEF TypeOK, Effective
<1>2. Clamp(call[w].add) \in 0..Max /\ Clamp(Effective(w)) \in 0..Max /\ Max \in Nat
  BY <1>1, ClampRange, Bounds
<1> QED BY <1>1, <1>2 DEF Target, FixedValue

\* A charge: the ledger takes it whole, or it is full now.
LEMMA LedgerTakes ==
  ASSUME TypeOK, Upwards, NEW w \in Writers, IncrByFloat(w)
  PROVE  LET b == Base(call[w].at)  add == call[w].add
         IN /\ add \in Nat /\ ledger' \in Int
            /\ ledger' >= b + Clamp(add)
            /\ \/ ledger' = b + Max
               \/ ledger' >= ledger + add /\ ledger' >= b + add
<1>1. /\ Base(call[w].at) \in Nat /\ ledger \in Int /\ Max \in Nat /\ call[w].add \in Nat
  <2>1. call[w].add \in Charges \cup {0}
    BY DEF TypeOK
  <2> QED BY <2>1, SlackBounds, Bounds DEF Upwards
<1>2. ledger' = Clamp(Clamp(ledger - Base(call[w].at)) + call[w].add) + Base(call[w].at)
  BY DEF IncrByFloat, LedgerLevel
<1>3. ASSUME NEW b \in Nat, NEW l \in Int, NEW a \in Nat, NEW n \in Int,
             n = Clamp(Clamp(l - b) + a) + b
      PROVE  n >= b + Clamp(a) /\ (n = b + Max \/ (n >= l + a /\ n >= b + a))
  BY <1>1, <1>3 DEF Clamp
<1>4. ledger' \in Int
  BY <1>1, <1>2 DEF Clamp
<1> QED BY <1>1, <1>2, <1>3, <1>4

LEMMA OverStep == TypeOK /\ OverInv /\ [Next]_vars => OverInv'
<1> SUFFICES ASSUME TypeOK, OverInv, [Next]_vars, Upwards' PROVE
                    /\ \A w \in Writers : WillWrite(w)' => Target(w)' <= ledger' + Slack
                    /\ Within' \/ \E w \in Writers : Overfilled(w)'
  BY DEF OverInv, Slack
<1> DEFINE Goal == /\ \A w \in Writers : WillWrite(w)' => Target(w)' <= ledger' + Slack
                   /\ Within' \/ \E w \in Writers : Overfilled(w)'
<1>u. Upwards
  <2>1. ASSUME NEW w \in Writers, Fail(w) PROVE faults = 0
    BY <2>1 DEF Fail, TypeOK, Upwards
  <2>2. faults' = faults \/ \E w \in Writers : Fail(w)
    BY DEF Next, Step, Apply, SetNX, IncrByFloat, PExpire, Fix, Tick, vars
  <2> QED BY <2>1, <2>2 DEF Upwards
<1>h. /\ \A w \in Writers : WillWrite(w) => Target(w) <= ledger + Slack
      /\ Within \/ \E w \in Writers : Overfilled(w)
  BY <1>u DEF OverInv
<1>b. /\ Slack \in Nat /\ Base(now) \in Nat /\ key.val \in Int /\ ledger \in Int /\ Max \in Nat
      /\ \A w \in Writers :
           /\ Base(call[w].at) \in Nat
           /\ pc[w] # "idle" => Base(call[w].at) <= Base(now) /\ Base(now) <= Base(call[w].at) + Slack
  BY SlackBounds, Bounds
\* Steps of one writer that leave the ledger, and key and clock, alone.
<1>k. ASSUME NEW w \in Writers, UNCHANGED <<ledger, now, key>>,
             \A v \in Writers \ {w} : pc'[v] = pc[v] /\ call'[v] = call[v],
             ~WillWrite(w), ~WillWrite(w)'
      PROVE  Goal
  <2>1. Within' <=> Within
    BY <1>k DEF Within, Alive, Slack
  <2>2. \A v \in Writers : Overfilled(v) => v # w
    BY <1>k DEF Overfilled, WillWrite
  <2>3. \A v \in Writers : Overfilled(v) => Overfilled(v)'
    BY <1>k, <2>2, OthersStay DEF Overfilled
  <2>4. \A v \in Writers : WillWrite(v)' => v # w /\ WillWrite(v) /\ Target(v)' = Target(v)
    BY <1>k, OthersStay
  <2> QED BY <1>h, <1>k, <2>1, <2>3, <2>4
<1>1. ASSUME NEW w \in Writers, NEW c \in Charges, Apply(w, c) PROVE Goal
  <2>1. /\ ~WillWrite(w) /\ ~WillWrite(w)' /\ UNCHANGED <<ledger, now, key>>
        /\ \A v \in Writers \ {w} : pc'[v] = pc[v] /\ call'[v] = call[v]
    BY <1>1 DEF Apply, WillWrite, TypeOK
  <2> QED BY <1>k, <2>1
<1>2. ASSUME NEW w \in Writers, SetNX(w) PROVE Goal
  <2>1. /\ ~WillWrite(w) /\ ~WillWrite(w)' /\ UNCHANGED <<ledger, now, call>>
        /\ \A v \in Writers \ {w} : pc'[v] = pc[v] /\ call'[v] = call[v]
    BY <1>2 DEF SetNX, WillWrite, TypeOK
  <2>2. CASE Alive
    <3>1. key' = key
      BY <1>2, <2>2 DEF SetNX
    <3> QED BY <1>k, <2>1, <3>1
  <2>3. CASE ~Alive
    <3>1. key'.val = Base(call[w].at) /\ pc[w] # "idle"
      BY <1>2, <2>3 DEF SetNX
    <3>2. Within'
      BY <1>b, <2>1, <3>1 DEF Within
    <3>3. \A v \in Writers : WillWrite(v)' => v # w /\ WillWrite(v) /\ Target(v)' = Target(v)
      BY <2>1, OthersStay
    <3> QED BY <1>h, <2>1, <3>2, <3>3
  <2> QED BY <2>2, <2>3
<1>3. ASSUME NEW w \in Writers, IncrByFloat(w) PROVE Goal
  <2> DEFINE b   == Base(call[w].at)
             add == call[w].add
             old == IF Alive THEN key.val ELSE 0
  <2>1. /\ pc[w] = "incr" /\ pc'[w] = "pexpire" /\ now' = now
        /\ key'.val = old + add
        /\ call'[w].at = call[w].at /\ call'[w].add = call[w].add /\ call'[w].raw = key'.val
        /\ \A v \in Writers \ {w} : pc'[v] = pc[v] /\ call'[v] = call[v]
    <3>1. /\ pc[w] = "incr" /\ pc'[w] = "pexpire" /\ now' = now
          /\ \A v \in Writers \ {w} : pc'[v] = pc[v]
      BY <1>3 DEF IncrByFloat, TypeOK
    <3>2. key'.val = old + add
      <4>1. CASE Alive
        BY <1>3, <4>1 DEF IncrByFloat, TypeOK
      <4>2. CASE ~Alive
        BY <1>3, <4>2, Bounds DEF IncrByFloat, TypeOK
      <4> QED BY <4>1, <4>2
    <3>3. /\ call'[w].at = call[w].at /\ call'[w].add = call[w].add /\ call'[w].raw = key'.val
          /\ \A v \in Writers \ {w} : call'[v] = call[v]
      <4>1. call' = [call EXCEPT ![w] = [call[w] EXCEPT !.raw = key'.val]]
        BY <1>3 DEF IncrByFloat
      <4>2. call \in [Writers -> [at : Nat, add : Charges \cup {0}, raw : Int, fix : 0..Max]]
        BY DEF TypeOK
      <4> QED BY <4>1, <4>2
    <3> QED BY <3>1, <3>2, <3>3
  <2>2. /\ add \in Nat /\ ledger' \in Int /\ ledger' >= b + Clamp(add)
        /\ ledger' = b + Max \/ (ledger' >= ledger + add /\ ledger' >= b + add)
    BY <1>u, <1>3, LedgerTakes
  <2>3. b \in Nat /\ b <= Base(now) /\ Base(now) <= b + Slack /\ old \in Int
    BY <1>b, <2>1
  <2>4. /\ Drained(w)' <=> old < b
        /\ Overfull(w)' <=> old + add - b > Max
        /\ Effective(w)' = old + add - b
    BY <2>1, <2>2, <2>3 DEF Drained, Overfull, Effective, Base
  <2>5. \/ old <= ledger + Slack \/ old <= Base(now)
        \/ \E u \in Writers : Overfilled(u)
    BY <1>b, <1>h DEF Within
  <2>6. \A u \in Writers : Overfilled(u) => u # w /\ ledger + Slack >= b + Max
    BY <1>b, <2>1, <2>3 DEF Overfilled
  <2> HIDE DEF old, b, add
  <2>7. ASSUME WillWrite(w)' PROVE Target(w)' <= ledger' + Slack
    <3>1. CASE old < b
      <4>1. Target(w)' = b + Clamp(add)
        BY <2>1, <2>4, <3>1 DEF Target, Base, Clamp, b, add
      <4>2. Clamp(add) \in Int
        BY <1>b, <2>2 DEF Clamp
      <4> QED BY <1>b, <2>2, <2>3, <4>1, <4>2
    <3>2. CASE ~(old < b)
      <4>1. old + add - b > Max
        BY <2>1, <2>4, <2>7, <3>2 DEF WillWrite
      <4>2. Target(w)' = b + Max
        <5>1. Target(w)' = b + Clamp(old + add - b)
          BY <2>1, <2>4, <3>2 DEF Target, Base, Clamp, b, add
        <5>2. Clamp(old + add - b) = Max
          BY <1>b, <2>2, <2>3, <4>1 DEF Clamp
        <5> QED BY <5>1, <5>2
      <4>3. ledger' + Slack >= b + Max
        <5>1. CASE ledger' = b + Max
          BY <1>b, <2>3, <5>1
        <5>2. CASE ledger' >= ledger + add /\ ledger' >= b + add
          <6>1. PICK n \in Int : n = ledger'
            BY <2>2
          <6>2. n >= ledger + add /\ n >= b + add
            BY <5>2, <6>1
          <6>3. CASE \E u \in Writers : Overfilled(u)
            <7>1. ledger + Slack >= b + Max
              BY <2>6, <6>3
            <7>2. n + Slack >= b + Max
              BY <1>b, <2>2, <2>3, <6>2, <7>1
            <7> QED BY <6>1, <7>2
          <6>4. CASE old <= ledger + Slack \/ old <= Base(now)
            <7>1. n + Slack >= b + Max
              BY <1>b, <2>2, <2>3, <4>1, <6>2, <6>4
            <7> QED BY <6>1, <7>1
          <6> QED BY <2>5, <6>3, <6>4
        <5> QED BY <2>2, <5>1, <5>2
      <4> QED BY <4>2, <4>3
    <3> QED BY <3>1, <3>2
  <2>8. ASSUME NEW v \in Writers, v # w, WillWrite(v)' PROVE Target(v)' <= ledger' + Slack
    <3>1. WillWrite(v) /\ Target(v)' = Target(v) /\ pc[v] # "idle"
      BY <2>1, <2>8, OthersStay DEF WillWrite
    <3>2. Target(v) \in Int /\ Target(v) <= Base(call[v].at) + Max /\ Target(v) <= ledger + Slack
      BY <1>h, <3>1, TargetBound
    <3>3. Target(v) <= Base(now) + Max
      BY <1>b, <3>1, <3>2
    <3> QED BY <1>b, <2>2, <2>3, <3>1, <3>2, <3>3
  <2>9. Within' \/ \E v \in Writers : Overfilled(v)'
    <3>1. CASE old + add > b + Max /\ ledger' = b + Max
      <4>1. Overfilled(w)'
        BY <1>b, <2>1, <2>2, <2>3, <2>4, <3>1 DEF Overfilled, Base, b
      <4> QED BY <4>1
    <3>2. CASE old + add <= b + Max /\ ledger' = b + Max
      BY <1>b, <2>1, <2>2, <2>3, <3>2 DEF Within, Slack
    <3>3. CASE ledger' >= ledger + add /\ ledger' >= b + add
      <4>1. CASE old <= ledger + Slack \/ old <= Base(now)
        <5>1. old + add <= ledger' + Slack
          BY <1>b, <2>2, <2>3, <3>3, <4>1
        <5> QED BY <2>1, <5>1 DEF Within, Slack
      <4>2. CASE \E u \in Writers : Overfilled(u)
        <5>1. PICK u \in Writers : Overfilled(u)
          BY <4>2
        <5>2. u # w /\ ledger >= Base(call[u].at) + Max
          BY <2>6, <5>1 DEF Overfilled
        <5>3. ledger' >= Base(call[u].at) + Max
          BY <1>b, <2>2, <3>3, <5>2
        <5>4. Overfilled(u)'
          BY <2>1, <5>1, <5>2, <5>3, OthersStay DEF Overfilled
        <5> QED BY <5>4
      <4> QED BY <2>5, <4>1, <4>2
    <3> QED BY <1>b, <2>2, <2>3, <3>1, <3>2, <3>3
  <2> QED BY <2>7, <2>8, <2>9
<1>4. ASSUME NEW w \in Writers, PExpire(w) PROVE Goal
  <2>1. /\ pc[w] = "pexpire" /\ now' = now /\ ledger' = ledger /\ key'.val = key.val
        /\ Alive' => Alive
        /\ \A v \in Writers \ {w} : pc'[v] = pc[v] /\ call'[v] = call[v]
    BY <1>4 DEF PExpire, Alive, TypeOK
  <2>2. Within => Within'
    BY <2>1 DEF Within, Slack
  <2>3. CASE Drained(w) \/ Overfull(w)
    <3>1. /\ pc'[w] = "fix" /\ call'[w].at = call[w].at
          /\ call'[w].fix = IF Drained(w) THEN Clamp(call[w].add) ELSE Clamp(Effective(w))
      BY <1>4, <2>3 DEF PExpire, TypeOK
    <3>2. WillWrite(w) /\ Target(w)' = Target(w)
      BY <2>1, <2>3, <3>1 DEF WillWrite, Target, FixedValue, Base
    <3>3. Overfilled(w) => Overfilled(w)'
      BY <2>1, <3>1 DEF Overfilled, Base
    <3>4. \A v \in Writers : WillWrite(v)' => WillWrite(v) /\ Target(v)' = Target(v)
      BY <2>1, <3>2, OthersStay
    <3>5. \A v \in Writers : Overfilled(v) => Overfilled(v)'
      BY <2>1, <3>3, OthersStay DEF Overfilled
    <3> QED BY <1>h, <2>1, <2>2, <3>4, <3>5
  <2>4. CASE ~(Drained(w) \/ Overfull(w))
    <3>1. ~WillWrite(w) /\ ~WillWrite(w)' /\ ~Overfilled(w)
      BY <1>4, <2>1, <2>4 DEF PExpire, WillWrite, Overfilled, TypeOK
    <3>2. \A v \in Writers : WillWrite(v)' => WillWrite(v) /\ Target(v)' = Target(v)
      BY <2>1, <3>1, OthersStay
    <3>3. \A v \in Writers : Overfilled(v) => Overfilled(v)'
      BY <2>1, <3>1, OthersStay DEF Overfilled
    <3> QED BY <1>h, <2>1, <2>2, <3>2, <3>3
  <2> QED BY <2>3, <2>4
<1>5. ASSUME NEW w \in Writers, Fix(w) PROVE Goal
  <2>1. /\ pc[w] = "fix" /\ pc'[w] = "idle" /\ now' = now /\ ledger' = ledger
        /\ key'.val = FixedValue(w)
        /\ \A v \in Writers \ {w} : pc'[v] = pc[v] /\ call'[v] = call[v]
    BY <1>5 DEF Fix, TypeOK
  <2>2. WillWrite(w) /\ Target(w) = FixedValue(w) /\ ~WillWrite(w)'
    BY <2>1 DEF WillWrite, Target
  <2>3. Within'
    BY <1>h, <2>1, <2>2 DEF Within, Slack
  <2>4. \A v \in Writers : WillWrite(v)' => v # w /\ WillWrite(v) /\ Target(v)' = Target(v)
    BY <2>1, <2>2, OthersStay
  <2> QED BY <1>h, <2>1, <2>3, <2>4
<1>6. ASSUME NEW w \in Writers, Fail(w) PROVE Goal
  <2>1. faults' # 0
    BY <1>6 DEF Fail, TypeOK
  <2> QED BY <2>1 DEF Upwards
<1>7. CASE Tick
  <2>1. now' = now + 1 /\ UNCHANGED <<key, pc, call, ledger>> /\ now \in Nat
    BY <1>7 DEF Tick, TypeOK
  <2>2. Base(now') \in Nat /\ Base(now) <= Base(now')
    BY <2>1, BaseGrows
  <2>3. Within => Within'
    <3>1. Alive' => Alive
      BY <2>1 DEF Alive, TypeOK
    <3> QED BY <1>b, <2>1, <2>2, <3>1 DEF Within, Slack
  <2>4. \A v \in Writers : /\ WillWrite(v)' <=> WillWrite(v)
                           /\ Target(v)' = Target(v) /\ (Overfilled(v) => Overfilled(v)')
    BY <2>1, OthersStay DEF Overfilled
  <2> QED BY <1>h, <2>1, <2>3, <2>4
<1>8. CASE UNCHANGED vars
  <2>1. \A v \in Writers : /\ WillWrite(v)' <=> WillWrite(v)
                           /\ Target(v)' = Target(v) /\ (Overfilled(v) => Overfilled(v)')
    BY <1>8, OthersStay DEF Overfilled, vars
  <2>2. Within' <=> Within
    BY <1>8 DEF Within, Alive, Slack, vars
  <2> QED BY <1>8, <1>h, <2>1, <2>2 DEF vars
<1> QED BY <1>1, <1>2, <1>3, <1>4, <1>5, <1>6, <1>7, <1>8 DEF Next, Step

\* Calls that only charge up leave a bucket at most what the ledger of one
\* process would hold, and what drains while a call lasts, for any number of
\* writers and any order of their commands (buckets.go:213-225, 243-249).
THEOREM NeverTooMuch == Spec => []NeverOvercounts
<1>1. Init => OverInv
  <2> SUFFICES ASSUME Init PROVE OverInv
    OBVIOUS
  <2>1. ~Alive /\ \A w \in Writers : ~WillWrite(w)
    BY BucketsAssumption DEF Init, Alive, WillWrite
  <2> QED BY <2>1 DEF OverInv, Within
<1>2. TypeOK /\ OverInv => NeverOvercounts
  <2> SUFFICES ASSUME TypeOK, OverInv, Quiet, Upwards
               PROVE  Level(now) <= LedgerLevel(now) + Rate * Latency
    BY DEF NeverOvercounts, Upwards
  <2>1. Within
    BY DEF OverInv, Overfilled, Quiet
  <2>2. /\ Slack \in Nat /\ Base(now) \in Nat /\ key.val \in Int /\ ledger \in Int /\ Max \in Nat
    BY SlackBounds, Bounds
  <2>3. CASE Alive
    <3>1. key.val - Base(now) <= ledger - Base(now) + Slack \/ key.val - Base(now) <= 0
      BY <2>1, <2>2, <2>3 DEF Within
    <3>2. Clamp(key.val - Base(now)) <= Clamp(ledger - Base(now)) + Slack
      BY <2>2, <3>1 DEF Clamp
    <3> QED BY <2>3, <3>2 DEF Level, LedgerLevel, Slack
  <2>4. CASE ~Alive
    BY <2>2, <2>4 DEF Level, LedgerLevel, Clamp, Slack
  <2> QED BY <2>3, <2>4
<1> QED BY <1>1, <1>2, TypeInit, TypeStep, OverStep, PTL DEF Spec
-----------------------------------------------------------------------------
(* Calls that do not overlap keep the sum that the ledger keeps.           *)

\* What Apply makes of the sum that INCRBYFLOAT answers.
Outcome(w) == IF Drained(w) THEN Clamp(call[w].add) ELSE Clamp(Effective(w))

\* Key and ledger hold the same level, now and at any later time: the same sum,
\* or both have drained.  What the ledger holds has drained when the key dies.
SameLevel ==
  /\ ledger <= Base(now) + Max
  /\ IF Alive THEN /\ key.val = ledger \/ (key.val <= Base(now) /\ ledger <= Base(now))
                   /\ ledger <= Base(key.until)
              ELSE ledger <= Base(now)

\* The strengthening: what is known at each command of the only writer, whose
\* clock reading is the clock.
OnlyWriter(w) ==
  /\ \A v \in Writers \ {w} : pc[v] = "idle"
  /\ pc[w] # "idle" /\ call[w].at = now
  /\ pc[w] = "setnx" => SameLevel
  /\ pc[w] = "incr" => SameLevel /\ Alive
  /\ pc[w] = "pexpire" => Alive /\ call[w].raw = key.val /\ ledger = Base(now) + Outcome(w)
  /\ pc[w] = "fix" => ledger = Base(now) + call[w].fix
AloneInv == alone => (Quiet /\ SameLevel) \/ \E w \in Writers : OnlyWriter(w)

\* A full bucket has drained when a lifetime has passed.
LEMMA LifetimeDrains ==
  ASSUME NEW t \in Nat PROVE Base(t + Lifetime) = Base(t) + Max /\ Lifetime > 0
<1>1. Rate \in Nat /\ Lifetime \in Nat /\ Lifetime * Rate = Max /\ Max # 0
  BY BucketsAssumption
<1>2. ASSUME NEW r \in Nat, NEW s \in Nat, NEW l \in Nat
      PROVE  r * (s + l) = r * s + l * r /\ (l = 0 => l * r = 0)
  OBVIOUS
<1> QED BY <1>1, <1>2 DEF Base

\* One charge, in the key (k) and in the ledger (l).
LEMMA SameCharge ==
  ASSUME NEW b \in Nat, NEW k \in Int, NEW l \in Int, NEW a \in Int,
         l <= b + Max, k = l \/ (k <= b /\ l <= b)
  PROVE  Clamp(Clamp(l - b) + a) = IF k + a - b < a THEN Clamp(a) ELSE Clamp(k + a - b)
<1>1. Max \in Nat
  BY Bounds
<1>2. Clamp(l - b) = IF l < b THEN 0 ELSE l - b
  BY <1>1 DEF Clamp
<1>3. CASE k < b
  BY <1>2, <1>3
<1>4. CASE ~(k < b)
  BY <1>2, <1>4
<1> QED BY <1>3, <1>4

LEMMA AloneInit == Init => AloneInv
<1> SUFFICES ASSUME Init PROVE Quiet /\ SameLevel
  BY DEF AloneInv
<1>1. Base(Start) \in Nat /\ Start \in Nat /\ Max \in Nat
  BY Bounds, BaseGrows
<1>2. now = Start /\ ~Alive /\ ledger = 0
  BY <1>1 DEF Init, Alive
<1> QED BY <1>1, <1>2 DEF Init, Quiet, SameLevel

\* Who moves while another one waits is not alone.
LEMMA Only ==
  ASSUME AloneInv, alone, NEW w \in Writers, pc[w] # "idle" PROVE OnlyWriter(w)
BY DEF AloneInv, Quiet, OnlyWriter

LEMMA AloneSetNX ==
  ASSUME TypeOK, NEW w \in Writers, OnlyWriter(w), SetNX(w) PROVE OnlyWriter(w)'
<1>1. /\ pc[w] = "setnx" /\ pc' = [pc EXCEPT ![w] = "incr"]
      /\ UNCHANGED <<now, call, ledger>> /\ call[w].at = now /\ SameLevel
  BY DEF SetNX, OnlyWriter
<1>2. /\ now \in Nat /\ key.val \in Int /\ key.until \in Nat /\ ledger \in Int
      /\ Base(now) \in Nat /\ Max \in Nat /\ Lifetime \in Nat
  BY BaseGrows, Bounds DEF TypeOK
<1>3. SameLevel' /\ Alive'
  <2>1. CASE Alive
    <3>1. key' = key
      BY <2>1 DEF SetNX
    <3> QED BY <1>1, <2>1, <3>1 DEF SameLevel, Alive, Base
  <2>2. CASE ~Alive
    <3>1. key'.val = Base(now) /\ key'.until = now + Lifetime
      BY <1>1, <2>2 DEF SetNX
    <3>2. Alive'
      BY <1>1, <1>2, <3>1, LifetimeDrains DEF Alive
    <3>3. ledger <= Base(now) /\ Base(key'.until) = Base(now) + Max
      BY <1>1, <1>2, <2>2, <3>1, LifetimeDrains DEF SameLevel
    <3> QED BY <1>1, <1>2, <3>1, <3>2, <3>3 DEF SameLevel, Base
  <2> QED BY <2>1, <2>2
<1> QED BY <1>1, <1>3 DEF OnlyWriter, TypeOK

LEMMA AloneIncr ==
  ASSUME TypeOK, NEW w \in Writers, OnlyWriter(w), IncrByFloat(w) PROVE OnlyWriter(w)'
<1>1. /\ pc[w] = "incr" /\ pc' = [pc EXCEPT ![w] = "pexpire"] /\ now' = now
      /\ call[w].at = now /\ SameLevel /\ Alive
  BY DEF IncrByFloat, OnlyWriter
<1>2. /\ now \in Nat /\ key.val \in Int /\ ledger \in Int /\ Base(now) \in Nat
      /\ call[w].add \in Int
  BY BaseGrows, Bounds DEF TypeOK
<1>3. key'.val = key.val + call[w].add /\ key'.until = key.until
  BY <1>1 DEF IncrByFloat, TypeOK
<1>4. /\ call'[w].at = now /\ call'[w].add = call[w].add /\ call'[w].raw = key'.val
  <2>1. call' = [call EXCEPT ![w] = [call[w] EXCEPT !.raw = key'.val]]
    BY DEF IncrByFloat
  <2>2. call \in [Writers -> [at : Nat, add : Charges \cup {0}, raw : Int, fix : 0..Max]]
    BY DEF TypeOK
  <2> QED BY <1>1, <2>1, <2>2
<1>5. ledger' = Clamp(Clamp(ledger - Base(now)) + call[w].add) + Base(now)
  BY <1>1 DEF IncrByFloat, LedgerLevel
<1>6. ledger <= Base(now) + Max /\ (key.val = ledger \/ (key.val <= Base(now) /\ ledger <= Base(now)))
  BY <1>1 DEF SameLevel
<1>7. Outcome(w)' = IF key.val + call[w].add - Base(now) < call[w].add
                      THEN Clamp(call[w].add) ELSE Clamp(key.val + call[w].add - Base(now))
  <2>1. Effective(w)' = key.val + call[w].add - Base(now)
    <3>1. Effective(w)' = call'[w].raw - Base(call'[w].at)
      BY DEF Effective, Base
    <3> QED BY <1>2, <1>3, <1>4, <3>1
  <2>2. Drained(w)' <=> key.val + call[w].add - Base(now) < call[w].add
    BY <1>4, <2>1 DEF Drained
  <2> QED BY <1>4, <2>1, <2>2 DEF Outcome, Clamp
<1>8. ledger' = Base(now) + Outcome(w)'
  <2>1. PICK o \in Int : o = Clamp(Clamp(ledger - Base(now)) + call[w].add)
    BY <1>2, ClampRange, Bounds
  <2>2. o = Outcome(w)'
    BY <1>2, <1>6, <1>7, <2>1, SameCharge
  <2>3. ledger' = Base(now) + o
    BY <1>2, <1>5, <2>1
  <2> QED BY <2>2, <2>3
<1>9. Alive' /\ Base(now)' = Base(now)
  BY <1>1, <1>3 DEF Alive, Base
<1> QED BY <1>1, <1>4, <1>8, <1>9 DEF OnlyWriter, TypeOK

\* The end of the call: the key is written and lives for another lifetime.
LEMMA AloneEnds ==
  ASSUME TypeOK, NEW w \in Writers, OnlyWriter(w), now' = now, ledger' = ledger,
         pc' = [pc EXCEPT ![w] = "idle"], key'.until = now + Lifetime,
         NEW k \in Int, key'.val = k, ledger <= Base(now) + Max,
         k = ledger \/ (k <= Base(now) /\ ledger <= Base(now))
  PROVE  Quiet' /\ SameLevel'
<1>1. now \in Nat /\ Base(now + Lifetime) = Base(now) + Max
  BY LifetimeDrains DEF TypeOK
<1>2. Quiet'
  BY DEF Quiet, OnlyWriter, TypeOK
<1>3. Alive'
  BY <1>1, LifetimeDrains, Bounds DEF Alive
<1> QED BY <1>1, <1>2, <1>3 DEF SameLevel, Base

LEMMA AlonePExpire ==
  ASSUME TypeOK, NEW w \in Writers, OnlyWriter(w), PExpire(w)
  PROVE  OnlyWriter(w)' \/ (Quiet' /\ SameLevel')
<1>1. /\ pc[w] = "pexpire" /\ UNCHANGED <<now, ledger>>
      /\ call[w].at = now /\ Alive /\ call[w].raw = key.val /\ ledger = Base(now) + Outcome(w)
  BY DEF PExpire, OnlyWriter
<1>2. /\ now \in Nat /\ key.val \in Int /\ ledger \in Int /\ Base(now) \in Nat
      /\ call[w].add \in Int /\ Max \in Nat
  BY BaseGrows, Bounds DEF TypeOK
<1>3. key'.val = key.val /\ key'.until = now + Lifetime
  BY <1>1 DEF PExpire, TypeOK
<1>4. Effective(w) = key.val - Base(now)
  BY <1>1 DEF Effective
<1>5. CASE Drained(w) \/ Overfull(w)
  <2>1. /\ pc' = [pc EXCEPT ![w] = "fix"]
        /\ call' = [call EXCEPT ![w].fix = Outcome(w)]
    BY <1>5 DEF PExpire, Outcome
  <2>2. call'[w].at = now /\ call'[w].fix = Outcome(w)
    <3>1. call' = [call EXCEPT ![w] = [call[w] EXCEPT !.fix = Outcome(w)]]
      BY <2>1
    <3>2. call \in [Writers -> [at : Nat, add : Charges \cup {0}, raw : Int, fix : 0..Max]]
      BY DEF TypeOK
    <3> QED BY <1>1, <3>1, <3>2
  <2>3. OnlyWriter(w)'
    BY <1>1, <2>1, <2>2 DEF OnlyWriter, TypeOK, Base
  <2> QED BY <2>3
<1>6. CASE ~Drained(w) /\ ~Overfull(w)
  <2>1. pc' = [pc EXCEPT ![w] = "idle"]
    BY <1>6 DEF PExpire
  <2>2. ledger = Base(now) + Clamp(key.val - Base(now)) /\ key.val - Base(now) <= Max
    BY <1>1, <1>2, <1>4, <1>6 DEF Outcome, Overfull
  <2>3. /\ ledger <= Base(now) + Max
        /\ key.val = ledger \/ (key.val <= Base(now) /\ ledger <= Base(now))
    BY <1>2, <2>2 DEF Clamp
  <2> QED BY <1>1, <1>2, <1>3, <2>1, <2>3, AloneEnds
<1> QED BY <1>5, <1>6

LEMMA AloneFix ==
  ASSUME TypeOK, NEW w \in Writers, OnlyWriter(w), Fix(w) PROVE Quiet' /\ SameLevel'
<1>1. /\ pc[w] = "fix" /\ pc' = [pc EXCEPT ![w] = "idle"] /\ UNCHANGED <<now, ledger>>
      /\ key'.val = Base(now) + call[w].fix /\ key'.until = now + Lifetime
      /\ ledger = Base(now) + call[w].fix
  BY DEF Fix, OnlyWriter, FixedValue
<1>2. ledger \in Int /\ call[w].fix \in 0..Max /\ Base(now) \in Nat /\ Max \in Nat
  BY BaseGrows, Bounds DEF TypeOK
<1>3. PICK k \in Int : k = key'.val /\ k = ledger
  BY <1>1, <1>2
<1>4. ledger <= Base(now) + Max
  BY <1>1, <1>2
<1> QED BY <1>1, <1>3, <1>4, AloneEnds

LEMMA AloneStep == TypeOK /\ AloneInv /\ [Next]_vars => AloneInv'
<1> SUFFICES ASSUME TypeOK, AloneInv, [Next]_vars, alone'
             PROVE  (Quiet' /\ SameLevel') \/ \E w \in Writers : OnlyWriter(w)'
  BY DEF AloneInv
<1> DEFINE Goal == (Quiet' /\ SameLevel') \/ \E w \in Writers : OnlyWriter(w)'
<1>1. ASSUME NEW w \in Writers, NEW c \in Charges, Apply(w, c) PROVE Goal
  <2>1. /\ Quiet /\ alone /\ UNCHANGED <<now, key, ledger>>
        /\ pc' = [pc EXCEPT ![w] = "setnx"] /\ call'[w].at = now
    BY <1>1 DEF Apply, TypeOK, Idle
  <2>2. SameLevel
    BY <2>1 DEF AloneInv, OnlyWriter, Quiet
  <2>3. SameLevel'
    BY <2>1, <2>2 DEF SameLevel, Alive, Base
  <2>4. OnlyWriter(w)'
    BY <2>1, <2>3 DEF OnlyWriter, Quiet, TypeOK
  <2> QED BY <2>4
<1>2. ASSUME NEW w \in Writers, SetNX(w) PROVE Goal
  BY <1>2, Only, AloneSetNX DEF SetNX
<1>3. ASSUME NEW w \in Writers, IncrByFloat(w) PROVE Goal
  BY <1>3, Only, AloneIncr DEF IncrByFloat
<1>4. ASSUME NEW w \in Writers, PExpire(w) PROVE Goal
  BY <1>4, Only, AlonePExpire DEF PExpire
<1>5. ASSUME NEW w \in Writers, Fix(w) PROVE Goal
  BY <1>5, Only, AloneFix DEF Fix
<1>6. ASSUME NEW w \in Writers, Fail(w) PROVE Goal
  BY <1>6 DEF Fail
<1>7. CASE Tick
  <2>1. Quiet /\ alone /\ now' = now + 1 /\ UNCHANGED <<key, pc, ledger>>
    BY <1>7 DEF Tick
  <2>2. SameLevel
    BY <2>1 DEF AloneInv, OnlyWriter, Quiet
  <2>3. /\ now \in Nat /\ now' \in Nat /\ key.val \in Int /\ key.until \in Nat /\ ledger \in Int
        /\ Max \in Nat
    BY <2>1, Bounds DEF TypeOK
  <2>4. PICK t \in Nat : t = now' /\ t = now + 1
    BY <2>1, <2>3
  <2>5. Base(now) \in Nat /\ Base(t) \in Nat /\ Base(now) <= Base(t)
    BY <2>3, <2>4, BaseGrows
  <2>6. /\ ledger <= Base(t) + Max
        /\ IF t < key.until
             THEN /\ key.val = ledger \/ (key.val <= Base(t) /\ ledger <= Base(t))
                  /\ ledger <= Base(key.until)
             ELSE ledger <= Base(t)
    <3>1. CASE t < key.until
      BY <2>2, <2>3, <2>4, <2>5, <3>1 DEF SameLevel, Alive
    <3>2. CASE ~(t < key.until) /\ Alive
      <4>1. key.until <= t
        BY <2>3, <3>2
      <4>2. Base(key.until) <= Base(t) /\ Base(key.until) \in Nat
        BY <2>3, <4>1, BaseGrows
      <4> QED BY <2>2, <2>3, <2>5, <3>2, <4>2 DEF SameLevel
    <3>3. CASE ~(t < key.until) /\ ~Alive
      BY <2>2, <2>3, <2>5, <3>3 DEF SameLevel
    <3> QED BY <3>1, <3>2, <3>3
  <2>7. SameLevel'
    BY <2>1, <2>4, <2>6 DEF SameLevel, Alive, Base
  <2> QED BY <2>1, <2>7 DEF Quiet
<1>8. CASE UNCHANGED vars
  <2>1. alone /\ UNCHANGED <<now, key, pc, call, ledger>>
    BY <1>8 DEF vars
  <2>2. CASE Quiet /\ SameLevel
    BY <2>1, <2>2 DEF Quiet, SameLevel, Alive, Base
  <2>3. CASE \E w \in Writers : OnlyWriter(w)
    BY <2>1, <2>3 DEF OnlyWriter, SameLevel, Alive, Base, Outcome, Drained, Effective, Clamp
  <2> QED BY <2>1, <2>2, <2>3 DEF AloneInv
<1> QED BY <1>1, <1>2, <1>3, <1>4, <1>5, <1>6, <1>7, <1>8 DEF Next, Step

\* Calls that do not overlap leave the level that applyLocal leaves, for any
\* capacity, rate and charges, up and down, through drained, overfull and expired
\* keys (buckets.go:154-241, 295-337; the lifetime of a key, 31-37).
THEOREM SameAsLedger == Spec => []OneAtATime
<1>1. TypeOK /\ AloneInv => OneAtATime
  <2> SUFFICES ASSUME TypeOK, AloneInv, Quiet, alone PROVE Level(now) = LedgerLevel(now)
    BY DEF OneAtATime
  <2>1. SameLevel
    BY DEF AloneInv, OnlyWriter, Quiet
  <2>2. Base(now) \in Nat /\ key.val \in Int /\ ledger \in Int /\ Max \in Nat
    BY BaseGrows, Bounds DEF TypeOK
  <2> QED BY <2>1, <2>2 DEF SameLevel, Level, LedgerLevel, Clamp
<1> QED BY <1>1, TypeInit, TypeStep, AloneInit, AloneStep, PTL DEF Spec
=============================================================================
