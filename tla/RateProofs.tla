----------------------------- MODULE RateProofs -----------------------------
(***************************************************************************)
(* The limits of a subnet, for any rate and any arrivals: no span of Per   *)
(* has more than Max requests that pass, and whoever paused for Per passes.*)
(***************************************************************************)
EXTENDS Rate, FiniteSetTheorems, SequenceTheorems, TLAPS

Entry == [at : Nat, passed : BOOLEAN]
Last == log[Len(log)]

\* The type of clock, key and log; the key dies Per after the last hit, and the
\* log is in the order of time (roster.go:157, verify.go:508).
TypeOK ==
  /\ now \in Nat /\ log \in Seq(Entry)
  /\ counter \in [n : Nat, until : Nat]
  /\ counter.until = IF log = << >> THEN 0 ELSE Last.at + Per
  /\ \A k \in DOMAIN log : log[k].at <= now /\ (log # << >> => log[k].at <= Last.at)

\* What passed of the window that starts at t.
Passed(t) == {k \in Hits(t) : log[k].passed}

\* The strengthening: while a window is not over for the last hit, the counter
\* has counted all that passed of it.
Counted ==
  \A t \in Nat :
    /\ Cardinality(Passed(t)) <= Max
    /\ log # << >> /\ Len(log) \in Hits(t) => Cardinality(Passed(t)) <= counter.n

LEMMA Bounds == Max \in Nat \ {0} /\ Per \in Nat \ {0}
BY RateAssumption

\* A step of the log: one entry more, at its end.
LEMMA NewEntry ==
  ASSUME TypeOK, Within
  PROVE  /\ Len(log) \in Nat /\ Len(log') = Len(log) + 1 /\ log' \in Seq(Entry) /\ log' # << >>
         /\ DOMAIN log = 1..Len(log) /\ DOMAIN log' = 1..(Len(log) + 1)
         /\ \A k \in 1..Len(log) : log'[k] = log[k] /\ log[k] \in Entry
         /\ log'[Len(log) + 1] = [at |-> now, passed |-> counter'.n <= Max]
         /\ log = << >> <=> Len(log) = 0
         /\ now' = now /\ now \in Nat
<1>1. log \in Seq(Entry) /\ [at |-> now, passed |-> counter'.n <= Max] \in Entry
  BY DEF TypeOK, Entry
<1>2. log' = Append(log, [at |-> now, passed |-> counter'.n <= Max])
  BY DEF Within
<1>3. /\ Len(log') = Len(log) + 1 /\ log' \in Seq(Entry)
      /\ \A k \in 1..Len(log) : log'[k] = log[k]
      /\ log'[Len(log) + 1] = [at |-> now, passed |-> counter'.n <= Max]
  BY <1>1, <1>2, AppendProperties
<1>4. Len(log) \in Nat /\ DOMAIN log = 1..Len(log) /\ DOMAIN log' = 1..Len(log')
  BY <1>1, <1>3, LenProperties
<1>5. \A k \in 1..Len(log) : log[k] \in Entry
  BY <1>1, ElementOfSeq
<1>6. log = << >> <=> Len(log) = 0
  BY <1>1, EmptySeq
<1>7. log' # << >>
  BY <1>1, <1>2, AppendProperties
<1> QED BY <1>3, <1>4, <1>5, <1>6, <1>7 DEF Within, TypeOK

\* What a hit makes of the counter.
LEMMA Bumped ==
  ASSUME TypeOK, Within
  PROVE  /\ counter'.until = now + Per /\ counter'.n \in Nat \ {0}
         /\ counter'.n = IF now < counter.until
                           THEN IF counter.n <= Max THEN counter.n + 1 ELSE Max + 1 ELSE 1
         /\ counter' \in [n : Nat, until : Nat]
BY Bounds DEF Within, Window, Bump, Alive, TypeOK

LEMMA TypeStep == TypeOK /\ [Next]_vars => TypeOK'
<1> SUFFICES ASSUME TypeOK, [Next]_vars PROVE TypeOK'
  OBVIOUS
<1>1. CASE Within
  <2> DEFINE n == Len(log) + 1
  <2>1. /\ Len(log) \in Nat /\ Len(log') = n /\ log'[n].at = now
    BY <1>1, NewEntry
  <2>2. \A k \in DOMAIN log' : log'[k].at <= now
    <3> SUFFICES ASSUME NEW k \in 1..n PROVE log'[k].at <= now
      BY <1>1, NewEntry
    <3>1. CASE k = n
      BY <2>1, <3>1, <1>1, NewEntry
    <3>2. CASE k # n
      <4>1. k \in DOMAIN log /\ log'[k] = log[k]
        BY <1>1, <2>1, <3>2, NewEntry
      <4> QED BY <4>1 DEF TypeOK
    <3> QED BY <3>1, <3>2
  <2> QED BY <1>1, <2>1, <2>2, NewEntry, Bumped DEF TypeOK, Last
<1>2. CASE Tick
  <2>1. \A k \in DOMAIN log : log[k].at \in Nat /\ log[k].at <= now
    <3>1. \A k \in DOMAIN log : log[k] \in Entry
      BY ElementOfSeq, LenProperties DEF TypeOK
    <3> QED BY <3>1 DEF TypeOK, Entry
  <2> QED BY <1>2, <2>1 DEF Tick, TypeOK, Last
<1>3. CASE UNCHANGED vars
  BY <1>3 DEF vars, TypeOK, Last
<1> QED BY <1>1, <1>2, <1>3 DEF Next

LEMMA TypeInit == Init => TypeOK
<1> SUFFICES ASSUME Init PROVE TypeOK
  OBVIOUS
<1>1. log = << >> /\ log \in Seq(Entry) /\ DOMAIN log = {}
  BY EmptySeq DEF Init
<1> QED BY <1>1 DEF Init, TypeOK

LEMMA PassedFinite ==
  ASSUME TypeOK, NEW t \in Nat
  PROVE  IsFiniteSet(Passed(t)) /\ Cardinality(Passed(t)) \in Nat
<1>1. IsFiniteSet(1..Len(log)) /\ DOMAIN log = 1..Len(log)
  BY LenProperties, FS_Interval DEF TypeOK
<1>2. Passed(t) \in SUBSET (1..Len(log))
  BY <1>1 DEF Passed, Hits
<1> QED BY <1>1, <1>2, FS_Subset, FS_CardinalityType

\* A window before and after a hit: it grows by the hit, if it is in it and passes.
LEMMA Grows ==
  ASSUME TypeOK, Within, NEW t \in Nat
  PROVE  /\ Hits(t)' = Hits(t) \cup (IF now >= t /\ now < t + Per THEN {Len(log)'} ELSE {})
         /\ Passed(t)' = Passed(t) \cup
              (IF now >= t /\ now < t + Per /\ counter'.n <= Max THEN {Len(log)'} ELSE {})
         /\ Len(log)' \notin Hits(t) /\ Len(log)' \notin Passed(t)
<1> DEFINE n == Len(log) + 1
<1>0. Len(log) \in Nat /\ Len(log)' = n /\ n \in Nat /\ n \notin 1..Len(log) /\ 1..n = (1..Len(log)) \cup {n}
  BY NewEntry
<1>1. \A k \in 1..Len(log) : log'[k] = log[k]
  BY NewEntry
<1>2. log'[n].at = now /\ log'[n].passed = (counter'.n <= Max)
  BY NewEntry
<1>3. DOMAIN log = 1..Len(log) /\ DOMAIN log' = 1..n
  BY NewEntry
<1>4. Hits(t)' = {k \in 1..n : log'[k].at >= t /\ log'[k].at < t + Per}
  BY <1>3 DEF Hits
<1>5. Hits(t) = {k \in 1..Len(log) : log[k].at >= t /\ log[k].at < t + Per}
  BY <1>3 DEF Hits
<1> HIDE DEF n
<1>6. Hits(t)' = Hits(t) \cup (IF now >= t /\ now < t + Per THEN {n} ELSE {})
  BY <1>0, <1>1, <1>2, <1>4, <1>5
<1>7. Passed(t)' = {k \in Hits(t)' : log'[k].passed} /\ Passed(t) = {k \in Hits(t) : log[k].passed}
  BY DEF Passed
<1>8. Hits(t) \subseteq 1..Len(log)
  BY <1>5
<1>9. Passed(t)' = Passed(t) \cup
              (IF now >= t /\ now < t + Per /\ counter'.n <= Max THEN {n} ELSE {})
  BY <1>1, <1>2, <1>6, <1>7, <1>8
<1> QED BY <1>0, <1>6, <1>7, <1>8, <1>9

LEMMA CountedStep == TypeOK /\ Counted /\ [Next]_vars => Counted'
<1> SUFFICES ASSUME TypeOK, Counted, [Next]_vars, NEW t \in Nat
             PROVE  /\ Cardinality(Passed(t)') <= Max
                    /\ log' # << >> /\ Len(log)' \in Hits(t)' => Cardinality(Passed(t)') <= counter'.n
  BY DEF Counted
<1>1. CASE Within
  <2> DEFINE card == Cardinality(Passed(t))
             inside == now >= t /\ now < t + Per
  <2>1. /\ card \in Nat /\ card <= Max /\ Max \in Nat \ {0} /\ Per \in Nat
        /\ log # << >> /\ Len(log) \in Hits(t) => card <= counter.n
        /\ IsFiniteSet(Passed(t)) /\ counter.n \in Nat /\ now \in Nat
    BY PassedFinite, Bounds DEF Counted, TypeOK
  <2>2. /\ counter'.n \in Nat \ {0}
        /\ counter'.n = IF now < counter.until
                           THEN IF counter.n <= Max THEN counter.n + 1 ELSE Max + 1 ELSE 1
    BY <1>1, Bumped
  <2>3. CASE ~inside
    <3>1. Passed(t)' = Passed(t) /\ Len(log)' \notin Hits(t)'
      BY <1>1, <2>3, Grows
    <3> QED BY <2>1, <3>1
  <2>4. CASE inside /\ Hits(t) = {}
    <3>1. Passed(t) = {}
      BY <2>4 DEF Passed
    <3>2. Passed(t)' = {} \/ Passed(t)' = {Len(log)'}
      BY <1>1, <3>1, Grows
    <3>3. \A x : Cardinality({}) = 0 /\ Cardinality({x}) = 1
      BY FS_EmptySet, FS_Singleton
    <3>4. Cardinality(Passed(t)') \in {0, 1}
      BY <3>2, <3>3
    <3> QED BY <2>1, <2>2, <3>4
  <2>5. CASE inside /\ Hits(t) # {}
    <3>1. PICK k \in DOMAIN log : log[k].at >= t /\ log[k].at < t + Per
      BY <2>5 DEF Hits
    <3>2. log # << >> /\ DOMAIN log = 1..Len(log) /\ Len(log) \in DOMAIN log
      BY <1>1, <3>1, NewEntry
    <3>3. Last.at \in Nat /\ log[k].at \in Nat
      BY <1>1, <3>1, <3>2, NewEntry DEF Last, Entry
    <3>4. log[k].at <= Last.at /\ Last.at <= now /\ counter.until = Last.at + Per
      BY <3>1, <3>2 DEF TypeOK, Last
    <3>5. Len(log) \in Hits(t) /\ now < counter.until
      BY <2>1, <2>5, <3>1, <3>2, <3>3, <3>4 DEF Hits, Last
    <3>6. card <= counter.n
      BY <2>1, <3>2, <3>5
    <3>7. CASE counter'.n <= Max
      <4>1. Passed(t)' = Passed(t) \cup {Len(log)'} /\ Len(log)' \notin Passed(t)
        BY <1>1, <2>5, <3>7, Grows
      <4>2. Cardinality(Passed(t)') = card + 1
        BY <2>1, <4>1, FS_AddElement
      <4> QED BY <2>1, <2>2, <3>5, <3>6, <3>7, <4>2
    <3>8. CASE ~(counter'.n <= Max)
      <4>1. Passed(t)' = Passed(t)
        BY <1>1, <3>8, Grows
      <4> QED BY <2>1, <2>2, <3>8, <4>1
    <3> QED BY <3>7, <3>8
  <2> QED BY <2>3, <2>4, <2>5
<1>2. CASE Tick \/ UNCHANGED vars
  <2>1. UNCHANGED <<log, counter>>
    BY <1>2 DEF Tick, vars
  <2> QED BY <2>1 DEF Counted, Passed, Hits
<1> QED BY <1>1, <1>2 DEF Next

LEMMA CountedInit == Init => Counted
<1> SUFFICES ASSUME Init, NEW t \in Nat PROVE Cardinality(Passed(t)) <= Max /\ log = << >>
  BY DEF Counted, Init
<1>1. Passed(t) = {}
  BY DEF Init, Passed, Hits
<1> QED BY <1>1, FS_EmptySet, Bounds DEF Init

\* Whatever the arrivals, and however refused requests renew the window, no
\* span of Per sees more than Max requests pass (verify.go:508, roster.go:157).
THEOREM NeverOverRate == Spec => []AdmittedWithinRate
<1>1. Counted => AdmittedWithinRate
  BY RateAssumption DEF Counted, AdmittedWithinRate, Passed
<1> QED BY <1>1, TypeInit, TypeStep, CountedInit, CountedStep, PTL DEF Spec

LEMMA ForgivenStep == TypeOK /\ QuietIsForgiven /\ [Next]_vars => QuietIsForgiven'
<1> SUFFICES ASSUME TypeOK, QuietIsForgiven, [Next]_vars PROVE QuietIsForgiven'
  OBVIOUS
<1>1. CASE Within
  <2> SUFFICES ASSUME NEW k \in DOMAIN log', k = 1 \/ log'[k].at >= log'[k-1].at + Per
               PROVE  log'[k].passed
    BY DEF QuietIsForgiven
  <2>0. Len(log) \in Nat /\ k \in 1..(Len(log) + 1) /\ DOMAIN log = 1..Len(log)
    BY <1>1, NewEntry
  <2>1. CASE k \in DOMAIN log
    <3>1. log'[k] = log[k] /\ (k # 1 => log'[k-1] = log[k-1])
      BY <1>1, <2>0, <2>1, NewEntry
    <3> QED BY <2>1, <3>1 DEF QuietIsForgiven
  <2>2. CASE k \notin DOMAIN log
    <3>1. k = Len(log) + 1
      BY <2>0, <2>2
    <3>2. ~(now < counter.until)
      <4>1. CASE log = << >>
        BY <4>1 DEF TypeOK
      <4>2. CASE log # << >>
        <5>1. k - 1 = Len(log) /\ Len(log) \in 1..Len(log) /\ k # 1
          BY <1>1, <2>0, <3>1, <4>2, NewEntry
        <5>2. log'[k].at = now /\ log'[k-1] = log[Len(log)] /\ log[Len(log)].at \in Nat
          BY <1>1, <3>1, <5>1, NewEntry DEF Entry
        <5> QED BY <4>2, <5>1, <5>2, Bounds DEF TypeOK, Last
      <4> QED BY <4>1, <4>2
    <3>3. counter'.n <= Max
      BY <1>1, <3>2, Bumped, Bounds
    <3>4. log'[k].passed = (counter'.n <= Max)
      BY <1>1, <3>1, NewEntry
    <3> QED BY <3>3, <3>4
  <2> QED BY <2>1, <2>2
<1>2. CASE Tick \/ UNCHANGED vars
  BY <1>2 DEF Tick, vars, QuietIsForgiven
<1> QED BY <1>1, <1>2 DEF Next

\* A subnet that paused for Per is served at once, however far over the rate it
\* was before: the counter dies with the window (roster.go:165).
THEOREM QuietAlwaysForgiven == Spec => []QuietIsForgiven
<1>1. Init => QuietIsForgiven
  BY DEF Init, QuietIsForgiven
<1> QED BY <1>1, TypeInit, TypeStep, ForgivenStep, PTL DEF Spec
=============================================================================
