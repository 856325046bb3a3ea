----------------------------- MODULE PoolProofs -----------------------------
(***************************************************************************)
(* Proofs about Pool for any number of tasks, submitters and workers, any  *)
(* depth, both queue_full modes and any deadlines.                         *)
(***************************************************************************)
EXTENDS Pool, FiniteSetTheorems, TLAPS

-----------------------------------------------------------------------------
(* The type invariant.                                                     *)

\* What takeExpiredLocked does to the types: the queue gets no longer.
LEMMA TakeExpiredType ==
  ASSUME TypeOK, NEW g \in Goroutines, TakeExpired(g)
  PROVE  /\ q' \subseteq q /\ q' \subseteq Tasks
         /\ IsFiniteSet(q') /\ Cardinality(q') <= Depth
         /\ owed' \in [Goroutines -> SUBSET (Tasks \X Reasons)]
         /\ \A h \in Goroutines : h # g => owed'[h] = owed[h]
         /\ parked' \subseteq Submitters \cup Workers
<1>1. q' \subseteq q
  BY DEF TakeExpired, Kept
<1>2. IsFiniteSet(q') /\ Cardinality(q') <= Cardinality(q) /\ Cardinality(q) \in Nat
      /\ Cardinality(q') \in Nat
  BY <1>1, FS_Subset, FS_CardinalityType DEF TypeOK
<1>3. Bury(Dead) \in SUBSET (Tasks \X Reasons)
  BY DEF Bury, Dead, TypeOK, Reasons
<1>4. QED
  BY <1>1, <1>2, <1>3, PoolAssumption DEF TakeExpired, TypeOK, Broadcast

\* The same when a worker also takes one live task with it.
LEMMA TakeType ==
  ASSUME TypeOK, NEW w \in Workers, Take(w)
  PROVE  /\ q' \subseteq q /\ q' \subseteq Tasks
         /\ IsFiniteSet(q') /\ Cardinality(q') <= Depth
         /\ owed' \in [Goroutines -> SUBSET (Tasks \X Reasons)]
         /\ cur'[w] \in q /\ cur' \in [Goroutines -> Tasks \cup {NoTask}]
         /\ \A h \in Goroutines : h # w => owed'[h] = owed[h] /\ cur'[h] = cur[h]
<1>1. q' \subseteq q
  BY DEF Take, Kept
<1>2. IsFiniteSet(q') /\ Cardinality(q') <= Cardinality(q) /\ Cardinality(q) \in Nat
      /\ Cardinality(q') \in Nat
  BY <1>1, FS_Subset, FS_CardinalityType DEF TypeOK
<1>3. Bury(Dead) \in SUBSET (Tasks \X Reasons)
  BY DEF Bury, Dead, TypeOK, Reasons
<1>4. QED
  BY <1>1, <1>2, <1>3, PoolAssumption DEF Take, Kept, TypeOK, Goroutines

\* Appending one task where there is room keeps the queue within its depth.
LEMMA AdmitType ==
  ASSUME TypeOK, Room, NEW t \in Tasks
  PROVE  /\ q \cup {t} \subseteq Tasks
         /\ IsFiniteSet(q \cup {t}) /\ Cardinality(q \cup {t}) <= Depth
<1>1. Cardinality(q) \in Nat /\ Cardinality(q) + 1 <= Depth
  BY FS_CardinalityType, PoolAssumption DEF TypeOK, Room
<1>2. IsFiniteSet(q)
  BY DEF TypeOK
<1>3. IsFiniteSet(q \cup {t})
      /\ Cardinality(q \cup {t}) = IF t \in q THEN Cardinality(q) ELSE Cardinality(q) + 1
  BY <1>2, FS_AddElement
<1>4. QED
  BY <1>1, <1>3, PoolAssumption DEF TypeOK

\* Every action keeps the types and the placement of the tasks.
LEMMA TypeStep == TypeOK /\ Placement /\ [Next]_vars => TypeOK' /\ Placement'
<1> SUFFICES ASSUME TypeOK, Placement, [Next]_vars
             PROVE  TypeOK' /\ Placement'
  OBVIOUS
<1> USE PoolAssumption DEF TypeOK, Placement, Goroutines, Points, counts
<1>1. ASSUME NEW s \in Submitters, NEW t \in Tasks, Submit(s, t) PROVE TypeOK' /\ Placement'
  <2>1. PICK b \in Budgets :
          /\ left' = [left EXCEPT ![t] = b]
          /\ \/ b < 0 /\ owed' = [owed EXCEPT ![s] = Bury({t})] /\ UNCHANGED <<pc, cur>>
             \/ /\ ~(b < 0) /\ UNCHANGED owed
                /\ cur' = [cur EXCEPT ![s] = t] /\ pc' = [pc EXCEPT ![s] = "collect"]
    BY <1>1 DEF Submit
  <2>2. Bury({t}) \in SUBSET (Tasks \X Reasons) /\ b \in Int
    BY DEF Bury, Reasons
  <2>3. TypeOK'
    <3>1. owed' \in [Goroutines -> SUBSET (Tasks \X Reasons)]
      BY ZenonT(60), <2>1, <2>2
    <3>2. pc' \in [Goroutines -> Points]
      BY <2>1
    <3>5. cur' \in [Goroutines -> Tasks \cup {NoTask}]
      BY <2>1
    <3>3. left' \in [Tasks -> Int]
      BY <2>1, <2>2
    <3>4. QED
      BY <1>1, <3>1, <3>2, <3>3, <3>5 DEF Submit, timers
  <2>4. Placement'
    <3>1. CASE b < 0
      BY <1>1, <2>1, <3>1 DEF Submit
    <3>2. CASE ~(b < 0)
      BY ZenonT(60), <1>1, <2>1, <3>2 DEF Submit
    <3>3. QED
      BY <3>1, <3>2
  <2>5. QED
    BY <2>3, <2>4
<1>2. ASSUME NEW s \in Submitters, Collect(s) PROVE TypeOK' /\ Placement'
  BY ZenonT(60), <1>2, TakeExpiredType DEF Collect, timers
<1>3. ASSUME NEW s \in Submitters, Reject(s) PROVE TypeOK' /\ Placement'
  BY <1>3 DEF Reject, AtLock, GiveUp, StopTimer, Reasons
<1>4. ASSUME NEW s \in Submitters, Admit(s) PROVE TypeOK' /\ Placement'
  BY <1>4, AdmitType DEF Admit, AtLock, StopTimer, Signal
<1>5. ASSUME NEW s \in Submitters, Refuse(s) PROVE TypeOK' /\ Placement'
  BY <1>5 DEF Refuse, AtLock, GiveUp, StopTimer, Reasons
<1>6. ASSUME NEW s \in Submitters, GiveUpWaiting(s) PROVE TypeOK' /\ Placement'
  BY <1>6 DEF GiveUpWaiting, AtLock, GiveUp, StopTimer, Reasons
<1>7. ASSUME NEW s \in Submitters, Block(s) PROVE TypeOK' /\ Placement'
  BY <1>7, TakeExpiredType DEF Block, AtLock, timers
<1>8. ASSUME NEW s \in Submitters, TimerFire(s) PROVE TypeOK' /\ Placement'
  BY <1>8 DEF TimerFire, Broadcast
<1>9. ASSUME NEW s \in Submitters, StrayFire(s) PROVE TypeOK' /\ Placement'
  BY <1>9 DEF StrayFire, Broadcast
<1>10. ASSUME NEW w \in Workers, Take(w) PROVE TypeOK' /\ Placement'
  <2>1. TypeOK'
    BY <1>10, TakeType DEF Take, Broadcast, timers
  <2>2. Placement'
    <3>1. cur'[w] # NoTask /\ pc' = [pc EXCEPT ![w] = "budget"]
      BY <1>10, TakeType DEF Take
    <3>2. \A h \in Goroutines : h # w => owed'[h] = owed[h] /\ cur'[h] = cur[h]
      BY <1>10, TakeType
    <3>3. QED
      BY <3>1, <3>2
  <2>3. QED
    BY <2>1, <2>2
<1>11. ASSUME NEW w \in Workers, FindNone(w) PROVE TypeOK' /\ Placement'
  <2>1. CASE TakeExpired(w)
    <3>1. TypeOK'
      <4>1. pc' \in [Goroutines -> Points]
        BY <1>11 DEF FindNone
      <4>2. QED
        BY <1>11, <2>1, <4>1, TakeExpiredType DEF FindNone, timers
    <3>2. Placement'
      BY <1>11, <2>1, TakeExpiredType DEF FindNone, AtPop
    <3>3. QED
      BY <3>1, <3>2
  <2>2. CASE parked' = parked \cup {w} /\ UNCHANGED <<q, owed, pc>>
    BY <1>11, <2>2 DEF FindNone, timers
  <2>3. QED
    BY <1>11, <2>1, <2>2 DEF FindNone
<1>12. ASSUME NEW w \in Workers, Budget(w) PROVE TypeOK' /\ Placement'
  BY <1>12 DEF Budget, timers, Reasons
<1>13. ASSUME NEW g \in Goroutines, Reply(g) PROVE TypeOK' /\ Placement'
  BY <1>13 DEF Reply, Count, timers, Reasons
<1>14. ASSUME Sweep PROVE TypeOK' /\ Placement'
  BY ZenonT(60), <1>14, TakeExpiredType DEF Sweep, timers
<1>15. ASSUME SweepStop PROVE TypeOK' /\ Placement'
  BY <1>15 DEF SweepStop, timers
<1>16. ASSUME CloseStop PROVE TypeOK' /\ Placement'
  BY <1>16 DEF CloseStop, timers
<1>17. ASSUME CloseMark PROVE TypeOK' /\ Placement'
  BY <1>17 DEF CloseMark, Broadcast, timers
<1>18. ASSUME Tick PROVE TypeOK' /\ Placement'
  BY <1>18 DEF Tick, timers
<1>19. CASE Terminated \/ UNCHANGED vars
  BY <1>19 DEF Terminated, vars, timers
<1>20. QED
  BY <1>1, <1>2, <1>3, <1>4, <1>5, <1>6, <1>7, <1>8, <1>9, <1>10, <1>11, <1>12, <1>13, <1>14, <1>15, <1>16, <1>17, <1>18, <1>19 DEF Next, Place, Work

\* Nothing is queued, held or owed at the start.
LEMMA TypeInit == Init => TypeOK /\ Placement
<1> SUFFICES ASSUME Init PROVE TypeOK /\ Placement
  OBVIOUS
<1>1. IsFiniteSet({}) /\ Cardinality({}) = 0
  BY FS_EmptySet
<1>2. TypeOK
  BY <1>1, PoolAssumption DEF Init, TypeOK, Goroutines, Points, Reasons
<1>3. Placement
  BY PoolAssumption DEF Init, Placement, Goroutines
<1>4. QED
  BY <1>2, <1>3

\* The queue never holds more than queue_max tasks, and every variable keeps
\* its type, for every instance.
THEOREM TypeCorrect == Spec => []TypeOK
<1>1. Spec => [](TypeOK /\ Placement)
  BY TypeInit, TypeStep, PTL DEF Spec
<1>2. QED
  BY <1>1, PTL

-----------------------------------------------------------------------------
(* Sleeping and waking.                                                    *)

WakeInv == NoSleepOnRoom /\ SomeWorkerAwake /\ DoneIsDrained

\* takeExpiredLocked changes nothing or wakes everybody.
LEMMA TakeExpiredWakes ==
  ASSUME NEW g, TakeExpired(g)
  PROVE  q' = Kept /\ q' \subseteq q /\ (parked' = {} \/ (q' = q /\ parked' = parked))
  BY DEF TakeExpired, Kept, Broadcast

\* The Signal of enqueueLocked leaves a worker awake: no submitter is parked
\* where there is room, so if every worker was parked it woke one of them.
LEMMA AdmitWakes ==
  ASSUME TypeOK, Placement, WakeInv, NEW s \in Submitters, Admit(s)
  PROVE  \E w \in Workers : w \notin parked' /\ pc'[w] # "done"
<1>1. parked' \subseteq parked /\ (parked # {} => parked' # parked)
  BY DEF Admit, Signal
<1>2. parked \subseteq Workers
  BY DEF Admit, WakeInv, NoSleepOnRoom, TypeOK
<1>3. \A w \in Workers : pc'[w] = pc[w] /\ pc[w] # "done"
  BY PoolAssumption DEF Admit, WakeInv, DoneIsDrained, Accepting, TypeOK, Goroutines
<1>4. PICK w \in Workers : w \notin parked'
  BY <1>1, <1>2, PoolAssumption
<1>5. QED
  BY <1>3, <1>4

LEMMA WakeStep ==
  TypeOK /\ Placement /\ WakeInv /\ [Next]_vars => WakeInv'
<1> SUFFICES ASSUME TypeOK, Placement, WakeInv, [Next]_vars
             PROVE  WakeInv'
  OBVIOUS
<1> USE PoolAssumption DEF WakeInv, NoSleepOnRoom, SomeWorkerAwake, DoneIsDrained, Room
<1>1. ASSUME NEW s \in Submitters, NEW t \in Tasks, Submit(s, t) PROVE WakeInv'
  <2>1. \A w \in Workers : pc'[w] = pc[w]
    BY <1>1 DEF Submit, TypeOK, Goroutines
  <2>2. QED
    BY <1>1, <2>1 DEF Submit
<1>2. ASSUME NEW s \in Submitters, Collect(s) PROVE WakeInv'
  <2>1. \A w \in Workers : pc'[w] = pc[w]
    BY <1>2 DEF Collect, TypeOK, Goroutines
  <2>2. QED
    BY <1>2, <2>1, TakeExpiredWakes DEF Collect
<1>3. ASSUME NEW s \in Submitters, NEW reason \in Reasons, GiveUp(s, reason) PROVE WakeInv'
  <2>1. \A w \in Workers : pc'[w] = pc[w]
    BY <1>3 DEF GiveUp, TypeOK, Goroutines
  <2>2. QED
    BY <1>3, <2>1 DEF GiveUp
<1>4. ASSUME NEW s \in Submitters, Admit(s) PROVE WakeInv'
  <2>1. parked \cap Submitters = {} /\ closing # "closed" /\ closing' = closing
        /\ parked' \subseteq parked
    BY <1>4 DEF Admit, Signal, Accepting
  <2>2. \A w \in Workers : pc'[w] = pc[w]
    BY <1>4 DEF Admit, TypeOK, Goroutines
  <2>3. QED
    BY <1>4, <2>1, <2>2, AdmitWakes
<1>5. ASSUME NEW s \in Submitters, Block(s) PROVE WakeInv'
  <2>1. \A w \in Workers : pc'[w] = pc[w]
    BY <1>5 DEF Block, TypeOK, Goroutines
  <2>2. QED
    BY <1>5, <2>1, TakeExpiredWakes DEF Block, Accepting
<1>6. ASSUME NEW s \in Submitters, TimerFire(s) \/ StrayFire(s) PROVE WakeInv'
  BY <1>6 DEF TimerFire, StrayFire, Broadcast
<1>7. ASSUME NEW w \in Workers, Take(w) PROVE WakeInv'
  <2>1. pc'[w] = "budget" /\ \A v \in Workers : v # w => pc'[v] = pc[v]
    BY <1>7 DEF Take, TypeOK, Goroutines
  <2>2. parked' = {} /\ q' \subseteq q /\ closing' = closing /\ q # {}
    BY <1>7 DEF Take, Broadcast, Kept
  <2>3. QED
    BY <2>1, <2>2
<1>8. ASSUME NEW w \in Workers, FindNone(w) PROVE WakeInv'
  <2>1. CASE MayQuit /\ TakeExpired(w) /\ pc' = [pc EXCEPT ![w] = "done"]
    BY <1>8, <2>1, TakeExpiredWakes DEF FindNone, MayQuit, Accepting, TypeOK, Goroutines
  <2>2. CASE Accepting /\ Kept = {} /\ TakeExpired(w) /\ UNCHANGED pc
    BY <1>8, <2>2, TakeExpiredWakes DEF FindNone, Accepting
  <2>3. CASE Accepting /\ q = {} /\ parked' = parked \cup {w} /\ UNCHANGED <<q, owed, pc>>
    BY <1>8, <2>3 DEF FindNone, Accepting
  <2>4. QED
    BY <1>8, <2>1, <2>2, <2>3 DEF FindNone
<1>9. ASSUME NEW w \in Workers, Budget(w) PROVE WakeInv'
  BY <1>9 DEF Budget, TypeOK, Goroutines
<1>10. ASSUME NEW g \in Goroutines, Reply(g) PROVE WakeInv'
  BY <1>10 DEF Reply
<1>11. CASE Sweep
  BY <1>11, TakeExpiredWakes DEF Sweep
<1>12. CASE SweepStop
  <2>1. \A w \in Workers : pc'[w] = pc[w]
    BY <1>12 DEF SweepStop, TypeOK, Goroutines
  <2>2. QED
    BY <1>12, <2>1 DEF SweepStop
<1>13. CASE CloseStop \/ CloseMark
  BY <1>13 DEF CloseStop, CloseMark, Broadcast
<1>14. CASE Tick \/ Terminated \/ UNCHANGED vars
  BY <1>14 DEF Tick, Terminated, vars
<1>15. QED
  BY <1>1, <1>2, <1>3, <1>4, <1>5, <1>6, <1>7, <1>8, <1>9, <1>10, <1>11, <1>12, <1>13, <1>14
  DEF Next, Place, Work, Reject, Refuse, GiveUpWaiting, Reasons

LEMMA WakeInit == Init => WakeInv
<1> SUFFICES ASSUME Init PROVE WakeInv
  OBVIOUS
<1>1. \A w \in Workers : pc[w] = "pop"
  BY PoolAssumption DEF Init, Goroutines
<1>2. QED
  BY <1>1 DEF Init, WakeInv, NoSleepOnRoom, SomeWorkerAwake, DoneIsDrained

\* The invariant that carries the argument about the condition variable.
LEMMA WakeInvariant == Spec => [](TypeOK /\ Placement /\ WakeInv)
  BY TypeInit, TypeStep, WakeInit, WakeStep, PTL DEF Spec

\* No submitter sleeps while there is room and nobody sleeps in a closed pool.
THEOREM SubmittersSeeRoom == Spec => []NoSleepOnRoom
  BY WakeInvariant, PTL DEF WakeInv

\* A queued task always has a worker that is awake: no Signal is ever lost.
THEOREM NoLostWakeup == Spec => []SomeWorkerAwake
  BY WakeInvariant, PTL DEF WakeInv

-----------------------------------------------------------------------------
(* No worker sleeps while others have more than their share to do.          *)

\* The workers on their way into pop.
Coming == {w \in Workers \ parked : pc[w] = "pop" /\ owed[w] = {}}

WorkInv ==
  /\ NoIdleWorker
  /\ \A w \in Workers \cap parked : pc[w] = "pop" /\ owed[w] = {}

\* The inductive core: no more is queued, and nobody who was coming is lost.
LEMMA StillShared ==
  ASSUME TypeOK, WorkInv, q' = q, parked' \cap Workers = parked \cap Workers,
         \A w \in Workers : pc[w] = "pop" /\ owed[w] = {} => pc'[w] = "pop" /\ owed'[w] = {}
  PROVE  WorkInv'
<1>1. Coming \subseteq Coming' /\ IsFiniteSet(Coming') /\ IsFiniteSet(Coming)
  <2>1. Coming \subseteq Coming' /\ Coming' \subseteq Workers
    BY DEF Coming
  <2>2. QED
    BY <2>1, FS_Subset, PoolAssumption
<1>2. /\ Cardinality(Coming) <= Cardinality(Coming')
      /\ Cardinality(Coming) \in Nat /\ Cardinality(Coming') \in Nat /\ Cardinality(q) \in Nat
  BY <1>1, FS_Subset, FS_CardinalityType DEF TypeOK
<1>3. NoIdleWorker'
  BY <1>2 DEF WorkInv, NoIdleWorker, Coming
<1>4. QED
  BY <1>3 DEF WorkInv

\* One more is queued, and one more worker is woken: while there is room no
\* submitter sleeps, so Signal finds workers only.
LEMMA AdmitShares ==
  ASSUME TypeOK, Placement, NoSleepOnRoom, WorkInv, NEW s \in Submitters, Admit(s)
  PROVE  WorkInv'
<1>1. /\ \A w \in Workers : pc'[w] = pc[w] /\ owed'[w] = owed[w]
      /\ parked' \subseteq parked
  BY PoolAssumption DEF Admit, Signal, TypeOK, Goroutines
<1>2. ASSUME parked' \cap Workers # {}
      PROVE  Cardinality(q') <= Cardinality(Coming')
  <2>1. PICK g \in parked : parked' = parked \ {g}
    BY <1>2 DEF Admit, Signal
  <2>2. g \in Workers
    BY <2>1 DEF NoSleepOnRoom, Admit, TypeOK
  <2>3. Coming' = Coming \cup {g} /\ g \notin Coming
    BY <1>1, <2>1, <2>2 DEF Coming, WorkInv
  <2>4. IsFiniteSet(Coming) /\ IsFiniteSet(q)
    BY FS_Subset, PoolAssumption DEF Coming, TypeOK
  <2>5. Cardinality(Coming') = Cardinality(Coming) + 1
    BY <2>3, <2>4, FS_AddElement
  <2>6. Cardinality(q') <= Cardinality(q) + 1 /\ Cardinality(q') \in Nat /\ IsFiniteSet(q')
    <3>1. q' = q \cup {cur[s]}
      BY DEF Admit
    <3>2. /\ IsFiniteSet(q \cup {cur[s]}) /\ Cardinality(q) \in Nat
          /\ Cardinality(q \cup {cur[s]})
             = IF cur[s] \in q THEN Cardinality(q) ELSE Cardinality(q) + 1
      BY <2>4, FS_AddElement, FS_CardinalityType
    <3>3. QED
      BY <3>1, <3>2, FS_CardinalityType
  <2>7. Cardinality(q) \in Nat /\ Cardinality(Coming) \in Nat
    BY <2>4, FS_CardinalityType
  <2>8. Cardinality(q) <= Cardinality(Coming)
    BY <1>2, <1>1 DEF WorkInv, NoIdleWorker, Coming
  <2>9. QED
    BY <2>5, <2>6, <2>7, <2>8
<1>3. NoIdleWorker'
  BY <1>2 DEF NoIdleWorker, Coming
<1>4. QED
  BY <1>1, <1>3 DEF WorkInv

\* Every step keeps the workers' shares.
LEMMA WorkStep ==
  ASSUME TypeOK, Placement, WakeInv, WorkInv, [Next]_vars
  PROVE  WorkInv'
<1> USE PoolAssumption DEF Placement, Goroutines
<1>a. ASSUME parked' = {} PROVE WorkInv'
  BY <1>a DEF WorkInv, NoIdleWorker
<1>1. ASSUME NEW s \in Submitters, NEW t \in Tasks, Submit(s, t) PROVE WorkInv'
  <2>1. /\ q' = q /\ parked' = parked
        /\ \A w \in Workers : pc'[w] = pc[w] /\ owed'[w] = owed[w]
    BY <1>1 DEF Submit, TypeOK
  <2>2. QED
    BY <2>1, StillShared DEF WorkInv
<1>2. ASSUME NEW s \in Submitters, Collect(s) PROVE WorkInv'
  <2>1. CASE Dead = {}
    <3>1. /\ q' = q /\ parked' = parked
          /\ \A w \in Workers : pc'[w] = pc[w] /\ owed'[w] = owed[w]
      BY <1>2, <2>1 DEF Collect, TakeExpired, Kept, TypeOK
    <3>2. QED
      BY <3>1, StillShared
  <2>2. CASE Dead # {}
    BY <1>2, <1>a, <2>2 DEF Collect, TakeExpired, Broadcast
  <2>3. QED
    BY <2>1, <2>2
<1>3. ASSUME NEW s \in Submitters, NEW reason \in Reasons, GiveUp(s, reason) PROVE WorkInv'
  <2>1. /\ q' = q /\ parked' = parked
        /\ \A w \in Workers : pc'[w] = pc[w] /\ owed'[w] = owed[w]
    BY <1>3 DEF GiveUp, TypeOK
  <2>2. QED
    BY <2>1, StillShared DEF WorkInv
<1>4. ASSUME NEW s \in Submitters, Admit(s) PROVE WorkInv'
  BY <1>4, AdmitShares DEF WakeInv
<1>5. ASSUME NEW s \in Submitters, Block(s) PROVE WorkInv'
  <2>1. CASE Dead = {}
    <3>1. /\ q' = q /\ parked' \cap Workers = parked \cap Workers
          /\ \A w \in Workers : pc'[w] = pc[w] /\ owed'[w] = owed[w]
      BY <1>5, <2>1 DEF Block, TypeOK
    <3>2. QED
      BY <3>1, StillShared
  <2>2. CASE Dead # {}
    BY <1>5, <1>a, <2>2 DEF Block, TakeExpired, Broadcast
  <2>3. QED
    BY <2>1, <2>2
<1>6. ASSUME NEW s \in Submitters, TimerFire(s) \/ StrayFire(s) PROVE WorkInv'
  BY <1>6, <1>a DEF TimerFire, StrayFire, Broadcast
<1>7. ASSUME NEW w \in Workers, Take(w) PROVE WorkInv'
  BY <1>7, <1>a DEF Take, Broadcast
<1>8. ASSUME NEW w \in Workers, FindNone(w) PROVE WorkInv'
  <2>1. CASE MayQuit /\ TakeExpired(w)
    BY <1>a, <2>1 DEF MayQuit, Accepting, TakeExpired, Broadcast, WakeInv, NoSleepOnRoom
  <2>2. CASE Accepting /\ Kept = {} /\ Dead # {} /\ TakeExpired(w) /\ UNCHANGED pc
    BY <1>a, <2>2 DEF TakeExpired, Broadcast
  <2>3. CASE Accepting /\ q = {} /\ parked' = parked \cup {w} /\ UNCHANGED <<q, owed, pc>>
    <3>1. NoIdleWorker'
      <4>1. IsFiniteSet(Coming')
        BY FS_Subset DEF Coming
      <4>2. Cardinality(q') = 0 /\ Cardinality(Coming') \in Nat
        BY <2>3, <4>1, FS_EmptySet, FS_CardinalityType
      <4>3. QED
        BY <4>2 DEF NoIdleWorker, Coming
    <3>2. pc[w] = "pop" /\ owed[w] = {}
      BY <1>8 DEF FindNone, AtPop
    <3>3. QED
      BY <2>3, <3>1, <3>2 DEF WorkInv
  <2>4. QED
    BY <1>8, <2>1, <2>2, <2>3 DEF FindNone
<1>9. ASSUME NEW w \in Workers, Budget(w) PROVE WorkInv'
  <2>1. /\ q' = q /\ parked' = parked
        /\ \A u \in Workers : u # w => pc'[u] = pc[u] /\ owed'[u] = owed[u]
        /\ pc[w] = "budget"
    BY <1>9 DEF Budget, TypeOK
  <2>2. QED
    BY <2>1, StillShared DEF WorkInv
<1>10. ASSUME NEW g \in Goroutines, Reply(g) PROVE WorkInv'
  <2>1. /\ q' = q /\ parked' = parked /\ pc' = pc
        /\ \A w \in Workers : owed[w] = {} => owed'[w] = {}
    BY <1>10 DEF Reply, TypeOK
  <2>2. QED
    BY <2>1, StillShared DEF WorkInv
<1>11. CASE Sweep
  BY <1>11, <1>a DEF Sweep, TakeExpired, Broadcast
<1>12. CASE SweepStop
  <2>1. /\ q' = q /\ parked' = parked /\ owed' = owed
        /\ \A g \in Submitters \cup Workers : pc'[g] = pc[g]
    BY <1>12 DEF SweepStop, TypeOK
  <2>2. QED
    BY <2>1, StillShared DEF WorkInv
<1>13. CASE CloseMark
  BY <1>13, <1>a DEF CloseMark, Broadcast
<1>14. CASE CloseStop \/ Tick \/ UNCHANGED vars
  <2>1. q' = q /\ parked' = parked /\ owed' = owed /\ pc' = pc
    BY <1>14 DEF CloseStop, Tick, vars
  <2>2. QED
    BY <2>1, StillShared DEF WorkInv
<1>15. QED
  BY <1>1, <1>2, <1>3, <1>4, <1>5, <1>6, <1>7, <1>8, <1>9, <1>10, <1>11, <1>12, <1>13, <1>14
  DEF Next, Place, Work, Reject, Refuse, GiveUpWaiting, Reasons, Terminated

\* Work conservation (Signal in enqueueLocked, Broadcast in takeExpiredLocked and
\* pop): a worker only sleeps while as many others come for tasks as are queued.
THEOREM WorkIsShared == Spec => []NoIdleWorker
<1>1. Init => WorkInv
  BY DEF Init, WorkInv, NoIdleWorker
<1>2. TypeOK /\ Placement /\ WakeInv /\ WorkInv /\ [Next]_vars => WorkInv'
  BY WorkStep
<1>3. WorkInv => NoIdleWorker
  BY DEF WorkInv
<1>4. QED
  BY <1>1, <1>2, <1>3, WakeInvariant, PTL DEF Spec

-----------------------------------------------------------------------------
(* Every task is answered exactly once.                                    *)

OnceInv == AnsweredOnce /\ FreshUnanswered

\* A step that leaves a task where it is.
LEMMA SameHolder ==
  ASSUME NEW t \in Tasks, OneHolder(t),
         t \in q' <=> t \in q, InFlight(t)' <=> InFlight(t),
         \A h \in Goroutines : cur'[h] = t <=> cur[h] = t,
         \A h \in Goroutines, r \in Reasons : <<t, r>> \in owed'[h] <=> <<t, r>> \in owed[h]
  PROVE  OneHolder(t)'
<1>1. (Queued(t)' <=> Queued(t)) /\ (Held(t)' <=> Held(t)) /\ (Owed(t)' <=> Owed(t))
  BY DEF Queued, Held, Owed
<1>2. QED
  BY <1>1 DEF OneHolder

\* takeExpiredLocked moves each expired task from the queue to one call.
LEMMA TakeExpiredMoves ==
  ASSUME TypeOK, NEW g \in Goroutines, owed[g] = {}, TakeExpired(g), NEW t \in Tasks,
         OneHolder(t), UNCHANGED <<fresh, answers, cur>>
  PROVE  OneHolder(t)'
<1> USE DEF OneHolder, Queued, Held, Owed, InFlight
<1>1. \A h \in Goroutines, r \in Reasons :
        <<t, r>> \in owed'[h] <=> IF h = g THEN t \in Dead /\ r = "deadline"
                                           ELSE <<t, r>> \in owed[h]
  BY DEF TakeExpired, Bury, TypeOK, Reasons
<1>2. t \in q' <=> t \in q /\ t \notin Dead
  BY DEF TakeExpired, Kept
<1>3. t \in Dead => t \in q
  BY DEF Dead
<1>4. CASE t \in Dead
  <2>1. t \notin q' /\ <<t, "deadline">> \in owed'[g]
    BY <1>1, <1>2, <1>4 DEF Reasons
  <2>2. \A h \in Goroutines, r \in Reasons : <<t, r>> \in owed'[h] => h = g /\ r = "deadline"
    BY <1>1, <1>3, <1>4
  <2>3. QED
    BY <1>3, <1>4, <2>1, <2>2 DEF Reasons
<1>5. CASE t \notin Dead
  <2>1. \A h \in Goroutines, r \in Reasons : <<t, r>> \in owed'[h] <=> <<t, r>> \in owed[h]
    BY <1>1, <1>5
  <2>2. QED
    BY <1>2, <1>5, <2>1
<1>6. QED
  BY <1>4, <1>5

\* Popping moves the head to the worker's hands and the expired to its calls.
LEMMA TakeMoves ==
  ASSUME TypeOK, Placement, NEW w \in Workers, Take(w), NEW t \in Tasks, OneHolder(t)
  PROVE  OneHolder(t)'
<1> USE DEF OneHolder, Queued, Held, Owed, InFlight
<1>1. owed[w] = {} /\ cur[w] = NoTask /\ w \in Goroutines
  BY PoolAssumption DEF Take, AtPop, Placement, Goroutines
<1>2. \A h \in Goroutines, r \in Reasons :
        <<t, r>> \in owed'[h] <=> IF h = w THEN t \in Dead /\ r = "deadline"
                                           ELSE <<t, r>> \in owed[h]
  BY <1>1 DEF Take, Bury, TypeOK, Reasons
<1>3. PICK v \in Kept : cur' = [cur EXCEPT ![w] = v] /\ q' = Kept \ {v}
  BY DEF Take
<1>4. UNCHANGED <<fresh, answers>>
  BY DEF Take
<1>5. (t \in Dead => t \in q) /\ (v \in q /\ v \notin Dead) /\ (t \in q' <=> t \in q /\ t \notin Dead /\ t # v)
  BY <1>3 DEF Kept, Dead
<1>6. \A h \in Goroutines : cur'[h] = t <=> IF h = w THEN t = v ELSE cur[h] = t
  BY <1>1, <1>3 DEF TypeOK
<1>7. CASE t \in Dead
  <2>1. t \notin q' /\ <<t, "deadline">> \in owed'[w] /\ \A h \in Goroutines : cur'[h] # t
    BY <1>1, <1>2, <1>5, <1>6, <1>7 DEF Reasons
  <2>2. \A h \in Goroutines, r \in Reasons : <<t, r>> \in owed'[h] => h = w /\ r = "deadline"
    BY <1>2, <1>5, <1>7
  <2>3. QED
    BY <1>1, <1>4, <1>5, <1>7, <2>1, <2>2 DEF Reasons
<1>8. CASE t \notin Dead /\ t = v
  <2>1. t \notin q' /\ \A h \in Goroutines : cur'[h] = t <=> h = w
    BY <1>5, <1>6, <1>8
  <2>2. \A h \in Goroutines, r \in Reasons : <<t, r>> \notin owed'[h]
    BY <1>2, <1>5, <1>8
  <2>3. QED
    BY <1>1, <1>4, <1>5, <1>8, <2>1, <2>2
<1>9. CASE t \notin Dead /\ t # v
  <2>1. \A h \in Goroutines, r \in Reasons : <<t, r>> \in owed'[h] <=> <<t, r>> \in owed[h]
    BY <1>1, <1>2, <1>9
  <2>2. \A h \in Goroutines : cur'[h] = t <=> cur[h] = t
    BY <1>1, <1>6, <1>9, PoolAssumption
  <2>3. QED
    BY <1>4, <1>5, <1>9, <2>1, <2>2, SameHolder
<1>10. QED
  BY <1>7, <1>8, <1>9

\* A goroutine that turns the task in its hands into one call.
LEMMA HandOver ==
  ASSUME TypeOK, NEW g \in Goroutines, owed[g] = {}, cur[g] \in Tasks, NEW reason \in Reasons,
         owed' = [owed EXCEPT ![g] = {<<cur[g], reason>>}],
         cur' = [cur EXCEPT ![g] = NoTask],
         UNCHANGED <<q, fresh, answers>>, NEW t \in Tasks, OneHolder(t)
  PROVE  OneHolder(t)'
<1> USE DEF OneHolder, Queued, Held, Owed, InFlight
<1>1. \A h \in Goroutines, r \in Reasons :
        <<t, r>> \in owed'[h] <=> IF h = g THEN t = cur[g] /\ r = reason
                                           ELSE <<t, r>> \in owed[h]
  BY DEF TypeOK
<1>2. \A h \in Goroutines : cur'[h] = t <=> h # g /\ cur[h] = t
  BY PoolAssumption DEF TypeOK
<1>3. CASE t = cur[g]
  BY <1>1, <1>2, <1>3
<1>4. CASE t # cur[g]
  <2>1. \A h \in Goroutines, r \in Reasons : <<t, r>> \in owed'[h] <=> <<t, r>> \in owed[h]
    BY <1>1, <1>4
  <2>2. \A h \in Goroutines : cur'[h] = t <=> cur[h] = t
    BY <1>2, <1>4
  <2>3. QED
    BY <2>1, <2>2, SameHolder
<1>5. QED
  BY <1>3, <1>4

\* Every action keeps one holder per task in flight and none afterwards.
LEMMA OnceStep ==
  TypeOK /\ Placement /\ OnceInv /\ [Next]_vars => OnceInv'
<1> SUFFICES ASSUME TypeOK, Placement, OnceInv, [Next]_vars
             PROVE  OnceInv'
  OBVIOUS
<1> USE PoolAssumption DEF OnceInv, AnsweredOnce, FreshUnanswered
<1>1. ASSUME NEW s \in Submitters, NEW u \in Tasks, Submit(s, u) PROVE OnceInv'
  <2>1. u \in fresh /\ fresh' = fresh \ {u} /\ answers' = answers /\ q' = q
        /\ owed[s] = {} /\ cur[s] = NoTask /\ s \in Goroutines
    BY <1>1 DEF Submit, Placement, Goroutines
  <2>2. /\ ~InFlight(u) /\ OneHolder(u) /\ answers[u] = <<>> /\ InFlight(u)'
        /\ \A t \in Tasks : t # u => (InFlight(t)' <=> InFlight(t))
    BY <2>1 DEF InFlight
  <2>3. \/ owed' = [owed EXCEPT ![s] = Bury({u})] /\ cur' = cur
        \/ owed' = owed /\ cur' = [cur EXCEPT ![s] = u]
    BY <1>1 DEF Submit
  <2>4. OneHolder(u)'
    <3>1. u \notin q /\ \A h \in Goroutines : cur[h] # u /\ \A r \in Reasons : <<u, r>> \notin owed[h]
      BY <2>2 DEF OneHolder, Queued, Held, Owed
    <3>2. CASE owed' = [owed EXCEPT ![s] = Bury({u})] /\ cur' = cur
      <4>1. \A h \in Goroutines, r \in Reasons : <<u, r>> \in owed'[h] <=> h = s /\ r = "deadline"
        BY <2>1, <3>1, <3>2 DEF Bury, TypeOK
      <4>2. Owed(u)' /\ ~Queued(u)' /\ ~Held(u)'
        BY <2>1, <3>1, <3>2, <4>1 DEF Queued, Held, Owed, Reasons
      <4>3. \A h \in Goroutines : cur'[h] # u
        BY <3>1, <3>2
      <4>4. QED
        BY <2>2, <4>1, <4>2, <4>3 DEF OneHolder
    <3>3. CASE owed' = owed /\ cur' = [cur EXCEPT ![s] = u]
      <4>1. \A h \in Goroutines : cur'[h] = u <=> h = s
        BY <2>1, <3>1, <3>3 DEF TypeOK
      <4>2. QED
        BY <2>1, <2>2, <3>1, <3>3, <4>1 DEF OneHolder, Queued, Held, Owed
    <3>4. QED
      BY <2>3, <3>2, <3>3
  <2>5. ASSUME NEW t \in Tasks, t # u PROVE OneHolder(t)'
    <3>1. \A h \in Goroutines : cur'[h] = t <=> cur[h] = t
      BY <2>1, <2>3, <2>5 DEF TypeOK
    <3>2. \A h \in Goroutines, r \in Reasons : <<t, r>> \in owed'[h] <=> <<t, r>> \in owed[h]
      <4>1. <<t, "deadline">> \notin Bury({u}) /\ \A r \in Reasons : <<t, r>> \notin Bury({u})
        BY <2>5 DEF Bury
      <4>2. CASE owed' = [owed EXCEPT ![s] = Bury({u})]
        BY <2>1, <4>1, <4>2 DEF TypeOK
      <4>3. QED
        BY <2>3, <4>2
    <3>3. QED
      BY <2>1, <2>2, <2>5, <3>1, <3>2, SameHolder
  <2>6. QED
    BY <2>1, <2>4, <2>5
<1>2. ASSUME NEW s \in Submitters, Collect(s) PROVE OnceInv'
  BY <1>2, TakeExpiredMoves DEF Collect, Placement, Goroutines
<1>3. ASSUME NEW s \in Submitters, NEW reason \in Reasons, AtLock(s), GiveUp(s, reason)
      PROVE  OnceInv'
  <2>1. cur[s] \in Tasks /\ owed[s] = {} /\ s \in Goroutines
    BY <1>3 DEF AtLock, Placement, TypeOK, Goroutines
  <2>2. QED
    BY <1>3, <2>1, HandOver DEF GiveUp
<1>4. ASSUME NEW s \in Submitters, Admit(s) PROVE OnceInv'
  <2>1. cur[s] \in Tasks /\ s \in Goroutines
    BY <1>4 DEF Admit, AtLock, Placement, TypeOK, Goroutines
  <2>2. q' = q \cup {cur[s]} /\ cur' = [cur EXCEPT ![s] = NoTask] /\ UNCHANGED <<owed, fresh, answers>>
    BY <1>4 DEF Admit
  <2>3. ASSUME NEW t \in Tasks PROVE OneHolder(t)'
    <3>1. \A h \in Goroutines : cur'[h] = t <=> h # s /\ cur[h] = t
      BY <2>1, <2>2 DEF TypeOK
    <3>2. CASE t = cur[s]
      BY <2>1, <2>2, <3>1, <3>2 DEF OneHolder, Queued, Held, Owed, InFlight
    <3>3. CASE t # cur[s]
      <4>1. InFlight(t)' <=> InFlight(t)
        BY <2>2 DEF InFlight
      <4>2. QED
        BY <2>2, <3>1, <3>3, <4>1, SameHolder
    <3>4. QED
      BY <3>2, <3>3
  <2>4. QED
    BY <2>2, <2>3
<1>5. ASSUME NEW s \in Submitters, Block(s) PROVE OnceInv'
  <2>1. CASE TakeExpired(s)
    BY <1>5, <2>1, TakeExpiredMoves DEF Block, AtLock, Goroutines
  <2>2. CASE UNCHANGED <<q, owed>>
    BY <1>5, <2>2 DEF Block, OneHolder, Queued, Held, Owed, InFlight
  <2>3. QED
    BY <1>5, <2>1, <2>2 DEF Block
<1>6. ASSUME NEW w \in Workers, Take(w) PROVE OnceInv'
  BY <1>6, TakeMoves DEF Take
<1>7. ASSUME NEW w \in Workers, FindNone(w) PROVE OnceInv'
  <2>1. CASE TakeExpired(w)
    BY <1>7, <2>1, TakeExpiredMoves DEF FindNone, AtPop, Goroutines
  <2>2. CASE UNCHANGED <<q, owed>>
    BY <1>7, <2>2 DEF FindNone, OneHolder, Queued, Held, Owed, InFlight
  <2>3. QED
    BY <1>7, <2>1, <2>2 DEF FindNone
<1>8. ASSUME NEW w \in Workers, Budget(w) PROVE OnceInv'
  <2>1. cur[w] \in Tasks /\ owed[w] = {} /\ w \in Goroutines
    BY <1>8 DEF Budget, Placement, TypeOK, Goroutines
  <2>2. PICK reason \in Reasons : owed' = [owed EXCEPT ![w] = {<<cur[w], reason>>}]
    BY <1>8 DEF Budget, Reasons
  <2>3. QED
    BY <1>8, <2>1, <2>2, HandOver DEF Budget
<1>9. ASSUME NEW g \in Goroutines, Reply(g) PROVE OnceInv'
  <2>1. PICK call \in owed[g] :
          /\ owed' = [owed EXCEPT ![g] = @ \ {call}]
          /\ answers' = [answers EXCEPT ![call[1]] = Append(@, call[2])]
          /\ UNCHANGED <<q, cur, fresh>>
    BY <1>9 DEF Reply
  <2>2. PICK u \in Tasks, reason \in Reasons : call = <<u, reason>>
    BY <2>1 DEF TypeOK
  <2>3. answers[u] = <<>> /\ u \notin fresh /\ u \notin q
        /\ \A h \in Goroutines : cur[h] # u /\ \A r \in Reasons : <<u, r>> \in owed[h] => h = g /\ r = reason
    BY <2>1, <2>2 DEF OneHolder, Queued, Held, Owed, InFlight
  <2>4. answers' = [answers EXCEPT ![u] = <<reason>>] /\ owed' = [owed EXCEPT ![g] = @ \ {<<u, reason>>}]
    BY <2>1, <2>2, <2>3 DEF TypeOK
  <2>5. ASSUME NEW t \in Tasks, t # u PROVE OneHolder(t)'
    <3>1. answers'[t] = answers[t]
      BY <2>4, <2>5 DEF TypeOK
    <3>2. InFlight(t)' <=> InFlight(t)
      BY <2>1, <3>1 DEF InFlight
    <3>3. \A h \in Goroutines, r \in Reasons : <<t, r>> \in owed'[h] <=> <<t, r>> \in owed[h]
      BY <2>4, <2>5 DEF TypeOK
    <3>4. QED
      BY <2>1, <3>2, <3>3, SameHolder
  <2>6. OneHolder(u)'
    <3>1. ~InFlight(u)'
      BY <2>4 DEF InFlight, TypeOK
    <3>2. \A h \in Goroutines, r \in Reasons : <<u, r>> \notin owed'[h]
      BY <2>3, <2>4 DEF TypeOK
    <3>3. QED
      BY <2>1, <2>3, <3>1, <3>2 DEF OneHolder, Queued, Held, Owed
  <2>7. \A t \in Tasks : Len(answers'[t]) <= 1 /\ (t \in fresh' => answers'[t] = <<>>)
    BY <2>1, <2>3, <2>4 DEF TypeOK
  <2>8. fresh' \subseteq Tasks
    BY <2>1 DEF TypeOK
  <2>9. QED
    BY <2>5, <2>6, <2>7, <2>8
<1>10. CASE Sweep
  BY <1>10, TakeExpiredMoves DEF Sweep, Goroutines
<1>11. ASSUME UNCHANGED <<q, cur, owed, fresh, answers>> PROVE OnceInv'
  BY <1>11 DEF OneHolder, Queued, Held, Owed, InFlight
<1>12. ASSUME NEW s \in Submitters, TimerFire(s) \/ StrayFire(s) PROVE OnceInv'
  BY <1>12, <1>11 DEF TimerFire, StrayFire
<1>13. CASE SweepStop \/ CloseStop \/ CloseMark \/ Tick \/ Terminated \/ UNCHANGED vars
  BY <1>13, <1>11 DEF SweepStop, CloseStop, CloseMark, Tick, Terminated, vars
<1>14. QED
  BY <1>1, <1>2, <1>3, <1>4, <1>5, <1>6, <1>7, <1>8, <1>9, <1>10, <1>12, <1>13
  DEF Next, Place, Work, Reject, Refuse, GiveUpWaiting, Reasons

LEMMA OnceInit == Init => OnceInv
<1> SUFFICES ASSUME Init PROVE OnceInv
  OBVIOUS
<1>1. \A t \in Tasks : ~InFlight(t) /\ answers[t] = <<>>
  BY DEF Init, InFlight
<1>2. \A t \in Tasks : ~Queued(t) /\ ~Held(t) /\ ~Owed(t)
  BY PoolAssumption DEF Init, Queued, Held, Owed, Goroutines
<1>3. \A g \in Goroutines : owed[g] = {} /\ cur[g] \notin Tasks
  BY PoolAssumption DEF Init
<1>4. QED
  BY <1>1, <1>2, <1>3 DEF OnceInv, AnsweredOnce, FreshUnanswered, OneHolder, Init

\* Each submitted task is in exactly one place until the handler is called for
\* it, and the handler is called for it once.
THEOREM ExactlyOnce == Spec => []AnsweredOnce
<1>1. Spec => [](TypeOK /\ Placement /\ OnceInv)
  BY TypeInit, TypeStep, OnceInit, OnceStep, PTL DEF Spec
<1>2. QED
  BY <1>1, PTL DEF OnceInv
-----------------------------------------------------------------------------
(* What the pool promises to others: Close returns with every accepted      *)
(* request answered, the counters agree with the answers, and every step is *)
(* one of Dispatch.                                                         *)

\* What the place of a task says of its past: whoever is in line or is being
\* evaluated was accepted, whoever is offered or refused was not.
PastIs(t) ==
  /\ t \in fresh => turn[t] = 0
  /\ t \in q => turn[t] # 0
  /\ \A s \in Submitters :
       /\ cur[s] = t => turn[t] = 0
       /\ <<t, "served">> \notin owed[s]
  /\ \A w \in Workers : cur[w] = t => turn[t] # 0
  /\ \A g \in Goroutines :
       /\ <<t, "served">> \in owed[g] => turn[t] # 0
       /\ <<t, "limit">> \in owed[g] => turn[t] = 0

Past == \A t \in Tasks : PastIs(t)

PoolInv == TypeOK /\ Placement /\ WakeInv /\ OnceInv

LEMMA PoolInvariant == Spec => []PoolInv
  BY TypeInit, TypeStep, WakeInit, WakeStep, OnceInit, OnceStep, PTL DEF Spec, PoolInv

\* What a step may do to a task without a new past.
LEMMA PastKept ==
  ASSUME NEW t \in Tasks, PastIs(t), turn'[t] = turn[t],
         t \in fresh' => t \in fresh, t \in q' => t \in q,
         \A s \in Submitters :
           /\ cur'[s] = t => cur[s] = t \/ turn[t] = 0
           /\ <<t, "served">> \in owed'[s] => <<t, "served">> \in owed[s],
         \A w \in Workers : cur'[w] = t => cur[w] = t \/ turn[t] # 0,
         \A g \in Goroutines :
           /\ <<t, "served">> \in owed'[g] => <<t, "served">> \in owed[g] \/ turn[t] # 0
           /\ <<t, "limit">> \in owed'[g] => <<t, "limit">> \in owed[g] \/ turn[t] = 0
  PROVE  PastIs(t)'
BY DEF PastIs

\* A removal of expired tasks says nothing new of their past.
LEMMA TakeExpiredPast ==
  ASSUME TypeOK, Past, NEW g \in Goroutines, TakeExpired(g), UNCHANGED <<fresh, turn, cur>>
  PROVE  Past'
<1>1. q' \subseteq q
  BY DEF TakeExpired, Kept
<1>2. \A h \in Goroutines, t \in Tasks, r \in {"served", "limit"} :
        <<t, r>> \in owed'[h] => <<t, r>> \in owed[h]
  BY DEF TakeExpired, Bury, TypeOK
<1>3. QED
  BY <1>1, <1>2 DEF Past, PastIs, Goroutines

LEMMA PastStep == PoolInv /\ Past /\ [Next]_vars => Past'
<1> SUFFICES ASSUME PoolInv, Past, [Next]_vars
             PROVE  Past'
  OBVIOUS
<1> USE PoolAssumption DEF PoolInv
<1>1. ASSUME NEW s \in Submitters, NEW u \in Tasks, Submit(s, u) PROVE Past'
  <2>1. u \in fresh /\ fresh' = fresh \ {u} /\ q' = q /\ turn' = turn /\ s \in Goroutines
    BY <1>1 DEF Submit, Goroutines
  <2>2. \/ owed' = [owed EXCEPT ![s] = Bury({u})] /\ cur' = cur
        \/ owed' = owed /\ cur' = [cur EXCEPT ![s] = u]
    BY <1>1 DEF Submit
  <2>3. turn[u] = 0
    BY <2>1 DEF Past, PastIs
  <2>4. ASSUME NEW t \in Tasks PROVE PastIs(t)'
    <3>1. /\ <<t, "served">> \notin Bury({u}) /\ <<t, "limit">> \notin Bury({u})
      BY DEF Bury
    <3>2. \A h \in Goroutines :
            /\ <<t, "served">> \in owed'[h] => <<t, "served">> \in owed[h]
            /\ <<t, "limit">> \in owed'[h] => <<t, "limit">> \in owed[h]
      BY <2>1, <2>2, <3>1 DEF TypeOK
    <3>3. \A h \in Goroutines : cur'[h] = t => cur[h] = t \/ (h = s /\ turn[t] = 0)
      BY <2>2, <2>3 DEF TypeOK
    <3>4. PastIs(t) /\ s \notin Workers
      BY DEF Past
    <3>5. QED
      BY <2>1, <3>2, <3>3, <3>4, PastKept DEF Goroutines
  <2>5. QED
    BY <2>4 DEF Past
<1>2. ASSUME NEW s \in Submitters, Collect(s) PROVE Past'
  BY <1>2, TakeExpiredPast DEF Collect, Goroutines
<1>3. ASSUME NEW s \in Submitters, NEW reason \in {"deadline", "limit"}, AtLock(s), GiveUp(s, reason)
      PROVE  Past'
  <2>1. cur[s] \in Tasks /\ s \in Goroutines
    BY <1>3 DEF AtLock, Placement, TypeOK, Goroutines
  <2>2. turn[cur[s]] = 0
    BY <2>1 DEF Past, PastIs
  <2>3. \A h \in Goroutines, t \in Tasks, r \in {"served", "limit"} :
          <<t, r>> \in owed'[h] => <<t, r>> \in owed[h] \/ (r = "limit" /\ t = cur[s])
    BY <1>3, <2>1 DEF GiveUp, TypeOK
  <2>4. \A h \in Goroutines, t \in Tasks : cur'[h] = t => cur[h] = t
    BY <1>3, <2>1 DEF GiveUp, TypeOK
  <2>5. \A t \in Tasks, h \in Submitters : <<t, "served">> \in owed'[h] => <<t, "served">> \in owed[h]
    BY <2>3 DEF Goroutines
  <2>6. UNCHANGED <<q, turn, fresh>>
    BY <1>3 DEF GiveUp
  <2>7. ASSUME NEW t \in Tasks PROVE PastIs(t)'
    <3>1. \A h \in Goroutines :
            /\ <<t, "served">> \in owed'[h] => <<t, "served">> \in owed[h]
            /\ <<t, "limit">> \in owed'[h] => <<t, "limit">> \in owed[h] \/ turn[t] = 0
      BY <2>2, <2>3
    <3>2. PastIs(t)
      BY DEF Past
    <3>3. QED
      BY <2>4, <2>5, <2>6, <3>1, <3>2, PastKept DEF Goroutines
  <2>8. QED
    BY <2>7 DEF Past
<1>4. ASSUME NEW s \in Submitters, Admit(s) PROVE Past'
  <2>1. cur[s] \in Tasks /\ s \in Goroutines
    BY <1>4 DEF Admit, AtLock, Placement, TypeOK, Goroutines
  <2>2. /\ q' = q \cup {cur[s]} /\ cur' = [cur EXCEPT ![s] = NoTask]
        /\ turn' = [turn EXCEPT ![cur[s]] = accepted + 1] /\ UNCHANGED <<owed, fresh>>
    BY <1>4 DEF Admit
  <2>3. OneHolder(cur[s])
    BY <2>1 DEF OnceInv, AnsweredOnce
  <2>4. /\ cur[s] \notin fresh
        /\ \A h \in Goroutines : h # s => cur[h] # cur[s]
        /\ \A h \in Goroutines, r \in Reasons : <<cur[s], r>> \notin owed[h]
    BY <2>1, <2>3 DEF OneHolder, InFlight, Held, Owed
  <2>5. turn'[cur[s]] # 0 /\ \A t \in Tasks : t # cur[s] => turn'[t] = turn[t]
    BY <2>1, <2>2 DEF TypeOK
  <2>6. ASSUME NEW u \in Tasks, u = cur[s] PROVE PastIs(u)'
    <3>1. u \notin fresh' /\ turn'[u] # 0
      BY <2>2, <2>4, <2>5, <2>6
    <3>2. \A h \in Submitters : cur'[h] # u
      BY <2>1, <2>2, <2>4, <2>6 DEF TypeOK, Goroutines
    <3>3. \A h \in Goroutines, r \in Reasons : <<u, r>> \notin owed'[h]
      BY <2>2, <2>4, <2>6
    <3>4. QED
      BY <3>1, <3>2, <3>3 DEF PastIs, Reasons, Goroutines
  <2>7. ASSUME NEW t \in Tasks, t # cur[s] PROVE PastIs(t)'
    <3>1. \A h \in Goroutines : cur'[h] = t => cur[h] = t
      BY <2>2, <2>7 DEF TypeOK
    <3>2. PastIs(t)
      BY DEF Past
    <3>3. QED
      BY <2>2, <2>5, <2>7, <3>1, <3>2 DEF PastIs, Goroutines
  <2>8. QED
    BY <2>1, <2>6, <2>7 DEF Past
<1>5. ASSUME NEW s \in Submitters, Block(s) PROVE Past'
  <2>1. CASE TakeExpired(s)
    BY <1>5, <2>1, TakeExpiredPast DEF Block, Goroutines
  <2>2. CASE UNCHANGED <<q, owed>>
    BY <1>5, <2>2 DEF Block, Past, PastIs
  <2>3. QED
    BY <1>5, <2>1, <2>2 DEF Block
<1>6. ASSUME NEW w \in Workers, Take(w) PROVE Past'
  <2>1. PICK u \in Kept : cur' = [cur EXCEPT ![w] = u] /\ q' = Kept \ {u}
    BY <1>6 DEF Take
  <2>2. u \in q /\ q' \subseteq q /\ u \in Tasks /\ w \in Goroutines /\ w \notin Submitters
    BY <2>1 DEF Kept, TypeOK, Goroutines
  <2>3. turn[u] # 0
    BY <2>2 DEF Past, PastIs
  <2>4. \A h \in Goroutines, t \in Tasks, r \in {"served", "limit"} :
          <<t, r>> \in owed'[h] => <<t, r>> \in owed[h]
    BY <1>6 DEF Take, Bury, TypeOK
  <2>5. \A h \in Goroutines, t \in Tasks : cur'[h] = t => cur[h] = t \/ (h = w /\ t = u)
    BY <2>1, <2>2 DEF TypeOK
  <2>6. fresh' = fresh /\ turn' = turn
    BY <1>6 DEF Take
  <2>7. ASSUME NEW t \in Tasks PROVE PastIs(t)'
    <3>1. \A h \in Goroutines : cur'[h] = t => cur[h] = t \/ (h = w /\ turn[t] # 0)
      BY <2>3, <2>5
    <3>2. \A h \in Goroutines :
            /\ <<t, "served">> \in owed'[h] => <<t, "served">> \in owed[h]
            /\ <<t, "limit">> \in owed'[h] => <<t, "limit">> \in owed[h]
      BY <2>4
    <3>3. PastIs(t) /\ w \notin Submitters
      BY <2>2 DEF Past
    <3>4. QED
      BY <2>2, <2>6, <3>1, <3>2, <3>3, PastKept DEF Goroutines
  <2>8. QED
    BY <2>7 DEF Past
<1>7. ASSUME NEW w \in Workers, FindNone(w) PROVE Past'
  <2>1. CASE TakeExpired(w)
    BY <1>7, <2>1, TakeExpiredPast DEF FindNone, Goroutines
  <2>2. CASE UNCHANGED <<q, owed>>
    BY <1>7, <2>2 DEF FindNone, Past, PastIs
  <2>3. QED
    BY <1>7, <2>1, <2>2 DEF FindNone
<1>8. ASSUME NEW w \in Workers, Budget(w) PROVE Past'
  <2>1. cur[w] \in Tasks /\ w \in Goroutines /\ w \notin Submitters
    BY <1>8 DEF Budget, Placement, TypeOK, Goroutines
  <2>2. turn[cur[w]] # 0
    BY <2>1 DEF Past, PastIs
  <2>3. \A h \in Goroutines, t \in Tasks, r \in {"served", "limit"} :
          <<t, r>> \in owed'[h] =>
            <<t, r>> \in owed[h] \/ (h = w /\ r = "served" /\ t = cur[w])
    BY <1>8, <2>1 DEF Budget, TypeOK
  <2>4. \A h \in Goroutines, t \in Tasks : cur'[h] = t => cur[h] = t
    BY <1>8, <2>1 DEF Budget, TypeOK
  <2>5. UNCHANGED <<q, turn, fresh>>
    BY <1>8 DEF Budget
  <2>6. ASSUME NEW t \in Tasks PROVE PastIs(t)'
    <3>1. \A h \in Goroutines :
            /\ <<t, "served">> \in owed'[h] =>
                 <<t, "served">> \in owed[h] \/ (h = w /\ turn[t] # 0)
            /\ <<t, "limit">> \in owed'[h] => <<t, "limit">> \in owed[h]
      BY <2>2, <2>3
    <3>2. PastIs(t)
      BY DEF Past
    <3>3. QED
      BY <2>1, <2>4, <2>5, <3>1, <3>2, PastKept DEF Goroutines
  <2>7. QED
    BY <2>6 DEF Past
<1>9. ASSUME NEW g \in Goroutines, Reply(g) PROVE Past'
  <2>1. \A h \in Goroutines : owed'[h] \subseteq owed[h]
    BY <1>9 DEF Reply, TypeOK
  <2>2. UNCHANGED <<q, turn, cur, fresh>>
    BY <1>9 DEF Reply
  <2>3. QED
    BY <2>1, <2>2 DEF Past, PastIs, Goroutines
<1>10. CASE Sweep
  BY <1>10, TakeExpiredPast DEF Sweep, Goroutines
<1>11. ASSUME UNCHANGED <<q, turn, cur, owed, fresh>> PROVE Past'
  BY <1>11 DEF Past, PastIs
<1>12. ASSUME NEW s \in Submitters, TimerFire(s) \/ StrayFire(s) PROVE Past'
  BY <1>12, <1>11 DEF TimerFire, StrayFire
<1>13. CASE SweepStop \/ CloseStop \/ CloseMark \/ Tick \/ Terminated \/ UNCHANGED vars
  BY <1>13, <1>11 DEF SweepStop, CloseStop, CloseMark, Tick, Terminated, vars
<1>14. QED
  BY <1>1, <1>2, <1>3, <1>4, <1>5, <1>6, <1>7, <1>8, <1>9, <1>10, <1>12, <1>13
  DEF Next, Place, Work, Reject, Refuse, GiveUpWaiting

LEMMA PastInit == Init => Past
<1> SUFFICES ASSUME Init PROVE Past
  OBVIOUS
<1>1. \A g \in Goroutines : owed[g] = {} /\ cur[g] \notin Tasks
  BY PoolAssumption DEF Init
<1>2. QED
  BY <1>1 DEF Init, Past, PastIs, Goroutines

LEMMA PastInvariant == Spec => [](PoolInv /\ Past)
<1>1. Init => Past
  BY PastInit
<1>2. PoolInv /\ Past /\ [Next]_vars => Past'
  BY PastStep
<1>3. QED
  BY <1>1, <1>2, PoolInvariant, PTL DEF Spec

\* When Close returns the queue is empty, and an accepted task without an answer
\* is one that a submitter found expired on its way in (queue.go, Close).
THEOREM CloseDrains == Spec => []DrainedByClose
<1>1. ASSUME PoolInv, Past, CloseReturned PROVE DrainedByClose
  <2>1. q = {}
    BY <1>1, PoolAssumption DEF PoolInv, WakeInv, DoneIsDrained, CloseReturned
  <2>2. ASSUME NEW t \in Tasks, turn[t] # 0, answers[t] = <<>>
        PROVE  \E s \in Submitters : <<t, "deadline">> \in owed[s]
    <3>1. PastIs(t) /\ OneHolder(t)
      BY <1>1 DEF Past, PoolInv, OnceInv, AnsweredOnce
    <3>2. InFlight(t)
      BY <2>2, <3>1 DEF PastIs, InFlight
    <3>3. ~Queued(t)
      BY <2>1 DEF Queued
    <3>4. ~Held(t)
      <4>1. \A g \in Workers \cup {Sweeper} : cur[g] = NoTask
        BY <1>1 DEF PoolInv, Placement, CloseReturned
      <4>2. \A s \in Submitters : cur[s] # t
        BY <2>2, <3>1 DEF PastIs
      <4>3. QED
        BY <4>1, <4>2, PoolAssumption DEF Held, Goroutines
    <3>5. PICK g \in Goroutines, r \in Reasons : <<t, r>> \in owed[g]
      BY <3>1, <3>2, <3>3, <3>4 DEF OneHolder, Owed
    <3>6. g \in Submitters
      BY <1>1, <3>5 DEF CloseReturned, Goroutines
    <3>7. r = "deadline"
      BY <2>2, <3>1, <3>5, <3>6 DEF PastIs, Reasons
    <3>8. QED
      BY <3>5, <3>6, <3>7
  <2>3. QED
    BY <2>1, <2>2 DEF DrainedByClose
<1>2. PoolInv /\ Past => DrainedByClose
  BY <1>1 DEF DrainedByClose
<1>3. QED
  BY <1>2, PastInvariant, PTL

-----------------------------------------------------------------------------
(* The counters.                                                           *)

AnsweredWith(reason) == {t \in Tasks : answers[t] = <<reason>>}
Entered == {t \in Tasks : turn[t] # 0}

\* Each counter counts a finite set, and the answers fit the past.
CountInv ==
  /\ \A reason \in Reasons : IsFiniteSet(AnsweredWith(reason))
  /\ IsFiniteSet(Entered)
  /\ shed = Cardinality(AnsweredWith("limit"))
  /\ expired = Cardinality(AnsweredWith("deadline"))
  /\ accepted = Cardinality(Entered)
  /\ AnsweredWith("served") \subseteq Entered
  /\ AnsweredWith("limit") \cap Entered = {}

LEMMA CountKept ==
  ASSUME CountInv, UNCHANGED <<turn, counts, answers>>
  PROVE  CountInv'
BY DEF CountInv, AnsweredWith, Entered, counts

LEMMA AdmitCounts ==
  ASSUME PoolInv, Past, CountInv, NEW s \in Submitters, Admit(s)
  PROVE  CountInv'
<1>0. PICK u \in Tasks : u = cur[s]
  BY DEF Admit, AtLock, PoolInv, Placement, TypeOK, Goroutines
<1>1. /\ turn' = [turn EXCEPT ![u] = accepted + 1] /\ accepted' = accepted + 1
      /\ UNCHANGED <<shed, expired, answers>>
  BY <1>0 DEF Admit
<1>2. turn[u] = 0
  BY <1>0 DEF Past, PastIs
<1>3. answers[u] = <<>>
  BY <1>0 DEF PoolInv, OnceInv, AnsweredOnce, OneHolder, Held, InFlight, Goroutines
<1>4. Entered' = Entered \cup {u} /\ u \notin Entered
  <2>1. accepted + 1 # 0 /\ turn \in [Tasks -> Nat]
    BY DEF PoolInv, TypeOK
  <2>2. QED
    BY <1>1, <1>2, <2>1 DEF Entered
<1>5. IsFiniteSet(Entered') /\ Cardinality(Entered') = accepted + 1
  BY <1>4, FS_AddElement DEF CountInv
<1>6. \A reason \in Reasons : AnsweredWith(reason)' = AnsweredWith(reason)
  BY <1>1 DEF AnsweredWith
<1>7. \A reason \in Reasons : u \notin AnsweredWith(reason)
  BY <1>3 DEF AnsweredWith
<1>8. QED
  BY <1>1, <1>4, <1>5, <1>6, <1>7 DEF CountInv, Reasons

LEMMA ReplyCounts ==
  ASSUME PoolInv, Past, CountInv, NEW g \in Goroutines, Reply(g)
  PROVE  CountInv'
<1>1. PICK call \in owed[g] :
        /\ answers' = [answers EXCEPT ![call[1]] = Append(@, call[2])]
        /\ Count(call[2])
        /\ UNCHANGED <<turn, accepted>>
  BY DEF Reply
<1>2. PICK u \in Tasks, reason \in Reasons : call = <<u, reason>>
  BY <1>1 DEF PoolInv, TypeOK
<1>3. answers[u] = <<>> /\ <<u, reason>> \in owed[g]
  BY <1>1, <1>2 DEF PoolInv, OnceInv, AnsweredOnce, OneHolder, Owed, InFlight
<1>4. answers'[u] = <<reason>> /\ \A t \in Tasks : t # u => answers'[t] = answers[t]
  BY <1>1, <1>2, <1>3 DEF PoolInv, TypeOK
<1>5. /\ AnsweredWith(reason)' = AnsweredWith(reason) \cup {u}
      /\ u \notin AnsweredWith(reason)
      /\ \A r \in Reasons : r # reason => AnsweredWith(r)' = AnsweredWith(r)
  <2>1. \A r : <<r>> # <<>> /\ (<<r>> = <<reason>> => r = reason)
    OBVIOUS
  <2>2. \A r, t : t \in AnsweredWith(r) <=> t \in Tasks /\ answers[t] = <<r>>
    BY DEF AnsweredWith
  <2>3. \A r, t : t \in AnsweredWith(r)' <=> t \in Tasks /\ answers'[t] = <<r>>
    BY DEF AnsweredWith
  <2>4. \A r, t : t \in AnsweredWith(r)' <=> t \in AnsweredWith(r) \/ (t = u /\ r = reason)
    BY <1>3, <1>4, <2>1, <2>2, <2>3
  <2>5. \A r : AnsweredWith(r)' = IF r = reason THEN AnsweredWith(r) \cup {u} ELSE AnsweredWith(r)
    BY <2>4
  <2>6. u \notin AnsweredWith(reason)
    BY <1>3, <2>1, <2>2
  <2>7. QED
    BY <2>5, <2>6
<1>6. /\ IsFiniteSet(AnsweredWith(reason)')
      /\ Cardinality(AnsweredWith(reason)') = Cardinality(AnsweredWith(reason)) + 1
  BY <1>5, FS_AddElement DEF CountInv
<1>7. Entered' = Entered /\ accepted' = accepted
  BY <1>1 DEF Entered
<1>8. (reason = "served" => u \in Entered) /\ (reason = "limit" => u \notin Entered)
  BY <1>3 DEF Past, PastIs, Entered
<1>9. /\ shed' = IF reason = "limit" THEN shed + 1 ELSE shed
      /\ expired' = IF reason = "deadline" THEN expired + 1 ELSE expired
  BY <1>1, <1>2 DEF Count
<1>10. /\ shed' = Cardinality(AnsweredWith("limit")')
       /\ expired' = Cardinality(AnsweredWith("deadline")')
  BY <1>5, <1>6, <1>9 DEF CountInv, Reasons
<1>11. /\ AnsweredWith("served")' \subseteq Entered
       /\ AnsweredWith("limit")' \cap Entered = {}
  BY <1>5, <1>8 DEF CountInv, Reasons
<1>12. \A r \in Reasons : IsFiniteSet(AnsweredWith(r)')
  BY <1>5, <1>6 DEF CountInv
<1>13. QED
  BY <1>7, <1>10, <1>11, <1>12 DEF CountInv

LEMMA CountStep == PoolInv /\ Past /\ CountInv /\ [Next]_vars => CountInv'
<1> SUFFICES ASSUME PoolInv, Past, CountInv, [Next]_vars PROVE CountInv'
  OBVIOUS
<1>1. ASSUME NEW s \in Submitters, NEW t \in Tasks, Submit(s, t) PROVE CountInv'
  BY <1>1, CountKept DEF Submit
<1>2. ASSUME NEW s \in Submitters, Place(s) \/ TimerFire(s) \/ StrayFire(s) PROVE CountInv'
  BY <1>2, CountKept, AdmitCounts
  DEF Place, TimerFire, StrayFire, Collect, Reject, Refuse, GiveUpWaiting, Block, GiveUp
<1>3. ASSUME NEW w \in Workers, Work(w) PROVE CountInv'
  BY <1>3, CountKept DEF Work, Take, FindNone, Budget
<1>4. CASE Sweep \/ SweepStop \/ CloseStop \/ CloseMark \/ Tick \/ Terminated \/ UNCHANGED vars
  BY <1>4, CountKept DEF Sweep, SweepStop, CloseStop, CloseMark, Tick, Terminated, vars, counts
<1>5. QED
  BY <1>1, <1>2, <1>3, <1>4, ReplyCounts DEF Next

LEMMA CountInit == Init => CountInv
<1> SUFFICES ASSUME Init PROVE CountInv
  OBVIOUS
<1>1. Entered = {} /\ \A reason \in Reasons : AnsweredWith(reason) = {}
  BY DEF Init, Entered, AnsweredWith
<1>2. QED
  BY <1>1, FS_EmptySet DEF Init, CountInv, Reasons

\* Shed, Expired and Accepted count what was refused, what ran out of time and
\* what entered, whoever found it (queue.go, shedLimit, expire, enqueueLocked).
THEOREM CountersCount == Spec => []CountersAgree
<1>1. CountInv => CountersAgree
  BY DEF CountInv, CountersAgree, AnsweredWith, Entered
<1>2. QED
  BY <1>1, CountInit, CountStep, PastInvariant, PTL DEF Spec

-----------------------------------------------------------------------------
(* Every step of the pool is one of Dispatch, or none.                     *)

\* Stage reads the place of a task off its only holder.
StageIs(t) ==
  /\ Stage(t) = "new" <=> t \in fresh
  /\ Stage(t) = "answered" <=> answers[t] # <<>>
  /\ Stage(t) = "line" <=> t \in q
  /\ Stage(t) = "offered" <=> \E s \in Submitters : cur[s] = t
  /\ Stage(t) \in {"new", "answered", "line", "offered", "leaving"}

LEMMA StageOfHolder == OnceInv => \A t \in Tasks : StageIs(t)
<1> SUFFICES ASSUME OnceInv, NEW t \in Tasks PROVE StageIs(t)
  OBVIOUS
<1>1. OneHolder(t) /\ (t \in fresh => answers[t] = <<>>)
  BY DEF OnceInv, AnsweredOnce, FreshUnanswered
<1>2. /\ t \in q => InFlight(t)
      /\ (\E s \in Submitters : cur[s] = t) => InFlight(t) /\ t \notin q
  BY <1>1 DEF OneHolder, Queued, Held, Goroutines
<1>3. QED
  BY <1>1, <1>2 DEF StageIs, Stage, InFlight

\* The stages of the tasks, as Dispatch sees them.
Stages == [t \in Tasks |-> Stage(t)]

\* Dispatch has its own copy of FiniteSets.
LEMMA SameCount == \A S : Promise!Cardinality(S) = Cardinality(S)
  BY DEF Cardinality, Promise!Cardinality

LEMMA LineIsQueue ==
  ASSUME PoolInv PROVE Promise!Line = q
<1>1. \A t \in Tasks : Stage(t) = "line" <=> t \in q
  BY StageOfHolder DEF PoolInv, StageIs
<1>2. QED
  BY <1>1 DEF Promise!Line, PoolInv, TypeOK

StagesHold == \A t \in Tasks : StageIs(t)

LEMMA StageAfter == OnceInv' => \A t \in Tasks : StageIs(t)'
<1>1. OnceInv => StagesHold
  BY StageOfHolder DEF StagesHold
<1>2. OnceInv' => StagesHold'
  BY <1>1, PTL
<1>3. QED
  BY <1>2 DEF StagesHold

Offered(t) == \E s \in Submitters : cur[s] = t

LEMMA SameStage ==
  ASSUME PoolInv, OnceInv', NEW t \in Tasks,
         t \in fresh' <=> t \in fresh, answers'[t] = answers[t],
         t \in q' <=> t \in q, Offered(t)' <=> Offered(t)
  PROVE  Stage(t)' = Stage(t)
BY StageOfHolder, StageAfter DEF PoolInv, StageIs, Offered

\* Tasks that leave the line, or one that gives up; nothing if there are none.
LEMMA Leaving ==
  ASSUME PoolInv, OnceInv', NEW T \in SUBSET Tasks,
         T \subseteq q \/ \E t \in Tasks : T = {t} /\ Offered(t),
         q' = q \ T, \A t \in Tasks : Offered(t)' <=> Offered(t) /\ t \notin T,
         UNCHANGED <<fresh, answers, turn, closing>>
  PROVE  [Promise!Next]_(Promise!vars)
<1>1. \A t \in Tasks : StageIs(t) /\ StageIs(t)'
  BY StageOfHolder, StageAfter DEF PoolInv
<1>2. \A t \in T : Stage(t)' = "leaving"
  <2>1. ASSUME NEW t \in T PROVE Stage(t)' = "leaving"
    <3>1. OneHolder(t)
      BY DEF PoolInv, OnceInv, AnsweredOnce
    <3>2. t \in q \/ Offered(t)
      OBVIOUS
    <3>3. t \notin fresh /\ answers[t] = <<>>
      BY <3>1, <3>2 DEF OneHolder, Queued, Held, Offered, InFlight, Goroutines
    <3>4. t \notin fresh' /\ answers'[t] = <<>> /\ t \notin q' /\ ~Offered(t)'
      BY <3>3
    <3>5. QED
      BY <1>1, <3>4 DEF StageIs, Offered
  <2>2. QED
    BY <2>1
<1>3. \A t \in Tasks \ T : Stage(t)' = Stage(t)
  BY SameStage
<1>4. CASE T = {}
  <2>1. Stages' = Stages /\ Entered' = Entered
    BY <1>3, <1>4 DEF Stages, Entered
  <2>2. QED
    BY <2>1 DEF Promise!vars, Stages, Entered
<1>5. CASE T # {}
  <2>1. T \subseteq Promise!Line \/ \E t \in Tasks : T = {t} /\ Stages[t] = "offered"
    BY <1>1, LineIsQueue DEF Stages, StageIs, Offered
  <2>2. Stages' = [t \in Tasks |-> IF t \in T THEN "leaving" ELSE Stages[t]]
    BY <1>2, <1>3 DEF Stages
  <2>3. Entered' = Entered /\ UNCHANGED <<answers, closing>>
    BY DEF Entered
  <2>4. Promise!Leave(T)
    BY <1>5, <2>1, <2>2, <2>3 DEF Promise!Leave, Stages, Entered
  <2>5. QED
    BY <2>4 DEF Promise!Next
<1>6. QED
  BY <1>4, <1>5

LEMMA Invisible ==
  ASSUME PoolInv, OnceInv', UNCHANGED <<q, fresh, answers, turn>>,
         closing' = "closed" <=> closing = "closed",
         \A t \in Tasks : Offered(t)' <=> Offered(t)
  PROVE  UNCHANGED Promise!vars
<1>1. \A t \in Tasks : Stage(t)' = Stage(t)
  BY SameStage
<1>2. QED
  BY <1>1 DEF Promise!vars

LEMMA ExpiryLeaves ==
  ASSUME PoolInv, OnceInv', NEW g \in Goroutines, TakeExpired(g),
         UNCHANGED <<cur, fresh, answers, turn, closing>>
  PROVE  [Promise!Next]_(Promise!vars)
<1>1. Dead \in SUBSET Tasks /\ Dead \subseteq q
  BY DEF Dead, PoolInv, TypeOK
<1>2. q' = q \ Dead
  BY DEF TakeExpired, Kept
<1>3. \A t \in Tasks : Offered(t)' <=> Offered(t) /\ t \notin Dead
  <2>1. \A t \in Tasks : t \in q => ~Offered(t)
    BY DEF PoolInv, OnceInv, AnsweredOnce, OneHolder, Queued, Held, Offered, Goroutines
  <2>2. QED
    BY <1>1, <2>1 DEF Offered
<1>4. QED
  BY <1>1, <1>2, <1>3, Leaving

LEMMA GiveUpLeaves ==
  ASSUME PoolInv, OnceInv', NEW s \in Submitters, NEW reason, AtLock(s), GiveUp(s, reason)
  PROVE  [Promise!Next]_(Promise!vars)
<1>1. cur[s] \in Tasks /\ s \in Goroutines
  BY DEF AtLock, PoolInv, Placement, TypeOK, Goroutines
<1>2. OneHolder(cur[s])
  BY <1>1 DEF PoolInv, OnceInv, AnsweredOnce
<1>3. /\ cur[s] \notin q
      /\ \A h \in Submitters : cur[h] = cur[s] => h = s
  BY <1>1, <1>2 DEF OneHolder, Queued, Held, Goroutines
<1>4. \A t \in Tasks : Offered(t)' <=> Offered(t) /\ t \notin {cur[s]}
  BY <1>1, <1>3, PoolAssumption DEF Offered, GiveUp, PoolInv, TypeOK, Goroutines
<1>5. q' = q \ {cur[s]} /\ UNCHANGED <<fresh, answers, turn, closing>>
  BY <1>3 DEF GiveUp
<1>6. Offered(cur[s]) /\ {cur[s]} \in SUBSET Tasks
  BY <1>1 DEF Offered
<1>7. QED
  BY <1>1, <1>4, <1>5, <1>6, Leaving

LEMMA AdmitAccepts ==
  ASSUME PoolInv, Past, OnceInv', NEW s \in Submitters, Admit(s)
  PROVE  [Promise!Next]_(Promise!vars)
<1>0. PICK u \in Tasks : u = cur[s]
  BY DEF Admit, AtLock, PoolInv, Placement, TypeOK, Goroutines
<1>1. u \in Tasks /\ s \in Goroutines
  BY <1>0 DEF Admit, AtLock, PoolInv, Placement, TypeOK, Goroutines
<1>2. /\ closing # "closed" /\ Cardinality(q) < Depth /\ q' = q \cup {u}
      /\ turn' = [turn EXCEPT ![u] = accepted + 1] /\ cur' = [cur EXCEPT ![s] = NoTask]
      /\ UNCHANGED <<closing, fresh, answers>>
  BY <1>0 DEF Admit, Accepting, Room
<1>3. \A t \in Tasks : StageIs(t) /\ StageIs(t)'
  BY StageOfHolder, StageAfter DEF PoolInv
<1>4. Stage(u) = "offered" /\ Stage(u)' = "line"
  BY <1>0, <1>1, <1>2, <1>3 DEF StageIs
<1>5. \A t \in Tasks : t # u => (Offered(t)' <=> Offered(t))
  BY <1>0, <1>1, <1>2, PoolAssumption DEF Offered, PoolInv, TypeOK, Goroutines
<1>6. \A t \in Tasks : t # u => Stage(t)' = Stage(t)
  BY <1>2, <1>5, SameStage
<1>7. Stages' = [Stages EXCEPT ![u] = "line"]
  BY <1>1, <1>4, <1>6 DEF Stages
<1>8. Entered' = Entered \cup {u}
  <2>1. accepted + 1 # 0 /\ turn \in [Tasks -> Nat]
    BY DEF PoolInv, TypeOK
  <2>2. QED
    BY <1>1, <1>2, <2>1 DEF Entered
<1>9. Promise!Accept(u)
  <2>1. Stages[u] = "offered" /\ Promise!Cardinality(Promise!Line) < Depth
    BY <1>1, <1>2, <1>4, LineIsQueue, SameCount DEF Stages
  <2>2. UNCHANGED <<closing # "closed", answers>>
    BY <1>2
  <2>3. QED
    BY <1>2, <1>7, <1>8, <2>1, <2>2 DEF Promise!Accept, Stages, Entered
<1>10. QED
  BY <1>1, <1>9 DEF Promise!Next

LEMMA SubmitOffers ==
  ASSUME PoolInv, OnceInv', NEW s \in Submitters, NEW u \in Tasks, Submit(s, u)
  PROVE  [Promise!Next]_(Promise!vars)
<1>1. /\ u \in fresh /\ fresh' = fresh \ {u} /\ cur[s] = NoTask /\ s \in Goroutines
      /\ UNCHANGED <<q, turn, closing, answers>>
  BY DEF Submit, PoolInv, Placement, Goroutines
<1>2. \/ cur' = cur
      \/ cur' = [cur EXCEPT ![s] = u]
  BY DEF Submit
<1>3. \A t \in Tasks : StageIs(t) /\ StageIs(t)'
  BY StageOfHolder, StageAfter DEF PoolInv
<1>4. \A t \in Tasks : t # u => (Offered(t)' <=> Offered(t))
  BY <1>1, <1>2, PoolAssumption DEF Offered, PoolInv, TypeOK, Goroutines
<1>5. \A t \in Tasks : t # u => Stage(t)' = Stage(t)
  BY <1>1, <1>4, SameStage
<1>6. Stage(u) = "new"
  BY <1>1, <1>3 DEF StageIs
<1>7. Stage(u)' \in {"offered", "leaving"}
  <2>1. u \notin fresh' /\ answers'[u] = <<>> /\ u \notin q'
    BY <1>1 DEF PoolInv, OnceInv, FreshUnanswered, AnsweredOnce, OneHolder, Queued, InFlight
  <2>2. QED
    BY <1>3, <2>1 DEF StageIs
<1>8. Stages' = [Stages EXCEPT ![u] = Stage(u)']
  BY <1>5 DEF Stages
<1>9. Promise!Offer(u)
  BY <1>1, <1>6, <1>7, <1>8 DEF Promise!Offer, Stages
<1>10. QED
  BY <1>9 DEF Promise!Next

LEMMA ReplyAnswers ==
  ASSUME PoolInv, Past, OnceInv', NEW g \in Goroutines, Reply(g)
  PROVE  [Promise!Next]_(Promise!vars)
<1>1. PICK call \in owed[g] :
        /\ answers' = [answers EXCEPT ![call[1]] = Append(@, call[2])]
        /\ UNCHANGED <<q, cur, fresh, turn, closing>>
  BY DEF Reply
<1>2. PICK u \in Tasks, reason \in Reasons : call = <<u, reason>>
  BY <1>1 DEF PoolInv, TypeOK
<1>3. answers' = [answers EXCEPT ![u] = Append(@, reason)] /\ <<u, reason>> \in owed[g]
  BY <1>1, <1>2
<1>4. \A t \in Tasks : StageIs(t) /\ StageIs(t)'
  BY StageOfHolder, StageAfter DEF PoolInv
<1>5. Stage(u) = "leaving"
  <2>1. OneHolder(u)
    BY DEF PoolInv, OnceInv, AnsweredOnce
  <2>2. InFlight(u) /\ u \notin q /\ \A h \in Goroutines : cur[h] # u
    BY <1>3, <2>1 DEF OneHolder, Queued, Held, Owed
  <2>3. QED
    BY <1>4, <2>2 DEF StageIs, InFlight, Goroutines
<1>6. Stage(u)' = "answered"
  <2>1. answers'[u] # <<>>
    BY <1>3 DEF PoolInv, TypeOK
  <2>2. QED
    BY <1>4, <2>1 DEF StageIs
<1>7. \A t \in Tasks : t # u => Stage(t)' = Stage(t)
  <2>1. \A t \in Tasks : t # u => answers'[t] = answers[t]
    BY <1>3 DEF PoolInv, TypeOK
  <2>2. \A t \in Tasks : Offered(t)' <=> Offered(t)
    BY <1>1 DEF Offered
  <2>3. QED
    BY <1>1, <2>1, <2>2, SameStage
<1>8. Stages' = [Stages EXCEPT ![u] = "answered"]
  BY <1>6, <1>7 DEF Stages
<1>9. (reason = "served" => u \in Entered) /\ (reason = "limit" => u \notin Entered)
  BY <1>3 DEF Past, PastIs, Entered
<1>10. Entered' = Entered /\ closing' = closing
  BY <1>1 DEF Entered
<1>11. Promise!Answer(u, reason)
  BY <1>3, <1>5, <1>8, <1>9, <1>10 DEF Promise!Answer, Stages, Entered
<1>12. QED
  BY <1>11 DEF Promise!Next, Reasons

LEMMA TakeLeaves ==
  ASSUME PoolInv, OnceInv', NEW w \in Workers, Take(w)
  PROVE  [Promise!Next]_(Promise!vars)
<1>1. PICK u \in Kept : cur' = [cur EXCEPT ![w] = u] /\ q' = Kept \ {u}
  BY DEF Take
<1>2. Dead \cup {u} \in SUBSET Tasks /\ Dead \cup {u} \subseteq q
  BY <1>1 DEF Kept, Dead, PoolInv, TypeOK
<1>3. q' = q \ (Dead \cup {u})
  BY <1>1 DEF Kept
<1>4. \A s \in Submitters : cur'[s] = cur[s]
  BY <1>1, PoolAssumption DEF PoolInv, TypeOK, Goroutines
<1>5. \A t \in Tasks : t \in q => ~Offered(t)
  BY DEF PoolInv, OnceInv, AnsweredOnce, OneHolder, Queued, Held, Offered, Goroutines
<1>6. \A t \in Tasks : Offered(t)' <=> Offered(t) /\ t \notin Dead \cup {u}
  BY <1>2, <1>4, <1>5 DEF Offered
<1>7. UNCHANGED <<fresh, answers, turn, closing>>
  BY DEF Take
<1>8. QED
  BY <1>2, <1>3, <1>6, <1>7, Leaving

LEMMA StepIsPromised ==
  PoolInv /\ Past /\ OnceInv' /\ [Next]_vars => [Promise!Next]_(Promise!vars)
<1> SUFFICES ASSUME PoolInv, Past, OnceInv', [Next]_vars
             PROVE  [Promise!Next]_(Promise!vars)
  OBVIOUS
<1>1. ASSUME NEW s \in Submitters, Place(s) PROVE [Promise!Next]_(Promise!vars)
  <2>1. CASE Collect(s)
    BY <2>1, ExpiryLeaves DEF Collect, Goroutines
  <2>2. CASE Reject(s) \/ Refuse(s) \/ GiveUpWaiting(s)
    BY <2>2, GiveUpLeaves DEF Reject, Refuse, GiveUpWaiting
  <2>3. CASE Admit(s)
    BY <2>3, AdmitAccepts
  <2>4. CASE Block(s)
    <3>1. CASE TakeExpired(s)
      BY <2>4, <3>1, ExpiryLeaves DEF Block, Goroutines
    <3>2. CASE UNCHANGED <<q, owed>>
      BY <2>4, <3>2, Invisible DEF Block, Offered
    <3>3. QED
      BY <2>4, <3>1, <3>2 DEF Block
  <2>5. QED
    BY <1>1, <2>1, <2>2, <2>3, <2>4 DEF Place
<1>2. ASSUME NEW s \in Submitters, TimerFire(s) \/ StrayFire(s)
      PROVE  [Promise!Next]_(Promise!vars)
  BY <1>2, Invisible DEF TimerFire, StrayFire, Offered
<1>3. ASSUME NEW w \in Workers, Work(w) PROVE [Promise!Next]_(Promise!vars)
  <2>1. CASE Take(w)
    BY <2>1, TakeLeaves
  <2>2. CASE FindNone(w)
    <3>1. CASE TakeExpired(w)
      BY <2>2, <3>1, ExpiryLeaves DEF FindNone, Goroutines
    <3>2. CASE UNCHANGED <<q, owed>>
      BY <2>2, <3>2, Invisible DEF FindNone, Offered
    <3>3. QED
      BY <2>2, <3>1, <3>2 DEF FindNone
  <2>3. CASE Budget(w)
    <3>1. \A s \in Submitters : cur'[s] = cur[s]
      BY <2>3, PoolAssumption DEF Budget, PoolInv, TypeOK, Goroutines
    <3>2. QED
      BY <2>3, <3>1, Invisible DEF Budget, Offered
  <2>4. QED
    BY <1>3, <2>1, <2>2, <2>3 DEF Work
<1>4. CASE CloseMark
  <2>1. UNCHANGED <<q, fresh, answers, turn, cur>> /\ closing # "closed" /\ closing' = "closed"
    BY <1>4 DEF CloseMark
  <2>2. \A t \in Tasks : Stage(t)' = Stage(t)
    BY <2>1, SameStage DEF Offered
  <2>3. Promise!Shut
    BY <2>1, <2>2 DEF Promise!Shut
  <2>4. QED
    BY <2>3 DEF Promise!Next
<1>5. CASE Sweep
  BY <1>5, ExpiryLeaves DEF Sweep, Goroutines
<1>6. CASE SweepStop \/ CloseStop \/ Tick \/ Terminated \/ UNCHANGED vars
  BY <1>6, Invisible DEF SweepStop, CloseStop, Tick, Terminated, vars, Offered
<1>7. QED
  BY <1>1, <1>2, <1>3, <1>4, <1>5, <1>6, SubmitOffers, ReplyAnswers DEF Next

LEMMA InitIsPromised == Init => Promise!Init
<1> SUFFICES ASSUME Init PROVE Promise!Init
  OBVIOUS
<1>1. \A t \in Tasks : Stage(t) = "new"
  BY DEF Init, Stage, InFlight
<1>2. QED
  BY <1>1 DEF Init, Promise!Init

\* The pool with its goroutines, mutex, condition and timers implements the
\* abstract dispatcher, for any number of tasks, submitters and workers
\* (queue.go, all of it).
THEOREM PoolDispatches == Spec => ImplementsDispatch
<1>1. PoolInv /\ Past /\ OnceInv' /\ [Next]_vars => [Promise!Next]_(Promise!vars)
  BY StepIsPromised
<1>2. PoolInv => OnceInv
  BY DEF PoolInv
<1>3. QED
  BY <1>1, <1>2, InitIsPromised, PastInvariant, PTL DEF Spec, ImplementsDispatch, Promise!Spec
=============================================================================
