-------------------------------- MODULE Pool --------------------------------
(***************************************************************************)
(* The inspector's bounded task queue and worker pool                      *)
(* (internal/queue/queue.go): one mutex, one condition variable shared by  *)
(* idle workers and by submitters waiting for room, a slice of tasks, a    *)
(* sweeper that buries expired tasks and a Close that drains.              *)
(*                                                                         *)
(* An action is one critical section of the mutex, or one step outside it. *)
(* The clock is read once per action.  Tasks are the NATS requests; each   *)
(* is submitted once.                                                      *)
(***************************************************************************)
EXTENDS Integers, Sequences, FiniteSets

CONSTANTS
  Tasks,       \* the requests that may arrive
  Submitters,  \* goroutines that call Submit (one NATS callback in main.go)
  Workers,     \* goroutines running work()
  Sweeper,     \* the goroutine running sweep()
  Depth,       \* queue_max
  Full,        \* queue_full: "drop" or "wait"
  Budgets,     \* deadline_ms - reserve - min_budget of a request, in ticks
  MinBudget,   \* min_budget, in ticks
  NoTask

ASSUME PoolAssumption ==
  /\ Depth \in Nat \ {0}
  /\ Full \in {"drop", "wait"}
  /\ Budgets \subseteq Int
  /\ MinBudget \in Nat
  /\ NoTask \notin Tasks
  /\ Submitters \cap Workers = {}
  /\ Sweeper \notin Submitters \cup Workers
  /\ Workers # {} /\ IsFiniteSet(Workers)

VARIABLES
  q,         \* the tasks in p.q; their order is the order of turn
  turn,      \* turn[t]: the value of Accepted when t was appended, 0 if never
  accepted, shed, expired,   \* the three counters
  closing,   \* "open", "stopped" after close(p.stop), "closed" after p.closed
  parked,    \* goroutines inside cond.Wait
  pc,        \* where each goroutine is
  cur,       \* the task a submitter is placing or a worker has popped
  owed,      \* owed[g]: handler calls <<task, reason>> g is about to make
  left,      \* waitLeft(t) - minBudget of a task in flight, in ticks
  timedOut,  \* submitters whose timer callback has run
  stray,     \* timer callbacks that were already running at timer.Stop
  fresh,     \* tasks not yet submitted
  answers    \* answers[t]: the reasons with which the handler was called

vars == <<q, turn, accepted, shed, expired, closing, parked, pc, cur, owed,
          left, timedOut, stray, fresh, answers>>
counts == <<accepted, shed, expired>>
timers == <<timedOut, stray>>

Goroutines == Submitters \cup Workers \cup {Sweeper}
Reasons == {"served", "deadline", "limit"}
Points == {"idle", "collect", "enter", "wait", "pop", "budget", "sweep", "done"}

Init ==
  /\ q = {} /\ turn = [t \in Tasks |-> 0]
  /\ accepted = 0 /\ shed = 0 /\ expired = 0
  /\ closing = "open"
  /\ parked = {}
  /\ pc = [g \in Goroutines |-> IF g \in Submitters THEN "idle"
                                ELSE IF g \in Workers THEN "pop" ELSE "sweep"]
  /\ cur = [g \in Goroutines |-> NoTask]
  /\ owed = [g \in Goroutines |-> {}]
  /\ left = [t \in Tasks |-> 0]
  /\ timedOut = {} /\ stray = {}
  /\ fresh = Tasks
  /\ answers = [t \in Tasks |-> <<>>]

-----------------------------------------------------------------------------
(* Helpers: room, expiry, the condition variable.                          *)

\* The definitions marked Mutant are slips the runs must detect; each stands
\* before the definition it would replace.
RoomForOneMore == Cardinality(q) <= Depth  \* Mutant

Room == Cardinality(q) < Depth

Spent(t) == left[t] < 0

Dead == {t \in q : Spent(t)}

KeepExpired == q  \* Mutant

\* What takeExpiredLocked leaves in the slice.
Kept == q \ Dead

BuryUnanswered(T) == {}  \* Mutant

\* The calls replyDead makes for a set of expired tasks.
Bury(T) == {<<t, "deadline">> : t \in T}

NoBroadcast == UNCHANGED parked  \* Mutant

Broadcast == parked' = {}

\* takeExpiredLocked by g: the expired leave the queue; any removal broadcasts.
TakeExpired(g) ==
  /\ q' = Kept
  /\ owed' = [owed EXCEPT ![g] = Bury(Dead)]
  /\ IF Dead = {} THEN UNCHANGED parked ELSE Broadcast

NoSignal == UNCHANGED parked  \* Mutant

SignalIfEmpty ==  \* Mutant
  IF parked = {} \/ q # {} THEN UNCHANGED parked
  ELSE \E g \in parked : parked' = parked \ {g}

\* cond.Signal wakes one parked goroutine, of either kind, if there is one.
Signal ==
  IF parked = {} THEN UNCHANGED parked
  ELSE \E g \in parked : parked' = parked \ {g}

NeverClosed == TRUE  \* Mutant

\* p.closed is not set.
Accepting == closing # "closed"

QuitAtOnce == ~Accepting  \* Mutant

\* pop returns ok = false: closed, and nothing live is left to drain.
MayQuit == ~Accepting /\ Kept = {}

CountEveryRefusal(reason) ==  \* Mutant
  /\ shed' = IF reason # "served" THEN shed + 1 ELSE shed
  /\ expired' = IF reason = "deadline" THEN expired + 1 ELSE expired

\* Shed and Expired, counted next to the handler call.
Count(reason) ==
  /\ shed' = IF reason = "limit" THEN shed + 1 ELSE shed
  /\ expired' = IF reason = "deadline" THEN expired + 1 ELSE expired

InFlight(t) == t \notin fresh /\ answers[t] = <<>>

-----------------------------------------------------------------------------
(* Submit and submitWaitLocked.                                            *)

\* The deadline starts when Submit stamps the task, not when it was sent.
Submit(s, t) ==
  /\ pc[s] = "idle" /\ owed[s] = {}
  /\ t \in fresh
  /\ fresh' = fresh \ {t}
  /\ \E b \in Budgets :
       /\ left' = [left EXCEPT ![t] = b]
       /\ IF b < 0
          THEN /\ owed' = [owed EXCEPT ![s] = Bury({t})]
               /\ UNCHANGED <<pc, cur>>
          ELSE /\ cur' = [cur EXCEPT ![s] = t]
               /\ pc' = [pc EXCEPT ![s] = "collect"]
               /\ UNCHANGED owed
  /\ UNCHANGED <<q, turn, counts, closing, parked, timers, answers>>

\* replyDead(collectExpired()) before the queue is looked at.
Collect(s) ==
  /\ pc[s] = "collect"
  /\ TakeExpired(s)
  /\ pc' = [pc EXCEPT ![s] = "enter"]
  /\ UNCHANGED <<turn, counts, closing, cur, left, timers, fresh, answers>>

\* s holds the mutex: for the first time, or back from Wait or replyDead.
AtLock(s) ==
  /\ pc[s] \in {"enter", "wait"}
  /\ s \notin parked /\ owed[s] = {}

\* timer.Stop: a callback that is already running is not recalled.
StopTimer(s) ==
  /\ timedOut' = timedOut \ {s}
  /\ \/ UNCHANGED stray
     \/ /\ pc[s] = "wait" /\ s \notin timedOut
        /\ left[cur[s]] <= -MinBudget
        /\ stray' = stray \cup {s}

\* s unlocks and will answer its own task with the given reason.
GiveUp(s, reason) ==
  /\ owed' = [owed EXCEPT ![s] = {<<cur[s], reason>>}]
  /\ cur' = [cur EXCEPT ![s] = NoTask]
  /\ pc' = [pc EXCEPT ![s] = "idle"]
  /\ StopTimer(s)
  /\ UNCHANGED <<q, turn, counts, closing, parked, left, fresh, answers>>

\* The pool is closed: expire(t, 0) whatever time is left.
Reject(s) ==
  /\ AtLock(s)
  /\ ~Accepting
  /\ GiveUp(s, "deadline")

\* enqueueLocked: append, count, signal.
Admit(s) ==
  /\ AtLock(s)
  /\ Accepting /\ Room
  /\ q' = q \cup {cur[s]}
  /\ accepted' = accepted + 1
  /\ turn' = [turn EXCEPT ![cur[s]] = accepted + 1]
  /\ Signal
  /\ cur' = [cur EXCEPT ![s] = NoTask]
  /\ pc' = [pc EXCEPT ![s] = "idle"]
  /\ StopTimer(s)
  /\ UNCHANGED <<shed, expired, closing, owed, left, fresh, answers>>

\* shedLimit: queue_full is drop.
Refuse(s) ==
  /\ AtLock(s)
  /\ Accepting /\ ~Room
  /\ pc[s] = "enter" /\ Full = "drop"
  /\ GiveUp(s, "limit")

\* No time to wait, or the timer fired and there is still no room.
GiveUpWaiting(s) ==
  /\ AtLock(s)
  /\ Accepting /\ ~Room
  /\ \/ pc[s] = "enter" /\ Full = "wait" /\ Spent(cur[s])
     \/ pc[s] = "wait" /\ s \in timedOut
  /\ GiveUp(s, "deadline")

\* One round of the wait loop: bury the expired and look again, or park.
Block(s) ==
  /\ AtLock(s)
  /\ Accepting /\ ~Room
  /\ \/ pc[s] = "enter" /\ Full = "wait" /\ ~Spent(cur[s])
     \/ pc[s] = "wait" /\ s \notin timedOut
  /\ pc' = [pc EXCEPT ![s] = "wait"]
  /\ \/ Dead # {} /\ TakeExpired(s)
     \/ Dead = {} /\ parked' = parked \cup {s} /\ UNCHANGED <<q, owed>>
  /\ UNCHANGED <<turn, counts, closing, cur, left, timers, fresh, answers>>

\* The AfterFunc callback; its delay is waitLeft, minBudget past expiry.
TimerFire(s) ==
  /\ pc[s] = "wait" /\ s \notin timedOut
  /\ left[cur[s]] <= -MinBudget
  /\ timedOut' = timedOut \cup {s}
  /\ Broadcast
  /\ UNCHANGED <<q, turn, counts, closing, pc, cur, owed, left, stray, fresh, answers>>

StrayFire(s) ==
  /\ s \in stray
  /\ stray' = stray \ {s}
  /\ Broadcast
  /\ UNCHANGED <<q, turn, counts, closing, pc, cur, owed, left, timedOut, fresh, answers>>

-----------------------------------------------------------------------------
(* work, pop and budget.                                                   *)

AtPop(w) == pc[w] = "pop" /\ w \notin parked /\ owed[w] = {}

\* A live task is popped; the expired found on the way are answered first.
Take(w) ==
  /\ AtPop(w)
  /\ \E t \in Kept :
       /\ \A u \in Kept : turn[t] <= turn[u]
       /\ cur' = [cur EXCEPT ![w] = t]
       /\ q' = Kept \ {t}
  /\ owed' = [owed EXCEPT ![w] = Bury(Dead)]
  /\ Broadcast
  /\ pc' = [pc EXCEPT ![w] = "budget"]
  /\ UNCHANGED <<turn, counts, closing, left, timers, fresh, answers>>

\* Nothing live is queued: exit if closed, answer the expired, or park.
FindNone(w) ==
  /\ AtPop(w)
  /\ \/ MayQuit /\ TakeExpired(w) /\ pc' = [pc EXCEPT ![w] = "done"]
     \/ Accepting /\ Kept = {} /\ Dead # {} /\ TakeExpired(w) /\ UNCHANGED pc
     \/ Accepting /\ q = {} /\ parked' = parked \cup {w} /\ UNCHANGED <<q, owed, pc>>
  /\ UNCHANGED <<turn, counts, closing, cur, left, timers, fresh, answers>>

\* budget: the deadline is looked at once more before the evaluation.
Budget(w) ==
  /\ pc[w] = "budget" /\ owed[w] = {}
  /\ owed' = [owed EXCEPT ![w] =
                {<<cur[w], IF Spent(cur[w]) THEN "deadline" ELSE "served">>}]
  /\ cur' = [cur EXCEPT ![w] = NoTask]
  /\ pc' = [pc EXCEPT ![w] = "pop"]
  /\ UNCHANGED <<q, turn, counts, closing, parked, left, timers, fresh, answers>>

-----------------------------------------------------------------------------
(* The handler, the sweeper, Close and the clock.                          *)

\* One call of the handler, with the counter that goes with its reason.
Reply(g) ==
  \E call \in owed[g] :
    /\ owed' = [owed EXCEPT ![g] = @ \ {call}]
    /\ answers' = [answers EXCEPT ![call[1]] = Append(@, call[2])]
    /\ left' = [left EXCEPT ![call[1]] = 0]
    /\ Count(call[2])
    /\ UNCHANGED <<q, turn, accepted, closing, parked, pc, cur, timers, fresh>>

\* A tick of the sweeper (one that finds nothing expired changes nothing).
Sweep ==
  /\ pc[Sweeper] = "sweep" /\ owed[Sweeper] = {}
  /\ Dead # {}
  /\ TakeExpired(Sweeper)
  /\ UNCHANGED <<turn, counts, closing, pc, cur, left, timers, fresh, answers>>

SweepStop ==
  /\ pc[Sweeper] = "sweep" /\ owed[Sweeper] = {}
  /\ closing # "open"
  /\ pc' = [pc EXCEPT ![Sweeper] = "done"]
  /\ UNCHANGED <<q, turn, counts, closing, parked, cur, owed, left, timers, fresh, answers>>

\* Close: close(p.stop), then closed and a broadcast under the mutex.
CloseStop ==
  /\ closing = "open"
  /\ closing' = "stopped"
  /\ UNCHANGED <<q, turn, counts, parked, pc, cur, owed, left, timers, fresh, answers>>

CloseMark ==
  /\ closing = "stopped"
  /\ closing' = "closed"
  /\ Broadcast
  /\ UNCHANGED <<q, turn, counts, pc, cur, owed, left, timers, fresh, answers>>

\* wg.Wait returns: the workers and the sweeper have ended.
CloseReturned ==
  /\ closing = "closed"
  /\ \A g \in Workers \cup {Sweeper} : pc[g] = "done" /\ owed[g] = {}

\* Time passes for the tasks in flight, down to where no test tells it apart.
Tick ==
  /\ \E t \in Tasks : InFlight(t) /\ left[t] >= -MinBudget
  /\ left' = [t \in Tasks |-> IF InFlight(t) /\ left[t] >= -MinBudget
                              THEN left[t] - 1 ELSE left[t]]
  /\ UNCHANGED <<q, turn, counts, closing, parked, pc, cur, owed, timers, fresh, answers>>

\* Nothing is left to do: the process exits.
Terminated ==
  /\ CloseReturned /\ fresh = {} /\ \A t \in Tasks : answers[t] # <<>>
  /\ UNCHANGED vars

Place(s) ==
  \/ Collect(s) \/ Reject(s) \/ Admit(s) \/ Refuse(s) \/ GiveUpWaiting(s) \/ Block(s)

Work(w) == Take(w) \/ FindNone(w) \/ Budget(w)

Next ==
  \/ \E s \in Submitters, t \in Tasks : Submit(s, t)
  \/ \E s \in Submitters : Place(s) \/ TimerFire(s) \/ StrayFire(s)
  \/ \E w \in Workers : Work(w)
  \/ \E g \in Goroutines : Reply(g)
  \/ Sweep \/ SweepStop
  \/ CloseStop \/ CloseMark
  \/ Tick \/ Terminated

Spec == Init /\ [][Next]_vars

\* Every goroutine is scheduled, every handler call returns, time passes and
\* the second half of Close follows the first.  Nobody has to submit or close.
Fairness ==
  /\ \A s \in Submitters : WF_vars(Place(s)) /\ WF_vars(TimerFire(s))
  /\ \A w \in Workers : WF_vars(Work(w))
  /\ \A g \in Goroutines : WF_vars(Reply(g))
  /\ WF_vars(Sweep) /\ WF_vars(SweepStop) /\ WF_vars(CloseMark) /\ WF_vars(Tick)

FairSpec == Spec /\ Fairness

-----------------------------------------------------------------------------
(* Properties.                                                             *)

\* The types of the state, and the queue never longer than queue_max
\* (enqueueLocked is only reached with room).
TypeOK ==
  /\ q \subseteq Tasks /\ IsFiniteSet(q) /\ Cardinality(q) <= Depth
  /\ turn \in [Tasks -> Nat]
  /\ accepted \in Nat /\ shed \in Nat /\ expired \in Nat
  /\ closing \in {"open", "stopped", "closed"}
  /\ parked \subseteq Submitters \cup Workers
  /\ pc \in [Goroutines -> Points]
  /\ cur \in [Goroutines -> Tasks \cup {NoTask}]
  /\ owed \in [Goroutines -> SUBSET (Tasks \X Reasons)]
  /\ left \in [Tasks -> Int]
  /\ timedOut \subseteq Submitters /\ stray \subseteq Submitters
  /\ fresh \subseteq Tasks
  /\ answers \in [Tasks -> Seq(Reasons)]

\* No submitter sleeps in submitWaitLocked while the queue has room, and nobody
\* sleeps once the pool is closed: every path that shortens p.q broadcasts, and
\* the Signal of enqueueLocked is enough although both kinds share the condition.
NoSleepOnRoom ==
  /\ parked \cap Submitters # {} => ~Room
  /\ closing = "closed" => parked = {}

\* No wakeup is lost: a task in the queue has a worker that is awake and not
\* gone, so it does not wait for the sweeper or the next Submit.
SomeWorkerAwake ==
  q # {} => \E w \in Workers : w \notin parked /\ pc[w] # "done"

\* Work conservation: while a worker sleeps, at least as many other workers are
\* on their way into pop as there are tasks to be popped.  One Signal per
\* enqueue and a Broadcast per removal give exactly that.
NoIdleWorker ==
  parked \cap Workers # {} =>
    Cardinality(q) <= Cardinality({w \in Workers \ parked : pc[w] = "pop" /\ owed[w] = {}})

Queued(t) == t \in q
Held(t) == \E g \in Goroutines : cur[g] = t
Owed(t) == \E g \in Goroutines, r \in Reasons : <<t, r>> \in owed[g]

\* t is queued, or in the hands of one goroutine, or one call of one goroutine
\* will answer it, never two of these; once answered it is nowhere any more.
OneHolder(t) ==
  /\ InFlight(t) <=> Queued(t) \/ Held(t) \/ Owed(t)
  /\ Queued(t) => ~Held(t) /\ ~Owed(t)
  /\ Held(t) => ~Owed(t)
  /\ \A g, h \in Goroutines :
       /\ cur[g] = t /\ cur[h] = t => g = h
       /\ \A r, u \in Reasons :
            <<t, r>> \in owed[g] /\ <<t, u>> \in owed[h] => g = h /\ r = u

\* The handler is called exactly once per task, whichever of the submitter, the
\* workers and the sweeper finds it and however their removals interleave.
AnsweredOnce == \A t \in Tasks : Len(answers[t]) <= 1 /\ OneHolder(t)

\* When Close returns, the queue is empty and every accepted task was answered,
\* but for those that a submitter found expired: it answers them on its own
\* goroutine, which Close does not wait for (queue.go:94, 137-141, 233-240).
DrainedByClose ==
  CloseReturned =>
    /\ q = {}
    /\ \A t \in Tasks : turn[t] # 0 =>
         answers[t] # <<>> \/ \E s \in Submitters : <<t, "deadline">> \in owed[s]

\* The counters agree with the answers: Shed and Expired count what was refused,
\* Accepted what entered the queue, in both the direct and the waiting path.
CountersAgree ==
  /\ shed = Cardinality({t \in Tasks : answers[t] = <<"limit">>})
  /\ expired = Cardinality({t \in Tasks : answers[t] = <<"deadline">>})
  /\ accepted = Cardinality({t \in Tasks : turn[t] # 0})
  /\ \A t \in Tasks : answers[t] = <<"served">> => turn[t] # 0
  /\ \A t \in Tasks : answers[t] = <<"limit">> => turn[t] = 0

\* Every submitted task is answered, also by a pool that is closing and also if
\* it waits for room: the timer, the sweeper and the broadcasts see to it.
EveryTaskAnswered == \A t \in Tasks : t \notin fresh ~> answers[t] # <<>>

\* Close returns: wg.Wait is not stuck on a worker that nobody wakes.
CloseEnds == closing = "closed" ~> CloseReturned

-----------------------------------------------------------------------------
(* The pool implements Dispatch.                                           *)

\* The stage of a task, read off who holds it.
Stage(t) ==
  CASE t \in fresh                      -> "new"
    [] answers[t] # <<>>                -> "answered"
    [] InFlight(t) /\ t \in q           -> "line"
    [] InFlight(t) /\ t \notin q /\ (\E s \in Submitters : cur[s] = t) -> "offered"
    [] OTHER                            -> "leaving"

Promise == INSTANCE Dispatch WITH
  stage <- [t \in Tasks |-> Stage(t)],
  entered <- {t \in Tasks : turn[t] # 0},
  open <- closing # "closed"

\* Every step of the goroutines is a step of Dispatch or invisible there: what
\* leaves the queue was in it, nobody is accepted twice, beyond queue_max or
\* after closed, and each request gets one answer that fits its history.
ImplementsDispatch == Promise!Spec

-----------------------------------------------------------------------------
(* What the proofs add to make the properties inductive.                   *)

\* A goroutine holds a task exactly while it places or evaluates one, and a
\* submitter enters collectExpired with nothing left to answer.
Placement ==
  /\ \A s \in Submitters :
       /\ pc[s] \in {"idle", "collect", "enter", "wait"}
       /\ pc[s] = "idle" <=> cur[s] = NoTask
       /\ pc[s] = "collect" => owed[s] = {}
  /\ \A w \in Workers :
       /\ pc[w] \in {"pop", "budget", "done"}
       /\ pc[w] = "budget" <=> cur[w] # NoTask
  /\ pc[Sweeper] \in {"sweep", "done"} /\ cur[Sweeper] = NoTask

\* A worker that has ended left a closed pool with an empty queue.
DoneIsDrained ==
  \A w \in Workers : pc[w] = "done" => closing = "closed" /\ q = {}

\* No call of the handler precedes the call of Submit.
FreshUnanswered == \A t \in fresh : answers[t] = <<>>
=============================================================================
