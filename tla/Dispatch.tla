------------------------------ MODULE Dispatch ------------------------------
(***************************************************************************)
(* What the worker pool promises, with no goroutines, mutex or clock: a    *)
(* request is offered once, may be accepted into a line of bounded length  *)
(* while the pool is open, leaves the offer or the line, and is answered   *)
(* once.  An evaluation is the answer of an accepted request only; the     *)
(* refusal CAPTCHA_QUEUE_LIMIT is never the answer of an accepted one.     *)
(***************************************************************************)
EXTENDS Integers, Sequences, FiniteSets

CONSTANTS Tasks, Depth

VARIABLES
  stage,    \* stage[t]: "new", "offered", "line", "leaving" or "answered"
  entered,  \* the tasks that were accepted at some time
  open,     \* FALSE once the pool takes no more
  answers   \* answers[t]: the answers sent for t

vars == <<stage, entered, open, answers>>

Line == {t \in Tasks : stage[t] = "line"}

Init ==
  /\ stage = [t \in Tasks |-> "new"]
  /\ entered = {}
  /\ open = TRUE
  /\ answers = [t \in Tasks |-> <<>>]

\* A request arrives; one that comes too late leaves at once.
Offer(t) ==
  /\ stage[t] = "new"
  /\ \E to \in {"offered", "leaving"} : stage' = [stage EXCEPT ![t] = to]
  /\ UNCHANGED <<entered, open, answers>>

Accept(t) ==
  /\ open
  /\ stage[t] = "offered" /\ Cardinality(Line) < Depth
  /\ stage' = [stage EXCEPT ![t] = "line"]
  /\ entered' = entered \cup {t}
  /\ UNCHANGED <<open, answers>>

\* Some tasks leave the line, or one gives up its offer.
Leave(T) ==
  /\ T # {}
  /\ T \subseteq Line \/ \E t \in Tasks : T = {t} /\ stage[t] = "offered"
  /\ stage' = [t \in Tasks |-> IF t \in T THEN "leaving" ELSE stage[t]]
  /\ UNCHANGED <<entered, open, answers>>

Answer(t, reason) ==
  /\ stage[t] = "leaving"
  /\ reason = "served" => t \in entered
  /\ reason = "limit" => t \notin entered
  /\ stage' = [stage EXCEPT ![t] = "answered"]
  /\ answers' = [answers EXCEPT ![t] = Append(@, reason)]
  /\ UNCHANGED <<entered, open>>

Shut ==
  /\ open
  /\ open' = FALSE
  /\ UNCHANGED <<stage, entered, answers>>

Next ==
  \/ \E t \in Tasks : Offer(t) \/ Accept(t)
  \/ \E T \in SUBSET Tasks : Leave(T)
  \/ \E t \in Tasks, reason \in {"served", "deadline", "limit"} : Answer(t, reason)
  \/ Shut

Spec == Init /\ [][Next]_vars
=============================================================================
