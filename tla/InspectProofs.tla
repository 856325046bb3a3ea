--------------------------- MODULE InspectProofs ---------------------------
(***************************************************************************)
(* The gate around the decision: for any messages, profiles, worlds and    *)
(* failures, nobody passes without cause, whoever is cleared passes, what  *)
(* fills a bucket is asked, a stopped process has flushed its records, a   *)
(* failed call costs one list at most, of the audit records none vanishes  *)
(* and none of a subject overtakes another, and the types are right.       *)
(*                                                                         *)
(* The first three follow from one invariant: an answer a worker gives is  *)
(* an error, or the verdict of Check over what this request read, whatever *)
(* the rounds of event rules and the failures of their calls do to it.     *)
(***************************************************************************)
EXTENDS Inspect, DecideProofs, SequenceTheorems, FiniteSetTheorems

LEMMA SceneOK ==
  ASSUME NEW s \in Scenes, NEW t \in DOMAIN s.msg
  PROVE  LET p == s.msg[t].profile  c == s.msg[t].headers.clearance IN
         /\ t \in Requests
         /\ p # None => ValidProfile(p) /\ p.grace \in Nat
         /\ c # None => c.expiry \in Nat /\ c.issued \in Nat
BY InspectAssumption DEF Numbered

-----------------------------------------------------------------------------
(* The invariant.                                                          *)

FieldNames == {"pc", "by", "fill", "geo", "over", "h", "lost", "asked", "opened", "levels", "felt",
               "res", "asks", "audit", "at", "wrote", "seen"}

Fields(w) == w = [f \in FieldNames |-> w[f]]

Shape ==
  /\ scene \in Scenes /\ now \in Nat
  /\ work = [t \in Requests |-> work[t]]
  /\ \A t \in Requests : Fields(work[t])

\* The clearance was opened against the world of one moment.
OpenedAs(t, w) ==
  /\ w.h \in {NoHeaders, scene.msg[t].headers} /\ w.at \in Nat
  /\ w.opened = Open(Profile(t), scene.msg[t].q, w.h, w.at, w.seen)

\* What was read of the buckets is what they held: the session always, the
\* others unless the clearance opened.
ReadAs(w) ==
  /\ \A k \in DOMAIN w.levels : k \in Kinds => k \in DOMAIN w.felt /\ w.levels[k] = w.felt[k]
  /\ "sess" \in DOMAIN w.felt => "sess" \in DOMAIN w.levels
  /\ w.opened.clearance = None => \A k \in DOMAIN w.felt : k \in DOMAIN w.levels

InputOf(t, w) ==
  [profile |-> Profile(t), q |-> scene.msg[t].q, h |-> w.h, now |-> w.at, lost |-> w.lost,
   asked |-> w.asked, levels |-> w.levels, opened |-> w.opened]

\* The answer is that of Check, or a redirect in place of its inline page.
CheckedAs(t, w) ==
  LET c == Check(InputOf(t, w)) IN
  \/ w.res = c
  \/ c.inline /\ w.res = [c EXCEPT !.verdict = "redirect", !.inline = FALSE]

Broken(w) == w.res.verdict = "error" /\ w.res.code \in Failures

Sound(t, w) ==
  /\ w.pc # "fresh" => t \in Messages
  /\ w.pc \in {"fresh", "arriving", "waiting"} => w.by = "callback"
  /\ w.pc = "queued" => w.by = "pool"
  /\ On(t) /\ w.by = "worker" /\ w.seen # None =>
       /\ w.pc = "judge" => OpenedAs(t, w)
       /\ w.pc \in {"full", "client", "overload", "send"} =>
            Broken(w) \/ (OpenedAs(t, w) /\ ReadAs(w) /\ CheckedAs(t, w))

IInv == Shape /\ \A t \in Requests : Sound(t, work[t])

-----------------------------------------------------------------------------
(* Steps that change one request.                                          *)

LEMMA OneChanges ==
  ASSUME IInv, NEW t \in Messages, NEW w, Become(t, w), Fields(w), Sound(t, w),
         t \in Requests, scene' = scene, now' = now
  PROVE  IInv'
<1>1. /\ work' = [u \in Requests |-> IF u = t THEN w ELSE work[u]]
      /\ \A u \in Requests : work'[u] = IF u = t THEN w ELSE work[u]
  BY DEF IInv, Shape, Become
<1>2. Shape'
  BY <1>1 DEF IInv, Shape, Fields
<1>3. ASSUME NEW u \in Requests
      PROVE  Sound(u, work[u])'
  <2>1. Sound(u, work'[u])
    BY <1>1 DEF IInv
  <2> QED BY <2>1 DEF Sound, OpenedAs, CheckedAs, InputOf, Messages, Profile, On,
                       ReadAs, Broken
<1> QED BY <1>2, <1>3 DEF IInv

\* Some queued requests become the callback's.
CollectedOf(w) == [Failed(w, "DEADLINE") EXCEPT !.by = "callback"]
ArrivedOf(w) == [w EXCEPT !.pc = "arriving"]

LEMMA MessageIsRequest ==
  ASSUME IInv, NEW t \in Messages
  PROVE  t \in Requests
BY SceneOK DEF IInv, Shape, Messages

LEMMA OwnFields ==
  ASSUME IInv, NEW t \in Messages
  PROVE  /\ t \in Requests /\ Fields(work[t]) /\ Sound(t, work[t])
         /\ \A w : Become(t, w) => work'[t] = w
BY MessageIsRequest DEF IInv, Shape, Become

LEMMA SetOne ==
  ASSUME NEW w, Fields(w), NEW f \in FieldNames, NEW a
  PROVE  LET v == [w EXCEPT ![f] = a] IN
         Fields(v) /\ v[f] = a /\ \A g \in FieldNames \ {f} : v[g] = w[g]
BY DEF Fields

LEMMA FailedFields ==
  ASSUME NEW w, Fields(w), NEW code
  PROVE  /\ Fields(Failed(w, code)) /\ Fields(Fallback(w, code))
         /\ \A f \in {Failed(w, code), Fallback(w, code)} :
              /\ f.pc = "send" /\ f.by = w.by /\ f.seen = w.seen
              /\ f.res.verdict = "error" /\ f.res.code = code
<1> DEFINE r == Result("error", code)
<1>1. r.verdict = "error" /\ r.code = code
  BY DEF Result
<1> HIDE DEF r
<1> DEFINE v == Answer(w, r, TRUE)
<1>2. Fields(v) /\ v.pc = "send" /\ v.res = r /\ v.by = w.by /\ v.seen = w.seen
  BY DEF Answer, Fields, FieldNames
<1>3. Failed(w, code) = [v EXCEPT !.asks = << >>]
  BY DEF Failed, r
<1> HIDE DEF v
<1> DEFINE x == Failed(w, code)
<1>4. Fields(x) /\ x.pc = "send" /\ x.res = r /\ x.by = w.by /\ x.seen = w.seen
  BY <1>2, <1>3 DEF Fields, FieldNames
<1>5. Fallback(w, code) = [x EXCEPT !.audit = FALSE]
  BY DEF Fallback
<1> HIDE DEF x
<1> DEFINE y == Fallback(w, code)
<1>6. Fields(y) /\ y.pc = "send" /\ y.res = r /\ y.by = w.by /\ y.seen = w.seen
  BY <1>4, <1>5 DEF Fields, FieldNames
<1> QED BY <1>1, <1>4, <1>6 DEF x

\* An answer that failed is sound, for whichever request a worker has.
LEMMA FailedSound ==
  ASSUME NEW t \in Messages, NEW w, Fields(w),
         NEW code, w.by = "worker" => code \in Failures
  PROVE  Sound(t, Failed(w, code)) /\ Sound(t, Fallback(w, code))
BY FailedFields DEF Sound, Broken

LEMMA DoneFields ==
  ASSUME NEW w
  PROVE  Fields(Done(w)) /\ Done(w).pc = "done" /\ Done(w).by = w.by
<1>1. Fields(Fresh)
  BY DEF Fresh, Fields, FieldNames
<1> QED BY <1>1 DEF Done, Fields, FieldNames

LEMMA DoneSound ==
  ASSUME NEW t \in Messages, NEW w
  PROVE  Fields(Done(w)) /\ Sound(t, Done(w))
BY DoneFields DEF Sound

-----------------------------------------------------------------------------
(* The callback and the pool. *)

LEMMA RejectStep ==
  ASSUME IInv, NEW t \in Messages, Reject(t)
  PROVE  IInv'
<1> DEFINE why == scene.msg[t].wrong
           w == IF why = "MALFORMED" THEN Fallback(work[t], why) ELSE Failed(work[t], why)
<1>1. t \in Requests /\ Fields(work[t]) /\ work[t].by # "worker"
  BY OwnFields DEF Reject, At, Sound
<1>2. Fields(w) /\ Sound(t, w)
  BY <1>1, FailedFields, FailedSound
<1>3. Become(t, w)
  BY DEF Reject
<1> QED BY <1>1, <1>2, <1>3, OneChanges DEF Reject, Quiet, env

LEMMA CollectedFields ==
  ASSUME NEW w, Fields(w)
  PROVE  LET v == CollectedOf(w)  a == ArrivedOf(w) IN
         /\ Fields(v) /\ v.pc = "send" /\ v.by = "callback"
         /\ Fields(a) /\ a.pc = "arriving" /\ a.by = w.by
<1> DEFINE f == Failed(w, "DEADLINE")
<1>1. Fields(f) /\ f.pc = "send"
  BY FailedFields
<1> HIDE DEF f
<1> DEFINE v == [f EXCEPT !.by = "callback"]
<1>2. Fields(v) /\ v.pc = "send" /\ v.by = "callback"
  BY <1>1 DEF Fields, FieldNames
<1>3. v = CollectedOf(w)
  BY DEF CollectedOf, f
<1>4. LET a == ArrivedOf(w) IN Fields(a) /\ a.pc = "arriving" /\ a.by = w.by
  BY DEF ArrivedOf, Fields, FieldNames
<1> QED BY <1>2, <1>3, <1>4

\* What a submission does to each request: it may be the one that arrives, or a
\* queued one that was found expired.
LEMMA CollectIs ==
  ASSUME IInv, NEW t \in Messages, NEW dead \in SUBSET Requests, Collect(t, dead)
  PROVE  /\ t \in Requests
         /\ work' = [u \in Requests |-> work'[u]]
         /\ \A u \in Requests :
              \/ work'[u] = work[u]
              \/ u = t /\ work[u].pc = "fresh" /\ work'[u] = ArrivedOf(work[u])
              \/ work[u].pc = "queued" /\ work'[u] = CollectedOf(work[u])
<1>1. t \in Requests
  BY MessageIsRequest
<1>2. work' = [u \in Requests |->
         IF u = t /\ work[t].pc = "fresh" THEN ArrivedOf(work[t])
         ELSE IF u \in dead THEN CollectedOf(work[u]) ELSE work[u]]
  BY DEF Collect, ArrivedOf, CollectedOf
<1>3. \A u \in dead : work[u].pc = "queued"
  BY DEF Collect, At
<1> HIDE DEF ArrivedOf, CollectedOf
<1> QED BY <1>1, <1>2, <1>3

LEMMA CollectStep ==
  ASSUME IInv, NEW t \in Messages, NEW dead \in SUBSET Requests, Collect(t, dead)
  PROVE  IInv'
<1>1. scene' = scene /\ now' = now
  BY DEF Collect, Quiet, env
<1>2. ASSUME NEW u \in Requests
      PROVE  Fields(work'[u]) /\ Sound(u, work'[u])
  <2>1. Fields(work[u]) /\ Sound(u, work[u])
    BY DEF IInv, Shape
  <2>2. /\ Fields(ArrivedOf(work[u])) /\ ArrivedOf(work[u]).pc = "arriving"
        /\ ArrivedOf(work[u]).by = work[u].by
        /\ Fields(CollectedOf(work[u])) /\ CollectedOf(work[u]).pc = "send"
        /\ CollectedOf(work[u]).by = "callback"
    BY <2>1, CollectedFields
  <2>3. CASE work'[u] = work[u]
    BY <2>1, <2>3
  <2>4. CASE u = t /\ work[u].pc = "fresh" /\ work'[u] = ArrivedOf(work[u])
    BY <2>1, <2>2, <2>4 DEF Sound
  <2>5. CASE work[u].pc = "queued" /\ work'[u] = CollectedOf(work[u])
    BY <2>1, <2>2, <2>5 DEF Sound
  <2> QED BY <2>3, <2>4, <2>5, CollectIs
<1>3. Shape'
  BY <1>1, <1>2, CollectIs DEF IInv, Shape, Fields
<1>4. ASSUME NEW u \in Requests
      PROVE  Sound(u, work[u])'
  BY <1>1, <1>2 DEF Sound, OpenedAs, CheckedAs, InputOf, Messages, Profile, On, ReadAs, Broken
<1> QED BY <1>3, <1>4 DEF IInv

LEMMA PoolStep ==
  ASSUME IInv, NEW t \in Messages,
         \/ Submit(t) \/ Wait(t) \/ Refuse(t) \/ TooLate(t)
         \/ Expire(t) \/ Begin(t) \/ Panic(t)
  PROVE  IInv'
<1>1. t \in Requests /\ Fields(work[t]) /\ Sound(t, work[t])
  BY OwnFields
<1>2. ASSUME NEW w, Become(t, w), Fields(w), Sound(t, w), Quiet
      PROVE  IInv'
  BY <1>1, <1>2, OneChanges DEF Quiet, env
<1>3. CASE Submit(t)
  <2> DEFINE fill == FillOf(t)
             w == [work[t] EXCEPT !.pc = "queued", !.by = "pool", !.fill = fill]
  <2>1. Fields(w) /\ w.pc = "queued" /\ w.by = "pool"
    <3> HIDE DEF fill
    <3> QED BY <1>1 DEF Fields, FieldNames
  <2>2. Sound(t, w)
    BY <2>1 DEF Sound
  <2> QED BY <1>2, <1>3, <2>1, <2>2 DEF Submit
<1>4. CASE Refuse(t)
  <2> DEFINE f == Failed(work[t], "QUEUE_LIMIT")
             fill == FillOf(t)
             over == Overloading(t, fill, TRUE)
  <2>1. PICK g \in scene.geo :
          Become(t, [f EXCEPT !.pc = "overload", !.geo = g, !.fill = fill, !.over = over])
    BY <1>4 DEF Refuse
  <2> DEFINE w == [f EXCEPT !.pc = "overload", !.geo = g, !.fill = fill, !.over = over]
  <2>2. Fields(f) /\ f.by # "worker"
    <3>1. work[t].by # "worker"
      BY <1>1, <1>4 DEF Refuse, At, Sound
    <3> QED BY <1>1, <3>1, FailedFields
  <2> HIDE DEF f, fill, over
  <2>3. Fields(w) /\ w.pc = "overload" /\ w.by # "worker"
    BY <2>2 DEF Fields, FieldNames
  <2>4. Sound(t, w)
    BY <2>3 DEF Sound
  <2> QED BY <1>2, <1>4, <2>1, <2>3, <2>4 DEF Refuse
<1>8. CASE Wait(t)
  <2> DEFINE w == [work[t] EXCEPT !.pc = "waiting"]
  <2>1. Fields(w) /\ w.pc = "waiting" /\ w.by = "callback"
    BY <1>1, <1>8 DEF Fields, FieldNames, Wait, At, Sound
  <2>2. Sound(t, w)
    BY <2>1 DEF Sound
  <2> QED BY <1>2, <1>8, <2>1, <2>2 DEF Wait
<1>9. CASE TooLate(t)
  <2>1. Fields(Failed(work[t], "DEADLINE")) /\ Sound(t, Failed(work[t], "DEADLINE"))
    BY <1>1, FailedFields, FailedSound DEF Failures
  <2> QED BY <1>2, <1>9, <2>1 DEF TooLate
<1>5. CASE Expire(t)
  <2>1. Fields(Failed(work[t], "DEADLINE")) /\ Sound(t, Failed(work[t], "DEADLINE"))
    BY <1>1, FailedFields, FailedSound DEF Failures
  <2> QED BY <1>2, <1>5, <2>1 DEF Expire
<1>6. CASE Panic(t)
  <2>1. Fields(Recovered(work[t])) /\ Sound(t, Recovered(work[t]))
    BY <1>1, FailedFields, FailedSound DEF Failures, Recovered
  <2> QED BY <1>2, <1>6, <2>1 DEF Panic
<1>7. CASE Begin(t)
  <2> DEFINE over == Overloading(t, work[t].fill, FALSE)
             w == [work[t] EXCEPT !.pc = "fetch", !.by = "worker", !.over = over]
  <2>1. Fields(w) /\ w.pc = "fetch"
    <3> HIDE DEF over
    <3> QED BY <1>1 DEF Fields, FieldNames
  <2>2. Sound(t, w)
    BY <2>1 DEF Sound
  <2> QED BY <1>2, <1>7, <2>1, <2>2 DEF Begin
<1> QED BY <1>3, <1>4, <1>5, <1>6, <1>7, <1>8, <1>9

-----------------------------------------------------------------------------
(* The evaluation. *)

LEMMA FetchStep ==
  ASSUME IInv, NEW t \in Messages, Fetch(t)
  PROVE  IInv'
<1>1. t \in Requests /\ Fields(work[t])
  BY OwnFields
<1>2. ASSUME NEW w, Become(t, w), Fields(w), Sound(t, w), Quiet
      PROVE  IInv'
  BY <1>1, <1>2, OneChanges DEF Quiet, env
<1>3. ASSUME ~On(t), Become(t, [work[t] EXCEPT !.pc = "judge"])
      PROVE  IInv'
  <2> DEFINE w == [work[t] EXCEPT !.pc = "judge"]
  <2>1. Fields(w) /\ w.pc = "judge"
    BY <1>1 DEF Fields, FieldNames
  <2>2. Sound(t, w)
    BY <2>1, <1>3 DEF Sound
  <2> QED BY <1>2, <1>3, <2>1, <2>2 DEF Fetch
<1>4. ASSUME NEW h \in {NoHeaders, scene.msg[t].headers}, NEW gone, NEW g,
             Become(t, Fetched(work[t], t, h, gone, g))
      PROVE  IInv'
  <2> DEFINE o == Open(Profile(t), scene.msg[t].q, h, now, world)
             a == PriorAsk(scene.msg[t].prior, Profile(t))
             w == Fetched(work[t], t, h, gone, g)
  <2>1. w = [work[t] EXCEPT !.pc = "judge", !.h = h, !.lost = gone, !.at = now, !.geo = g,
                            !.asked = a, !.opened = o, !.seen = world]
    BY DEF Fetched, Profile
  <2> HIDE DEF w, a, o
  <2>2. /\ Fields(w) /\ w.pc = "judge" /\ w.h = h /\ w.at = now
        /\ w.opened = o /\ w.seen = world
    BY <1>1, <2>1 DEF Fields, FieldNames
  <2>3. Sound(t, w)
    BY <2>2 DEF Sound, OpenedAs, o, IInv, Shape
  <2> QED BY <1>2, <1>4, <2>2, <2>3 DEF Fetch, w
<1>5. ASSUME Become(t, Failed(work[t], "STORE_UNAVAILABLE"))
      PROVE  IInv'
  <2>1. /\ Fields(Failed(work[t], "STORE_UNAVAILABLE"))
        /\ Sound(t, Failed(work[t], "STORE_UNAVAILABLE"))
    BY <1>1, FailedFields, FailedSound DEF Failures
  <2> QED BY <1>2, <1>5, <2>1 DEF Fetch
<1> QED BY <1>3, <1>4, <1>5 DEF Fetch

LEMMA JudgeStep ==
  ASSUME IInv, NEW t \in Messages, Judge(t)
  PROVE  IInv'
<1> DEFINE w == work[t]
           after == Charged(t, w, w.asked.notes)
           Levels(kinds) == [k \in Keyed(t, w, kinds) |-> after[RefOf(t, w, k)]]
           levels == Levels(DOMAIN w.asked.notes \cup ReadsOf(w))
           felt == Levels(Kinds)
           res == Check(Input(t, levels))
<1>1. t \in Requests /\ Fields(w) /\ Sound(t, w) /\ w.pc = "judge"
  BY OwnFields DEF Judge, At
<1>2. ASSUME NEW v, Become(t, v), Fields(v), Sound(t, v)
      PROVE  IInv'
  BY <1>1, <1>2, OneChanges DEF Judge
<1>3. /\ \A k \in DOMAIN levels : k \in Kinds => k \in DOMAIN felt /\ levels[k] = felt[k]
      /\ "sess" \in DOMAIN felt => "sess" \in DOMAIN levels
      /\ w.opened.clearance = None => \A k \in DOMAIN felt : k \in DOMAIN levels
  BY DEF Keyed, ReadsOf, Kinds
<1>4. ASSUME NEW g, Judged(t, levels, felt, g)
      PROVE  IInv'
  <2> DEFINE next == [w EXCEPT !.pc = IF On(t) THEN "full" ELSE "send", !.geo = g,
                               !.res = res, !.audit = TRUE, !.levels = levels, !.felt = felt]
             v == [next EXCEPT !.res.verdict = "redirect", !.res.inline = FALSE]
  <2>1. /\ Fields(next) /\ next.pc \in {"full", "send"} /\ next.by = w.by /\ next.seen = w.seen
        /\ next.h = w.h /\ next.at = w.at /\ next.lost = w.lost /\ next.asked = w.asked
        /\ next.opened = w.opened /\ next.levels = levels /\ next.felt = felt
        /\ next.res = res
    <3> HIDE DEF levels, felt, res
    <3> QED BY <1>1 DEF Fields, FieldNames
  <2>2. Input(t, levels) = InputOf(t, next)
    <3> HIDE DEF levels, next
    <3> QED BY <2>1 DEF Input, InputOf, OpenedOnce
  <2>3. Become(t, next) \/ (res.inline /\ Become(t, v))
    BY <1>4 DEF Judged
  <2> HIDE DEF levels, felt, res, next
  <2>4. On(t) /\ w.by = "worker" /\ w.seen # None => OpenedAs(t, next) /\ ReadAs(next)
    BY <1>1, <1>3, <2>1 DEF Sound, OpenedAs, ReadAs
  <2>5. CheckedAs(t, next)
    BY <2>1, <2>2 DEF CheckedAs, res
  <2>6. CASE Become(t, next)
    <3>1. Sound(t, next)
      BY <2>1, <2>4, <2>5 DEF Sound
    <3> QED BY <1>2, <2>1, <2>6, <3>1
  <2>7. CASE res.inline /\ Become(t, v)
    <3>1. /\ Fields(v) /\ v.res = [next.res EXCEPT !.verdict = "redirect", !.inline = FALSE]
          /\ \A f \in FieldNames \ {"res"} : v[f] = next[f]
      BY <2>1 DEF Fields, FieldNames
    <3> HIDE DEF v
    <3>2. InputOf(t, v) = InputOf(t, next)
      BY <3>1 DEF InputOf, FieldNames
    <3>3. CheckedAs(t, v)
      BY <2>1, <2>2, <2>7, <3>1, <3>2 DEF CheckedAs, res
    <3>4. Sound(t, v)
      BY <2>1, <2>4, <3>1, <3>3 DEF Sound, OpenedAs, ReadAs, FieldNames
    <3> QED BY <1>2, <2>7, <3>1, <3>4
  <2> QED BY <2>3, <2>6, <2>7
<1>5. ASSUME Become(t, Failed(w, "BUCKETS_UNAVAILABLE"))
      PROVE  IInv'
  <2>1. /\ Fields(Failed(w, "BUCKETS_UNAVAILABLE"))
        /\ Sound(t, Failed(w, "BUCKETS_UNAVAILABLE"))
    BY <1>1, FailedFields, FailedSound DEF Failures
  <2> QED BY <1>2, <1>5, <2>1
<1> QED BY <1>4, <1>5 DEF Judge

LEMMA AfterPoints ==
  ASSUME NEW point \in {"full", "client", "overload"}
  PROVE  After(point) \in {"client", "overload", "send"}
BY DEF After

\* A round leaves the answer, and what it was made from, as it is.
LEMMA FiredSound ==
  ASSUME IInv, NEW t \in Messages, work[t].pc \in {"full", "client", "overload"},
         NEW v, Fields(v), v.pc \in {"client", "overload", "send"},
         \A g \in FieldNames \ {"pc", "asks", "wrote"} : v[g] = work[t][g]
  PROVE  Sound(t, v)
<1>1. Sound(t, work[t])
  BY OwnFields
<1>2. /\ v.by = work[t].by /\ v.seen = work[t].seen /\ v.h = work[t].h /\ v.at = work[t].at
      /\ v.opened = work[t].opened /\ v.levels = work[t].levels /\ v.felt = work[t].felt
      /\ v.res = work[t].res /\ v.lost = work[t].lost /\ v.asked = work[t].asked
  BY DEF FieldNames
<1>3. InputOf(t, v) = InputOf(t, work[t])
  BY <1>2 DEF InputOf
<1> QED BY <1>1, <1>2, <1>3 DEF Sound, OpenedAs, ReadAs, CheckedAs, Broken

LEMMA FireStep ==
  ASSUME IInv, NEW t \in Messages, Fire(t)
  PROVE  IInv'
<1> DEFINE w == work[t]
           rules == EffectsOf(t)
<1>1. t \in Requests /\ Fields(w) /\ w.pc \in {"full", "client", "overload"}
  BY OwnFields DEF Fire, At
<1>2. ASSUME NEW v, Become(t, v), Fields(v), Sound(t, v)
      PROVE  IInv'
  BY <1>1, <1>2, OneChanges DEF Fire
<1>3. ASSUME NEW some, Become(t, Fired(w, rules, some))
      PROVE  IInv'
  <2> DEFINE v == Fired(w, rules, some)
             asks == Asks(rules)
             made == {rules[i] : i \in some}
             next == After(w.pc)
  <2>1. v = [w EXCEPT !.pc = next, !.asks = @ \o asks, !.wrote = @ \cup made]
    BY DEF Fired
  <2>2. next \in {"client", "overload", "send"}
    BY <1>1, AfterPoints
  <2> HIDE DEF v, asks, made, next
  <2>3. /\ Fields(v) /\ v.pc = next
        /\ \A g \in FieldNames \ {"pc", "asks", "wrote"} : v[g] = w[g]
    BY <1>1, <2>1 DEF Fields, FieldNames
  <2>4. Sound(t, v)
    BY <1>1, <2>2, <2>3, FiredSound
  <2> QED BY <1>2, <1>3, <2>3, <2>4 DEF v
<1>4. ASSUME NEW i, Become(t, GeoFailed(w, rules, i))
      PROVE  IInv'
  <2> DEFINE v == GeoFailed(w, rules, i)
             made == {rules[j] : j \in {j \in Writes(rules, w) : j < i}}
  <2>1. CASE w.by = "callback"
    <3>1. v = [[w EXCEPT !.pc = "send"] EXCEPT !.wrote = @ \cup made]
      BY <2>1 DEF GeoFailed
    <3> HIDE DEF v, made
    <3>2. /\ Fields(v) /\ v.pc = "send"
          /\ \A g \in FieldNames \ {"pc", "asks", "wrote"} : v[g] = w[g]
      BY <1>1, <3>1 DEF Fields, FieldNames
    <3>3. Sound(t, v)
      BY <1>1, <3>2, FiredSound
    <3> QED BY <1>2, <1>4, <3>2, <3>3 DEF v
  <2>2. CASE w.by # "callback"
    <3> DEFINE f == Failed(w, "GEO_UNAVAILABLE")
    <3>1. v = [f EXCEPT !.wrote = @ \cup made]
      BY <2>2 DEF GeoFailed
    <3>2. Fields(f) /\ Sound(t, f) /\ f.pc = "send" /\ Broken(f)
      BY <1>1, FailedFields, FailedSound DEF Failures, Broken
    <3> HIDE DEF v, made, f
    <3>3. Fields(v) /\ \A g \in FieldNames \ {"wrote"} : v[g] = f[g]
      BY <3>1, <3>2 DEF Fields, FieldNames
    <3>4. Sound(t, v)
      BY <3>2, <3>3 DEF Sound, Broken, FieldNames
    <3> QED BY <1>2, <1>4, <3>3, <3>4 DEF v
  <2> QED BY <2>1, <2>2
<1> QED BY <1>3, <1>4 DEF Fire

LEMMA SendStep ==
  ASSUME IInv, NEW t \in Messages, Send(t) \/ Record(t)
  PROVE  IInv'
<1> DEFINE w == work[t]
           recorded == [w EXCEPT !.pc = "audit"]
<1>1. t \in Requests /\ Fields(w)
  BY OwnFields
<1>2. ASSUME NEW v \in {recorded, Done(w)}, Become(t, v)
      PROVE  IInv'
  <2>1. Fields(recorded) /\ recorded.pc = "audit"
    BY <1>1 DEF Fields, FieldNames
  <2>2. Sound(t, recorded)
    BY <2>1 DEF Sound
  <2>3. Fields(v) /\ Sound(t, v)
    BY <2>1, <2>2, DoneSound
  <2>4. scene' = scene /\ now' = now
    BY DEF Send, Record, env
  <2> QED BY <1>1, <1>2, <2>3, <2>4, OneChanges
<1> QED BY <1>2 DEF Send, Record

-----------------------------------------------------------------------------

LEMMA StartInvariant == Init => IInv
<1> SUFFICES ASSUME Init
             PROVE  IInv
  OBVIOUS
<1>1. Fields(Fresh)
  BY DEF Fresh, Fields, FieldNames
<1>2. Shape
  BY <1>1 DEF Init, Shape
<1>3. \A t \in Requests : work[t].pc = "fresh" /\ work[t].by = "callback"
  BY DEF Init, Fresh
<1> QED BY <1>2, <1>3 DEF IInv, Sound

LEMMA OtherSteps ==
  ASSUME IInv,
         \/ Flush \/ PublishGroup \/ Drain \/ PoolClosed \/ SinkClosed \/ Turn
         \/ UNCHANGED vars
  PROVE  IInv'
<1>1. scene' = scene /\ work' = work /\ now' \in Nat
  BY DEF Flush, PublishGroup, Drain, PoolClosed, SinkClosed, Turn, env, vars, IInv, Shape
<1>2. Shape'
  BY <1>1 DEF IInv, Shape, Fields
<1>3. ASSUME NEW t \in Requests
      PROVE  Sound(t, work[t])'
  <2>1. Sound(t, work[t])
    BY DEF IInv
  <2> QED BY <1>1, <2>1 DEF Sound, OpenedAs, CheckedAs, InputOf, Messages, Profile, On,
                            ReadAs, Broken
<1> QED BY <1>2, <1>3 DEF IInv

LEMMA KeepsInvariant == IInv /\ [Next]_vars => IInv'
<1> SUFFICES ASSUME IInv, [Next]_vars
             PROVE  IInv'
  OBVIOUS
<1>1. ASSUME NEW t \in Messages, Step(t)
      PROVE  IInv'
  BY <1>1, FetchStep, JudgeStep, FireStep, SendStep DEF Step
<1>2. ASSUME NEW t \in Messages,
             \/ Reject(t) \/ (\E dead \in SUBSET Requests : Collect(t, dead))
             \/ Submit(t) \/ Wait(t) \/ Refuse(t) \/ TooLate(t)
             \/ Expire(t) \/ Begin(t) \/ Panic(t)
      PROVE  IInv'
  BY <1>2, RejectStep, CollectStep, PoolStep
<1> QED BY <1>1, <1>2, OtherSteps DEF Next

LEMMA Invariant == Spec => []IInv
BY StartInvariant, KeepsInvariant, PTL DEF Spec

-----------------------------------------------------------------------------
(* What the invariant says of an answer. *)

\* Good, of a profile, a client and its headers, at a moment of a world.
GoodFor(p, q, h, at, w) ==
  LET c == h.clearance IN
  /\ c # None /\ c.sealed /\ at < c.expiry
  /\ "ua" \in p.bind => c.ua = h.ua \/ "" \in {c.ua, h.ua}
  /\ "ip" \in p.bind => c.net = q.ip \/ "" \in {c.net, q.ip}
  /\ "subnet" \in p.bind => c.net = q.net \/ "" \in {c.net, q.net}
  /\ c.fp = "" \/ c.fp \notin w.revoked
  /\ p.list # "" => c.issued + p.grace >= at \/ (w.ready /\ c.jti \in w.listed)

\* What it takes for a clearance to open.
LEMMA OpenIsGood ==
  ASSUME NEW p, NEW q, NEW h, NEW at \in Nat, NEW w, ~ {"subnet", "ip"} \subseteq p.bind,
         p.grace \in Nat,
         h.clearance # None => h.clearance.expiry \in Nat /\ h.clearance.issued \in Nat
  PROVE  Open(p, q, h, at, w).clearance # None <=> GoodFor(p, q, h, at, w)
<1> DEFINE c == h.clearance
           bound == Bound(c, Bind(p, q, h))
           late == PastGrace(p, c, at)
<1>1. bound <=> /\ "ua" \in p.bind => c.ua = h.ua \/ "" \in {c.ua, h.ua}
                /\ "ip" \in p.bind => c.net = q.ip \/ "" \in {c.net, q.ip}
                /\ "subnet" \in p.bind => c.net = q.net \/ "" \in {c.net, q.net}
  <2> DEFINE b == Bind(p, q, h)
  <2>1. bound <=> /\ b.net = "" \/ c.net = "" \/ b.net = c.net
                  /\ b.ua = "" \/ c.ua = "" \/ b.ua = c.ua
    BY DEF Bound
  <2>2. /\ "ip" \in p.bind => b.net = q.ip
        /\ "subnet" \in p.bind => b.net = q.net
        /\ {"ip", "subnet"} \cap p.bind = {} => b.net = ""
        /\ b.ua = IF "ua" \in p.bind THEN h.ua ELSE ""
    BY DEF Bind
  <2> HIDE DEF b, bound
  <2> QED BY <2>1, <2>2
<1>2. c # None => (late <=> ~ c.issued + p.grace >= at)
  BY DEF PastGrace
<1>3. Open(p, q, h, at, w).clearance # None
        <=> /\ c # None /\ c.sealed /\ ~ at >= c.expiry /\ bound
            /\ ~ (c.fp # "" /\ c.fp \in w.revoked)
            /\ p.list = "" \/ ~late \/ (w.ready /\ c.jti \in w.listed)
  BY DEF Open, Opened
<1>4. c # None => (~ at >= c.expiry <=> at < c.expiry)
  OBVIOUS
<1> HIDE DEF bound, late
<1> QED BY <1>1, <1>2, <1>3, <1>4 DEF GoodFor

LEMMA AnswerOf ==
  ASSUME IInv, NEW t \in Requests, Enforced(t), ~Broken(work[t])
  PROVE  LET in == InputOf(t, work[t]) IN
         /\ CheckedAs(t, work[t])
         /\ in.profile = Profile(t) /\ in.q = scene.msg[t].q
         /\ in.opened = work[t].opened /\ in.asked = work[t].asked
         /\ Good(t) <=> in.opened.clearance # None
         /\ Full(in, "sess") <=> FullNow(t, "sess")
         /\ in.opened.clearance = None =>
              \A k \in Kinds : Full(in, k) <=> FullNow(t, k)
<1> DEFINE w == work[t]  in == InputOf(t, w)
           c == w.h.clearance  p == Profile(t)
<1>1. t \in Messages /\ OpenedAs(t, w) /\ ReadAs(w) /\ CheckedAs(t, w)
  BY DEF Enforced, IInv, Sound
<1>2. /\ in.profile = p /\ in.q = scene.msg[t].q /\ in.levels = w.levels
      /\ in.opened = w.opened /\ in.asked = w.asked
  BY DEF InputOf
<1>3. Good(t) <=> w.opened.clearance # None
  <2>1. ~ {"subnet", "ip"} \subseteq p.bind /\ p.grace \in Nat
    BY <1>1, SceneOK DEF IInv, Shape, Messages, Enforced, On, Profile, ValidProfile,
                         ValidClearance
  <2>2. c # None => c.expiry \in Nat /\ c.issued \in Nat
    <3>1. CASE w.h = NoHeaders
      <4>1. NoHeaders.clearance = None
        BY DEF NoHeaders
      <4> QED BY <3>1, <4>1
    <3>2. CASE w.h = scene.msg[t].headers
      BY <1>1, <3>2, SceneOK DEF IInv, Shape, Messages
    <3> QED BY <1>1, <3>1, <3>2 DEF OpenedAs
  <2>3. w.at \in Nat /\ w.opened = Open(p, scene.msg[t].q, w.h, w.at, w.seen)
    BY <1>1 DEF OpenedAs
  <2>4. w.opened.clearance # None <=> GoodFor(p, scene.msg[t].q, w.h, w.at, w.seen)
    BY <2>1, <2>2, <2>3, OpenIsGood
  <2> QED BY <2>4 DEF Good, GoodFor
<1>4. ASSUME NEW k \in Kinds, k \in DOMAIN w.felt => k \in DOMAIN w.levels
      PROVE  Full(in, k) <=> FullNow(t, k)
  <2> HIDE DEF in
  <2> QED BY <1>1, <1>2, <1>4 DEF ReadAs, Full, FullNow
<1>5. Full(in, "sess") <=> FullNow(t, "sess")
  BY <1>1, <1>4 DEF ReadAs, Kinds
<1>6. w.opened.clearance = None => \A k \in Kinds : Full(in, k) <=> FullNow(t, k)
  BY <1>1, <1>4 DEF ReadAs
<1> QED BY <1>1, <1>2, <1>3, <1>5, <1>6

\* Every way Check has to let a request pass where a challenge is there for it.
LEMMA PassesFor ==
  ASSUME NEW in, in.profile # None, in.profile.mode = "enforce",
         in.q.uri \notin in.profile.own
  PROVE  /\ Check(in).verdict = "allow" =>
              \/ Check(in).code = "OK" /\ in.opened.clearance # None /\ ~Full(in, "sess")
              \/ in.opened.clearance = None /\ Required(in) = ""
         /\ in.opened.clearance # None /\ ~Full(in, "sess") =>
              Check(in).verdict = "allow" /\ Check(in).code = "OK" /\ ~Check(in).inline
<1>1. in.opened.clearance # None => Required(in) # ""
  BY DEF Required
<1>2. ASSUME NEW code, NEW trigger
      PROVE  Challenged(in, code, trigger).verdict # "allow"
  BY DEF Challenged, Result
<1>3. ASSUME in.opened.clearance = None, Check(in).verdict = "allow"
      PROVE  Required(in) = ""
  BY <1>2, <1>3 DEF Check, Result
<1>4. ASSUME in.opened.clearance # None, Full(in, "sess")
      PROVE  Check(in).verdict # "allow"
  BY <1>1, <1>2, <1>4 DEF Check, Result
<1>5. ASSUME in.opened.clearance # None, ~Full(in, "sess")
      PROVE  Check(in).verdict = "allow" /\ Check(in).code = "OK" /\ ~Check(in).inline
  BY <1>5 DEF Check, Result
<1> QED BY <1>3, <1>4, <1>5

\* A redirect in place of a page is no pass.
LEMMA PassIsChecked ==
  ASSUME NEW t, NEW w, CheckedAs(t, w), w.res.verdict = "allow"
  PROVE  w.res = Check(InputOf(t, w))
<1> DEFINE c == Check(InputOf(t, w))
<1>1. [c EXCEPT !.verdict = "redirect", !.inline = FALSE].verdict # "allow"
  BY DEF Check, Result, Challenged
<1> QED BY <1>1 DEF CheckedAs

-----------------------------------------------------------------------------
(* The theorems. *)

LEMMA NoPassInv == IInv => NoPassWithoutCause
<1> SUFFICES ASSUME IInv, NEW t \in Requests, Enforced(t), work[t].res.verdict = "allow",
                    WhenOf(Profile(t), scene.msg[t].q) = "always", ~work[t].asked.skip
             PROVE  Good(t) /\ ~FullNow(t, "sess")
  BY DEF NoPassWithoutCause
<1> DEFINE in == InputOf(t, work[t])
<1>1. ~Broken(work[t])
  BY DEF Broken
<1>2. work[t].res = Check(in)
  BY <1>1, AnswerOf, PassIsChecked
<1>3. /\ in.profile = Profile(t) /\ in.q = scene.msg[t].q /\ in.asked = work[t].asked
      /\ Good(t) <=> in.opened.clearance # None
      /\ Full(in, "sess") <=> FullNow(t, "sess")
  BY <1>1, AnswerOf
<1> HIDE DEF in
<1>4. in.profile # None /\ in.profile.mode = "enforce" /\ in.q.uri \notin in.profile.own
  BY <1>3 DEF Enforced, On
<1>5. in.opened.clearance = None => Required(in) # ""
  BY <1>3 DEF Required
<1> QED BY <1>2, <1>3, <1>4, <1>5, PassesFor

\* Whoever passes a page that always asks has a good clearance and room in its
\* session bucket, or the word of a trusted inspector (decide.go:300-353).
THEOREM NobodyPassesUncleared == Spec => []NoPassWithoutCause
BY Invariant, NoPassInv, PTL

LEMMA ClearedInv == IInv => ClearedPasses
<1> SUFFICES ASSUME IInv, NEW t \in Requests, Enforced(t), Good(t), ~FullNow(t, "sess"),
                    work[t].res.code \notin Failures
             PROVE  work[t].res.verdict = "allow" /\ work[t].res.code = "OK"
  BY DEF ClearedPasses
<1> DEFINE in == InputOf(t, work[t])
<1>1. ~Broken(work[t])
  BY DEF Broken
<1>2. CheckedAs(t, work[t])
  BY <1>1, AnswerOf
<1>3. /\ in.profile = Profile(t) /\ in.q = scene.msg[t].q
      /\ in.opened.clearance # None /\ ~Full(in, "sess")
  BY <1>1, AnswerOf
<1>4. work[t].res = Check(in) \/ Check(in).inline
  BY <1>2 DEF CheckedAs
<1> HIDE DEF in
<1>5. in.profile # None /\ in.profile.mode = "enforce" /\ in.q.uri \notin in.profile.own
  BY <1>3 DEF Enforced, On
<1> QED BY <1>3, <1>4, <1>5, PassesFor

\* A good clearance with room in its session bucket passes whatever else is
\* full, in its grace time whatever the list says (decide.go:338-350).
THEOREM TheClearedPass == Spec => []ClearedPasses
BY Invariant, ClearedInv, PTL

LEMMA HotInv == IInv => HotIsChallenged
<1> SUFFICES ASSUME IInv, NEW t \in Requests, Enforced(t), work[t].res.verdict = "allow",
                    work[t].res.code # "OK", ~work[t].asked.skip,
                    WhenOf(Profile(t), scene.msg[t].q) = "buckets",
                    NEW k \in Kinds \ {"sess"}
             PROVE  ~FullNow(t, k)
  BY DEF HotIsChallenged
<1> DEFINE in == InputOf(t, work[t])
<1>1. ~Broken(work[t])
  BY DEF Broken
<1>2. work[t].res = Check(in)
  BY <1>1, AnswerOf, PassIsChecked
<1>3. /\ in.profile = Profile(t) /\ in.q = scene.msg[t].q /\ in.asked = work[t].asked
      /\ in.opened.clearance = None => (Full(in, k) <=> FullNow(t, k))
  BY <1>1, AnswerOf
<1> HIDE DEF in
<1>4. in.profile # None /\ in.profile.mode = "enforce" /\ in.q.uri \notin in.profile.own
  BY <1>3 DEF Enforced, On
<1>5. in.opened.clearance = None /\ Required(in) = ""
  BY <1>2, <1>4, PassesFor
<1>6. ~Hot(in)
  BY <1>3, <1>5 DEF Required
<1> QED BY <1>3, <1>5, <1>6 DEF Hot

\* Where buckets decide, nobody passes with a full one but the cleared and
\* those a trusted inspector lets pass, for any notes, levels and revocations
\* (handler.go:144-172).
THEOREM TheHotAreAsked == Spec => []HotIsChallenged
BY Invariant, HotInv, PTL

-----------------------------------------------------------------------------
(* The end of the process. *)

\* Once the pool is closed only the callback has requests, and once the sink
\* is closed only they can leave a record behind.
ClosedFor(t) == work[t].by = "callback" \/ work[t].pc = "done"

Closing ==
  /\ pending \in Seq(Requests)
  /\ phase \in {"flushing", "done"} => \A t \in Requests : ClosedFor(t)
  /\ phase = "done" =>
       /\ batch = << >>
       /\ \A i \in 1..Len(pending) : work[pending[i]].by = "callback"

\* Only Submit, Begin and Collect hand a request over.
LEMMA FireKeeps ==
  ASSUME IInv, NEW t \in Messages, Fire(t)
  PROVE  work'[t].by = work[t].by
<1> DEFINE w == work[t]
           rules == EffectsOf(t)
<1>1. t \in Requests /\ Fields(w)
  BY OwnFields
<1>2. ASSUME NEW v, Become(t, v), v.by = w.by
      PROVE  work'[t].by = w.by
  BY <1>2, OwnFields
<1>3. ASSUME NEW some, Become(t, Fired(w, rules, some))
      PROVE  work'[t].by = w.by
  <2> DEFINE asks == Asks(rules)
             made == {rules[i] : i \in some}
             next == After(w.pc)
             v == [w EXCEPT !.pc = next, !.asks = @ \o asks, !.wrote = @ \cup made]
  <2>1. Fired(w, rules, some) = v
    BY DEF Fired
  <2>2. v.by = w.by
    <3> HIDE DEF asks, made, next
    <3> QED BY <1>1 DEF Fields, FieldNames
  <2> QED BY <1>2, <1>3, <2>1, <2>2
<1>4. ASSUME NEW i, Become(t, GeoFailed(w, rules, i))
      PROVE  work'[t].by = w.by
  <2> DEFINE f == IF w.by = "callback" THEN [w EXCEPT !.pc = "send"]
                  ELSE Failed(w, "GEO_UNAVAILABLE")
             made == {rules[j] : j \in {j \in Writes(rules, w) : j < i}}
             v == [f EXCEPT !.wrote = @ \cup made]
  <2>1. GeoFailed(w, rules, i) = v
    BY DEF GeoFailed
  <2>2. Fields(f) /\ f.by = w.by
    <3>1. LET e == [w EXCEPT !.pc = "send"] IN Fields(e) /\ e.by = w.by
      BY <1>1 DEF Fields, FieldNames
    <3>2. LET e == Failed(w, "GEO_UNAVAILABLE") IN Fields(e) /\ e.by = w.by
      BY <1>1, FailedFields
    <3> QED BY <3>1, <3>2
  <2>3. v.by = w.by
    <3> HIDE DEF made, f
    <3> QED BY <2>2 DEF Fields, FieldNames
  <2> QED BY <1>2, <1>4, <2>1, <2>3
<1> QED BY <1>3, <1>4 DEF Fire

LEMMA JudgeKeeps ==
  ASSUME IInv, NEW t \in Messages, Judge(t)
  PROVE  work'[t].by = work[t].by
<1> DEFINE w == work[t]
<1>1. t \in Requests /\ Fields(w)
  BY OwnFields
<1>2. ASSUME NEW v, Become(t, v), v.by = w.by
      PROVE  work'[t].by = w.by
  BY <1>2, OwnFields
<1>3. ASSUME NEW levels, NEW felt, NEW g, Judged(t, levels, felt, g)
      PROVE  work'[t].by = w.by
  <2> DEFINE res == Check(Input(t, levels))
             point == IF On(t) THEN "full" ELSE "send"
             v == [w EXCEPT !.pc = point, !.geo = g, !.res = res, !.audit = TRUE,
                            !.levels = levels, !.felt = felt]
             u == [v EXCEPT !.res.verdict = "redirect", !.res.inline = FALSE]
  <2>1. Become(t, v) \/ Become(t, u)
    BY <1>3 DEF Judged
  <2>2. Fields(v) /\ v.by = w.by
    <3> HIDE DEF res, point
    <3> QED BY <1>1 DEF Fields, FieldNames
  <2>3. u.by = w.by
    <3> HIDE DEF v
    <3> QED BY <2>2 DEF Fields, FieldNames
  <2> QED BY <1>2, <2>1, <2>2, <2>3
<1>4. Failed(w, "BUCKETS_UNAVAILABLE").by = w.by
  BY <1>1, FailedFields
<1> QED BY <1>2, <1>3, <1>4 DEF Judge

LEMMA OthersKeep ==
  ASSUME IInv, NEW t \in Messages,
         \/ Reject(t) \/ Wait(t) \/ Refuse(t) \/ TooLate(t) \/ Expire(t) \/ Panic(t)
         \/ Fetch(t) \/ Send(t) \/ Record(t)
  PROVE  work'[t].by = work[t].by
<1> DEFINE w == work[t]
<1>1. t \in Requests /\ Fields(w)
  BY OwnFields
<1>2. ASSUME NEW v, Become(t, v), v.by = w.by
      PROVE  work'[t].by = w.by
  BY <1>2, OwnFields
<1>3. \A code : Failed(w, code).by = w.by /\ Fallback(w, code).by = w.by
  BY <1>1, FailedFields
<1>4. CASE Refuse(t)
  <2> DEFINE f == Failed(w, "QUEUE_LIMIT")
             fill == FillOf(t)
             over == Overloading(t, fill, TRUE)
             V(g) == [f EXCEPT !.pc = "overload", !.geo = g, !.fill = fill, !.over = over]
  <2>1. PICK g \in scene.geo : Become(t, V(g))
    BY <1>4 DEF Refuse
  <2>2. Fields(f) /\ f.by = w.by
    BY <1>1, FailedFields
  <2>3. V(g).by = w.by
    <3> HIDE DEF f, fill, over
    <3> QED BY <2>2 DEF Fields, FieldNames
  <2> HIDE DEF V
  <2> QED BY <1>2, <2>1, <2>3
<1>5. CASE Reject(t) \/ TooLate(t) \/ Expire(t) \/ Panic(t)
  BY <1>2, <1>3, <1>5 DEF Reject, TooLate, Expire, Panic, Recovered
<1>8. CASE Wait(t)
  <2>1. [w EXCEPT !.pc = "waiting"].by = w.by
    BY <1>1 DEF Fields, FieldNames
  <2> QED BY <1>2, <1>8, <2>1 DEF Wait
<1>6. CASE Fetch(t)
  <2>1. [w EXCEPT !.pc = "judge"].by = w.by
    BY <1>1 DEF Fields, FieldNames
  <2>2. ASSUME NEW h, NEW gone, NEW g, Become(t, Fetched(w, t, h, gone, g))
        PROVE  work'[t].by = w.by
    <3>1. Fetched(w, t, h, gone, g).by = w.by
      BY <1>1 DEF Fetched, Fields, FieldNames
    <3> QED BY <1>2, <2>2, <3>1
  <2> QED BY <1>2, <1>3, <1>6, <2>1, <2>2 DEF Fetch
<1>7. CASE Send(t) \/ Record(t)
  <2>1. [w EXCEPT !.pc = "audit"].by = w.by
    BY <1>1 DEF Fields, FieldNames
  <2> QED BY <1>2, <1>7, <2>1, DoneFields DEF Send, Record
<1> QED BY <1>4, <1>5, <1>6, <1>7, <1>8

\* A step of one request that leaves it with whom it was.
LEMMA KeptStays ==
  ASSUME IInv, Closing, NEW t \in Messages, NEW v, Become(t, v),
         work'[t].by = work[t].by, work[t].pc # "done", phase' = phase
  PROVE  /\ \A u \in Requests : work'[u].by = work[u].by
         /\ phase' \in {"flushing", "done"} =>
              work[t].by = "callback" /\ \A u \in Requests : ClosedFor(u)'
<1>1. t \in Requests
  BY OwnFields
<1>2. \A u \in Requests \ {t} : work'[u] = work[u]
  BY <1>1 DEF Become, IInv, Shape
<1> QED BY <1>1, <1>2 DEF Closing, ClosedFor

LEMMA ClosingOfOne ==
  ASSUME IInv, Closing, NEW t \in Messages,
         \/ Reject(t) \/ Wait(t) \/ Refuse(t) \/ TooLate(t) \/ Expire(t) \/ Panic(t)
         \/ Fetch(t) \/ Judge(t) \/ Fire(t) \/ Send(t)
  PROVE  Closing'
<1>1. PICK v : Become(t, v)
  BY DEF Reject, Wait, Refuse, TooLate, Expire, Panic, Fetch, Judge, Judged, Fire, Send
<1>2. work'[t].by = work[t].by
  BY FireKeeps, JudgeKeeps, OthersKeep
<1>3. /\ phase' = phase /\ pending' = pending /\ batch' = batch /\ work[t].pc # "done"
  BY DEF Reject, Wait, Refuse, TooLate, Expire, Panic, Fetch, Judge, Fire, Send, Quiet, sink, At
<1>4. \A i \in 1..Len(pending) : pending[i] \in Requests
  BY DEF Closing
<1> QED BY <1>1, <1>2, <1>3, <1>4, KeptStays DEF Closing

LEMMA ClosingOfRecord ==
  ASSUME IInv, Closing, NEW t \in Messages, Record(t)
  PROVE  Closing'
<1> DEFINE all == Append(pending, t)
<1>1. PICK v : Become(t, v)
  BY DEF Record
<1>2. work'[t].by = work[t].by
  BY OthersKeep
<1>3. t \in Requests /\ phase' = phase /\ batch' = batch /\ work[t].pc # "done"
  BY OwnFields DEF Record, At
<1>4. /\ pending \in Seq(Requests) /\ all \in Seq(Requests) /\ Len(all) = Len(pending) + 1
      /\ \A i \in 1..Len(all) : all[i] = IF i = Len(all) THEN t ELSE pending[i]
  BY <1>3, AppendProperties DEF Closing
<1>5. /\ pending' \in Seq(Requests)
      /\ \A i \in 1..Len(pending') : \E j \in 1..Len(all) : pending'[i] = all[j]
  <2>1. CASE Len(all) > MaxPending
    <3>1. MaxPending \in Nat \ {0} /\ Len(all) \in Nat
      BY <1>4, InspectAssumption
    <3>2. pending' = SubSeq(all, Len(all) - MaxPending + 1, Len(all))
      BY <2>1 DEF Record, Kept
    <3>3. \A i \in Len(all) - MaxPending + 1..Len(all) : all[i] \in Requests
      BY <1>4, <2>1, <3>1
    <3> HIDE DEF all
    <3>4. /\ pending' \in Seq(Requests) /\ Len(pending') = MaxPending
          /\ \A i \in 1..MaxPending : pending'[i] = all[Len(all) - MaxPending + i]
      BY <2>1, <3>1, <3>2, <3>3, SubSeqProperties
    <3>5. \A i \in 1..MaxPending : Len(all) - MaxPending + i \in 1..Len(all)
      BY <2>1, <3>1
    <3> QED BY <3>4, <3>5
  <2>2. CASE ~ Len(all) > MaxPending
    BY <1>4, <2>2 DEF Record
  <2> QED BY <2>1, <2>2
<1>6. ASSUME phase' = "done", NEW i \in 1..Len(pending')
      PROVE  work'[pending'[i]].by = "callback"
  <2>1. PICK j \in 1..Len(all) : pending'[i] = all[j]
    BY <1>5
  <2>2. work[t].by = "callback" /\ \A u \in Requests : work'[u].by = work[u].by
    BY <1>1, <1>2, <1>3, <1>6, KeptStays
  <2>3. all[j] = t \/ (j \in 1..Len(pending) /\ all[j] = pending[j])
    BY <1>4
  <2>4. all[j] \in Requests
    BY <1>4
  <2> QED BY <1>3, <1>6, <2>1, <2>2, <2>3, <2>4 DEF Closing
<1>7. phase' = "done" => batch' = << >>
  BY <1>3 DEF Closing
<1> QED BY <1>1, <1>2, <1>3, <1>5, <1>6, <1>7, KeptStays DEF Closing

LEMMA ClosingOfHanding ==
  ASSUME IInv, Closing, NEW t \in Messages,
         Submit(t) \/ Begin(t)
  PROVE  Closing'
<1>1. t \in Requests /\ Sound(t, work[t])
  BY OwnFields
<1>2. phase \notin {"flushing", "done"}
  <2>1. CASE Submit(t)
    BY <2>1 DEF Submit
  <2>2. CASE Begin(t)
    BY <1>1, <2>2 DEF Begin, At, Sound, Closing, ClosedFor
  <2> QED BY <2>1, <2>2
<1>3. phase' = phase /\ pending' = pending
  BY DEF Submit, Begin, Quiet, sink
<1> QED BY <1>2, <1>3 DEF Closing

\* What the callback finds expired becomes its own.
LEMMA ClosingOfCollect ==
  ASSUME IInv, Closing, NEW t \in Messages, NEW dead \in SUBSET Requests, Collect(t, dead)
  PROVE  Closing'
<1>1. phase' = phase /\ pending' = pending /\ batch' = batch
  BY DEF Collect, Quiet, sink
<1>2. ASSUME NEW u \in Requests
      PROVE  /\ ClosedFor(u) => ClosedFor(u)'
             /\ work[u].by = "callback" => work'[u].by = "callback"
  <2>1. Fields(work[u]) /\ Sound(u, work[u])
    BY DEF IInv, Shape
  <2>2. ArrivedOf(work[u]).by = work[u].by /\ CollectedOf(work[u]).by = "callback"
    BY <2>1, CollectedFields
  <2>3. work[u].pc = "fresh" => work[u].by = "callback"
    BY <2>1 DEF Sound
  <2> QED BY <2>2, <2>3, CollectIs DEF ClosedFor
<1>3. \A i \in 1..Len(pending) : pending[i] \in Requests
  BY DEF Closing
<1> QED BY <1>1, <1>2, <1>3 DEF Closing

LEMMA ClosingOfSink ==
  ASSUME IInv, Closing,
         \/ Flush \/ PublishGroup \/ Drain \/ PoolClosed \/ SinkClosed \/ Turn
         \/ UNCHANGED vars
  PROVE  Closing'
<1>1. CASE Flush
  <2> DEFINE n == Min({Len(pending), MaxItems})
  <2>1. Len(pending) \in Nat /\ MaxItems \in Nat
    BY InspectAssumption DEF Closing
  <2>2. n \in Nat
    <3>1. \E x \in {Len(pending), MaxItems} : \A y \in {Len(pending), MaxItems} : x <= y
      BY <2>1
    <3>2. n \in {Len(pending), MaxItems}
      BY <3>1 DEF Min
    <3> QED BY <2>1, <3>2
  <2>3. pending' = SubSeq(pending, n + 1, Len(pending))
    BY <1>1 DEF Flush, Oldest
  <2> HIDE DEF n
  <2>4. \A i \in n + 1..Len(pending) : pending[i] \in Requests
    BY <2>1, <2>2 DEF Closing
  <2>5. pending' \in Seq(Requests)
    BY <2>1, <2>2, <2>3, <2>4, SubSeqProperties
  <2>6. phase # "done" /\ phase' = phase /\ work' = work
    BY <1>1 DEF Flush
  <2> QED BY <2>5, <2>6 DEF Closing, ClosedFor
<1>2. CASE PublishGroup
  <2>1. phase # "done" /\ phase' = phase /\ work' = work /\ pending' = pending
    BY <1>2 DEF PublishGroup, Closing
  <2> QED BY <2>1 DEF Closing, ClosedFor
<1>3. CASE Drain
  BY <1>3 DEF Drain, Closing, sink
<1>4. CASE PoolClosed
  BY <1>4 DEF PoolClosed, InPool, Closing, ClosedFor, sink
<1>5. CASE SinkClosed
  BY <1>5 DEF SinkClosed, Closing, ClosedFor, sink
<1>6. CASE Turn \/ UNCHANGED vars
  BY <1>6 DEF Turn, vars, Closing, ClosedFor, sink
<1> QED BY <1>1, <1>2, <1>3, <1>4, <1>5, <1>6

LEMMA ClosingInvariant == Spec => []Closing
<1>1. Init => Closing
  BY DEF Init, Closing
<1>2. IInv /\ Closing /\ [Next]_vars => Closing'
  BY ClosingOfOne, ClosingOfRecord, ClosingOfHanding, ClosingOfCollect, ClosingOfSink DEF Next, Step
<1> QED BY <1>1, <1>2, Invariant, PTL DEF Spec

LEMMA FlushedInv == Closing => FlushedByClose
<1> SUFFICES ASSUME Closing, phase = "done", NEW t \in Range(pending) \cup Range(batch)
             PROVE  work[t].by = "callback"
  BY DEF FlushedByClose
<1>1. batch = << >> /\ Range(batch) = {}
  BY DEF Closing, Range
<1>2. \E i \in 1..Len(pending) : t = pending[i]
  BY <1>1, RangeEquality DEF Closing
<1> QED BY <1>2 DEF Closing

\* A process that ends leaves no record of a request its workers or its sweeper
\* answered, for any queue, buffer, batch and failures; what the callback has in
\* hand, accepted requests it found expired among it, it does not wait for
\* (main.go:204-212, queue.go:94, 137-141, 233-240, sink.go:217).
THEOREM EndedIsFlushed == Spec => []FlushedByClose
BY ClosingInvariant, FlushedInv, PTL

-----------------------------------------------------------------------------
(* The lists that an answer calls for are written.                         *)

\* The rounds, as functions of a message m and of what its request has read.
FullFor(p, levels, next) ==
  LET Round(kind, on, threshold) ==
        IF kind \in DOMAIN levels /\ threshold # 0 /\ levels[kind] >= threshold
          THEN RulesFor(p, on, kind, next) ELSE << >>
      Both(kind) == LET tier == p.tiers[kind] IN
        Round(kind, "bucket_captcha", tier.captchaAt) \o Round(kind, "bucket_ban", tier.banAt)
  IN Both("asn_net") \o Both("asn_router") \o Both("ip") \o Both("sess")

Given(m, w) ==
  [profile |-> m.profile, q |-> m.q, h |-> w.h, now |-> w.at, lost |-> w.lost,
   asked |-> w.asked, levels |-> w.levels, opened |-> w.opened]
FullOf(m, w) == FullFor(m.profile, w.levels, NextOf(w.res))
ClientOf(m, w) ==
  IF EventOf(Given(m, w), w.res) = "" THEN << >>
  ELSE RulesFor(m.profile, EventOf(Given(m, w), w.res), "", NextOf(w.res))

\* What is due of the rounds that are over, and was not written.
Made(rules, some) == {rules[i] : i \in some}
Due(rules, w) == Made(rules, Writes(rules, w))
DueOf(m, w) ==
  (IF w.pc # "full" THEN Due(FullOf(m, w), w) ELSE {})
    \cup (IF w.pc \in {"overload", "send"} THEN Due(ClientOf(m, w), w) ELSE {})
    \cup (IF w.pc = "send" THEN Due(w.over, w) ELSE {})
Missed(m, w) == DueOf(m, w) \ w.wrote

\* The strengthening: each failure so far has cost one rule at most.
Few(S, n) == IsFiniteSet(S) /\ Cardinality(S) <= n
Firing(m, w) ==
  /\ w.by = "worker" /\ m.profile # None /\ m.profile.mode # "off"
  /\ w.pc \in {"full", "client", "overload", "send"} /\ w.res.verdict # "error"
WrittenFor(m, w, n) == Firing(m, w) => Few(Missed(m, w), n)
WrittenInv == faults \in Nat /\ \A t \in Messages : WrittenFor(scene.msg[t], work[t], faults)

LEMMA FewMore ==
  ASSUME NEW S, NEW n \in Nat, NEW x, NEW T \in SUBSET (S \cup {x}), Few(S, n)
  PROVE  Few(T, n + 1) /\ (T \subseteq S => Few(T, n))
<1>1. IsFiniteSet(S) /\ Cardinality(S) \in Nat /\ Cardinality(S) <= n
  BY FS_CardinalityType DEF Few
<1>2. IsFiniteSet(S \cup {x}) /\ Cardinality(S \cup {x}) \in Nat
      /\ Cardinality(S \cup {x}) <= Cardinality(S) + 1
  <2>1. IsFiniteSet(S \cup {x})
        /\ Cardinality(S \cup {x}) = IF x \in S THEN Cardinality(S) ELSE Cardinality(S) + 1
    BY <1>1, FS_AddElement
  <2> QED BY <1>1, <2>1
<1>3. IsFiniteSet(T) /\ Cardinality(T) \in Nat /\ Cardinality(T) <= Cardinality(S \cup {x})
  BY <1>2, FS_Subset, FS_CardinalityType
<1>4. T \subseteq S => Cardinality(T) <= Cardinality(S)
  BY <1>1, FS_Subset
<1>5. Few(T, n + 1)
  BY <1>1, <1>2, <1>3 DEF Few
<1>6. T \subseteq S => Few(T, n)
  BY <1>1, <1>3, <1>4 DEF Few
<1> QED BY <1>5, <1>6

LEMMA FewGrows == ASSUME NEW S, NEW n \in Nat, NEW k \in Nat, n <= k, Few(S, n) PROVE Few(S, k)
BY FS_CardinalityType DEF Few

\* The rounds of the code are these.
LEMMA RoundsAre ==
  ASSUME NEW t
  PROVE  LET m == scene.msg[t]  w == work[t] IN
         /\ FullEffects(t, NextOf(w.res)) = FullOf(m, w)
         /\ Event(t) = EventOf(Given(m, w), w.res)
         /\ w.pc = "full" => EffectsOf(t) = FullOf(m, w)
         /\ w.pc = "client" => EffectsOf(t) = ClientOf(m, w)
         /\ w.pc = "overload" => EffectsOf(t) = w.over
<1> DEFINE m == scene.msg[t]  w == work[t]
<1>1. FullEffects(t, NextOf(w.res)) = FullOf(m, w)
  BY DEF FullEffects, FullOf, FullFor, Profile
<1>2. Input(t, w.levels) = Given(m, w)
  BY DEF Input, Given, OpenedOnce, Profile
<1>3. Event(t) = EventOf(Given(m, w), w.res)
  BY <1>2 DEF Event
<1> QED BY <1>1, <1>3 DEF EffectsOf, ClientOf, Profile

\* One request changes, and failures are only added.
LEMMA WrittenOne ==
  ASSUME IInv, WrittenInv, NEW t \in Messages, NEW v, Become(t, v), scene' = scene,
         NEW n \in Nat, faults' = n, faults <= n, WrittenFor(scene.msg[t], v, n)
  PROVE  WrittenInv'
<1>1. t \in Requests /\ \A u \in Requests : work'[u] = IF u = t THEN v ELSE work[u]
  BY OwnFields DEF Become, IInv, Shape
<1>2. Messages' = Messages /\ Messages \subseteq Requests /\ faults \in Nat
  BY MessageIsRequest DEF Messages, WrittenInv
<1>3. ASSUME NEW u \in Messages PROVE WrittenFor(scene.msg[u], work'[u], n)
  <2>1. CASE u = t
    BY <1>1, <2>1
  <2>2. CASE u # t
    <3>1. work'[u] = work[u] /\ WrittenFor(scene.msg[u], work[u], faults)
      BY <1>1, <1>2, <2>2 DEF WrittenInv
    <3> QED BY <1>2, <3>1, FewGrows DEF WrittenFor
  <2> QED BY <2>1, <2>2
<1> QED BY <1>2, <1>3 DEF WrittenInv, WrittenFor, Firing, Missed, DueOf

\* A request that fires no rule yet, or no more.
LEMMA WrittenIdle ==
  ASSUME IInv, WrittenInv, NEW t \in Messages, NEW v, Become(t, v), scene' = scene,
         NoFault \/ Fault, ~Firing(scene.msg[t], v)
  PROVE  WrittenInv'
<1>1. faults \in Nat /\ (faults' = faults \/ faults' = faults + 1)
  BY DEF WrittenInv, NoFault, Fault, bounds
<1>2. PICK n \in Nat : faults' = n /\ faults <= n
  BY <1>1
<1> QED BY <1>2, WrittenOne DEF WrittenFor

LEMMA WrittenElsewhere ==
  ASSUME IInv, WrittenInv, NEW t \in Messages,
         \/ Reject(t) \/ Submit(t) \/ Wait(t) \/ Refuse(t) \/ TooLate(t) \/ Expire(t)
         \/ Panic(t) \/ Begin(t) \/ Fetch(t) \/ Send(t) \/ Record(t)
  PROVE  WrittenInv'
<1> DEFINE w == work[t]
<1>1. t \in Requests /\ Fields(w)
  BY OwnFields
<1>2. scene' = scene
  BY DEF Reject, Submit, Wait, Refuse, TooLate, Expire, Panic, Begin, Fetch, Send, Record, Quiet
<1>3. NoFault \/ Fault
  BY DEF Reject, Submit, Wait, Refuse, TooLate, Expire, Panic, Begin, Fetch, Send, Record, NoFault
<1>4. ASSUME NEW v, Become(t, v),
             v.pc \notin {"full", "client", "overload", "send"} \/ v.res.verdict = "error"
      PROVE  WrittenInv'
  BY <1>2, <1>3, <1>4, WrittenIdle DEF Firing
<1>5. \A code : Failed(w, code).res.verdict = "error" /\ Fallback(w, code).res.verdict = "error"
  BY <1>1, FailedFields
<1>6. CASE Reject(t) \/ TooLate(t) \/ Expire(t) \/ Panic(t)
  BY <1>4, <1>5, <1>6 DEF Reject, TooLate, Expire, Panic, Recovered
<1>7. CASE Submit(t) \/ Wait(t)
  <2> DEFINE fill == FillOf(t)
             v == [w EXCEPT !.pc = "queued", !.by = "pool", !.fill = fill]
  <2>1. v.pc = "queued" /\ [w EXCEPT !.pc = "waiting"].pc = "waiting"
    <3> HIDE DEF fill
    <3> QED BY <1>1 DEF Fields, FieldNames
  <2> QED BY <1>4, <1>7, <2>1 DEF Submit, Wait
<1>8. CASE Refuse(t)
  <2> DEFINE f == Failed(w, "QUEUE_LIMIT")
             fill == FillOf(t)
             over == Overloading(t, fill, TRUE)
             V(g) == [f EXCEPT !.pc = "overload", !.geo = g, !.fill = fill, !.over = over]
  <2>1. PICK g \in scene.geo : Become(t, V(g))
    BY <1>8 DEF Refuse
  <2>2. Fields(f) /\ f.res.verdict = "error"
    BY <1>1, FailedFields
  <2>3. V(g).res = f.res
    <3> HIDE DEF f, fill, over
    <3> QED BY <2>2 DEF Fields, FieldNames
  <2> HIDE DEF V, f
  <2> QED BY <1>4, <2>1, <2>2, <2>3
<1>9. CASE Begin(t)
  <2> DEFINE over == Overloading(t, w.fill, FALSE)
             v == [w EXCEPT !.pc = "fetch", !.by = "worker", !.over = over]
  <2>1. Become(t, v)
    BY <1>9 DEF Begin
  <2>2. v.pc = "fetch"
    <3> HIDE DEF over
    <3> QED BY <1>1 DEF Fields, FieldNames
  <2> HIDE DEF v
  <2> QED BY <1>4, <2>1, <2>2
<1>10. CASE Fetch(t)
  <2>1. [w EXCEPT !.pc = "judge"].pc = "judge"
    BY <1>1 DEF Fields, FieldNames
  <2>2. ASSUME NEW h, NEW gone, NEW g, Become(t, Fetched(w, t, h, gone, g)) PROVE WrittenInv'
    <3> DEFINE o == Open(scene.msg[t].profile, scene.msg[t].q, h, now, world)
               a == PriorAsk(scene.msg[t].prior, scene.msg[t].profile)
               v == Fetched(w, t, h, gone, g)
    <3>1. v = [w EXCEPT !.pc = "judge", !.h = h, !.lost = gone, !.at = now, !.geo = g,
                        !.asked = a, !.opened = o, !.seen = world]
      BY DEF Fetched
    <3> HIDE DEF v, a, o
    <3>2. v.pc = "judge"
      BY <1>1, <3>1 DEF Fields, FieldNames
    <3> QED BY <1>4, <2>2, <3>2 DEF v
  <2> QED BY <1>4, <1>5, <1>10, <2>1, <2>2 DEF Fetch
<1>11. CASE Send(t) \/ Record(t)
  <2>1. [w EXCEPT !.pc = "audit"].pc = "audit"
    BY <1>1 DEF Fields, FieldNames
  <2> QED BY <1>4, <1>11, <2>1, DoneFields DEF Send, Record
<1> QED BY <1>6, <1>7, <1>8, <1>9, <1>10, <1>11

\* No worker has what a submission collects.
LEMMA WrittenCollect ==
  ASSUME IInv, WrittenInv, NEW t \in Messages, NEW dead \in SUBSET Requests, Collect(t, dead)
  PROVE  WrittenInv'
<1>1. scene' = scene /\ faults' = faults
  BY DEF Collect, Quiet, NoFault, bounds
<1>2. ASSUME NEW u \in Messages PROVE WrittenFor(scene.msg[u], work'[u], faults)
  <2>1. u \in Requests /\ WrittenFor(scene.msg[u], work[u], faults)
    BY <1>2, MessageIsRequest DEF WrittenInv
  <2>2. Fields(work[u])
    BY <2>1 DEF IInv, Shape
  <2>3. CASE work'[u] = work[u]
    BY <2>1, <2>3
  <2>4. CASE work'[u] = ArrivedOf(work[u])
    BY <2>2, <2>4, CollectedFields DEF WrittenFor, Firing
  <2>5. CASE work'[u] = CollectedOf(work[u])
    BY <2>2, <2>5, CollectedFields DEF WrittenFor, Firing
  <2> QED BY <2>1, <2>3, <2>4, <2>5, CollectIs
<1> QED BY <1>1, <1>2 DEF WrittenInv, WrittenFor, Firing, Missed, DueOf, Messages

\* Judge: no round is over yet.
LEMMA WrittenJudge ==
  ASSUME IInv, WrittenInv, NEW t \in Messages, Judge(t) PROVE WrittenInv'
<1> DEFINE w == work[t]
<1>1. t \in Requests /\ Fields(w) /\ scene' = scene /\ (NoFault \/ Fault) /\ faults \in Nat
  BY OwnFields DEF Judge, Judged, WrittenInv
<1>2. PICK n \in Nat : faults' = n /\ faults <= n
  BY <1>1 DEF NoFault, Fault, bounds
<1>3. ASSUME NEW v, Become(t, v), v.pc = "full" \/ ~Firing(scene.msg[t], v) PROVE WrittenInv'
  <2>1. CASE ~Firing(scene.msg[t], v)
    BY <1>1, <1>3, <2>1, WrittenIdle
  <2>2. CASE v.pc = "full"
    <3>1. Missed(scene.msg[t], v) = {}
      BY <2>2 DEF Missed, DueOf
    <3>2. Few(Missed(scene.msg[t], v), n)
      BY <3>1, FS_EmptySet DEF Few
    <3> QED BY <1>1, <1>2, <1>3, <3>2, WrittenOne DEF WrittenFor
  <2> QED BY <1>3, <2>1, <2>2
<1>4. ASSUME NEW levels, NEW felt, NEW g, Judged(t, levels, felt, g) PROVE WrittenInv'
  <2> DEFINE res == Check(Input(t, levels))
             point == IF On(t) THEN "full" ELSE "send"
             v == [w EXCEPT !.pc = point, !.geo = g, !.res = res, !.audit = TRUE,
                            !.levels = levels, !.felt = felt]
             u == [v EXCEPT !.res.verdict = "redirect", !.res.inline = FALSE]
  <2>1. Become(t, v) \/ Become(t, u)
    BY <1>4 DEF Judged
  <2>2. Fields(v) /\ v.pc = point
    <3> HIDE DEF res, point
    <3> QED BY <1>1 DEF Fields, FieldNames
  <2>3. u.pc = point
    <3> HIDE DEF v, point
    <3> QED BY <2>2 DEF Fields, FieldNames
  <2>4. point = "full" \/ scene.msg[t].profile = None \/ scene.msg[t].profile.mode = "off"
    BY DEF On, Profile
  <2> HIDE DEF u, v, point
  <2> QED BY <1>3, <2>1, <2>2, <2>3, <2>4 DEF Firing
<1>5. \A code : Failed(w, code).res.verdict = "error"
  BY <1>1, FailedFields
<1>6. ASSUME NEW code, Become(t, Failed(w, code)) PROVE WrittenInv'
  BY <1>3, <1>5, <1>6 DEF Firing
<1> QED BY <1>4, <1>6 DEF Judge

\* A round leaves everything that the rounds are made of as it was.
LEMMA RoundMissed ==
  ASSUME IInv, NEW t \in Messages, NEW rules, NEW some, rules = EffectsOf(t),
         work[t].pc \in {"full", "client", "overload"},
         NEW v, v = Fired(work[t], rules, some)
  PROVE  LET m == scene.msg[t]  w == work[t] IN
            /\ Missed(m, v) \subseteq
                 Missed(m, w) \cup (Due(rules, w) \ Made(rules, some))
            /\ Firing(m, v) => Firing(m, w)
<1> DEFINE m == scene.msg[t]  w == work[t]  made == Made(rules, some)
           asks == Asks(rules)
           point == After(w.pc)
<1>0. v = [w EXCEPT !.pc = point, !.asks = @ \o asks, !.wrote = @ \cup made] /\ Fields(w)
  BY OwnFields DEF Fired, Made
<1> HIDE DEF asks, made, point
<1>1. /\ v.pc = point /\ v.wrote = w.wrote \cup made
      /\ \A g \in FieldNames \ {"pc", "asks", "wrote"} : v[g] = w[g]
  BY <1>0 DEF Fields, FieldNames
<1>2. /\ v.h = w.h /\ v.at = w.at /\ v.lost = w.lost /\ v.asked = w.asked
      /\ v.levels = w.levels /\ v.opened = w.opened /\ v.res = w.res /\ v.over = w.over
      /\ v.by = w.by
  BY <1>1 DEF FieldNames
<1>3. FullOf(m, v) = FullOf(m, w)
  BY <1>2 DEF FullOf
<1>4. ClientOf(m, v) = ClientOf(m, w)
  <2>1. Given(m, v) = Given(m, w)
    BY <1>2 DEF Given
  <2> QED BY <1>2, <2>1 DEF ClientOf
<1>5. \A rs : Due(rs, v) = Due(rs, w)
  BY <1>2 DEF Due, Made, Writes
<1>6. /\ w.pc = "full" => rules = FullOf(m, w)
      /\ w.pc = "client" => rules = ClientOf(m, w)
      /\ w.pc = "overload" => rules = w.over
  BY RoundsAre
<1>7. DueOf(m, v) \subseteq DueOf(m, w) \cup Due(rules, w)
  BY <1>1, <1>2, <1>3, <1>4, <1>5, <1>6 DEF DueOf, After, point
<1> QED BY <1>1, <1>2, <1>7 DEF Missed, Firing, made

\* A round: a write that fails costs its own rule, a lookup that fails the answer.
LEMMA WrittenFire ==
  ASSUME IInv, WrittenInv, NEW t \in Messages, Fire(t) PROVE WrittenInv'
<1> DEFINE m == scene.msg[t]  w == work[t]
<1>0. PICK rules : rules = EffectsOf(t)
  OBVIOUS
<1>1. /\ w.pc \in {"full", "client", "overload"} /\ scene' = scene /\ faults \in Nat
      /\ WrittenFor(m, w, faults) /\ Fields(w)
  BY OwnFields DEF Fire, At, WrittenInv
<1>2. CASE /\ Become(t, Fired(w, rules, Writes(rules, w)))
           /\ NoFault \/ Fault
  <2>0. PICK v : v = Fired(w, rules, Writes(rules, w))
    OBVIOUS
  <2>1. PICK n \in Nat : faults' = n /\ faults <= n
    BY <1>1, <1>2 DEF NoFault, Fault, bounds
  <2>2. Missed(m, v) \subseteq Missed(m, w) /\ (Firing(m, v) => Firing(m, w))
    <3>1. Due(rules, w) \ Made(rules, Writes(rules, w)) = {}
      BY DEF Due
    <3> QED BY <1>0, <1>1, <2>0, <3>1, RoundMissed
  <2>3. WrittenFor(m, v, n)
    <3> SUFFICES ASSUME Firing(m, v) PROVE Few(Missed(m, v), n)
      BY DEF WrittenFor
    <3>1. Few(Missed(m, w), faults)
      BY <1>1, <2>2 DEF WrittenFor
    <3>2. Few(Missed(m, v), faults)
      BY <1>1, <2>2, <3>1, FewMore
    <3> QED BY <1>1, <2>1, <3>2, FewGrows
  <2> QED BY <1>1, <1>2, <2>0, <2>1, <2>3, WrittenOne
<1>3. ASSUME NEW j \in Writes(rules, w), Become(t, Fired(w, rules, WritesBut(rules, j, w))), Fault
      PROVE  WrittenInv'
  <2>0. PICK v : v = Fired(w, rules, WritesBut(rules, j, w))
    OBVIOUS
  <2>1. PICK n \in Nat : faults' = n /\ n = faults + 1
    BY <1>1, <1>3 DEF Fault
  <2>2. Missed(m, v) \subseteq Missed(m, w) \cup {rules[j]} /\ (Firing(m, v) => Firing(m, w))
    <3>1. Due(rules, w) \ Made(rules, WritesBut(rules, j, w)) \subseteq {rules[j]}
      BY DEF Due, Made, WritesBut
    <3> QED BY <1>0, <1>1, <2>0, <3>1, RoundMissed
  <2>3. WrittenFor(m, v, n)
    <3> SUFFICES ASSUME Firing(m, v) PROVE Few(Missed(m, v), n)
      BY DEF WrittenFor
    <3>1. Few(Missed(m, w), faults)
      BY <1>1, <2>2 DEF WrittenFor
    <3>2. Few(Missed(m, v), faults + 1)
      BY <1>1, <2>2, <3>1, FewMore
    <3> QED BY <2>1, <3>2
  <2>4. faults <= n
    BY <1>1, <2>1
  <2> QED BY <1>1, <1>3, <2>0, <2>1, <2>3, <2>4, WrittenOne
<1>4. ASSUME NEW i, Become(t, GeoFailed(w, rules, i)), Fault PROVE WrittenInv'
  <2> DEFINE f == IF w.by = "callback" THEN [w EXCEPT !.pc = "send"]
                  ELSE Failed(w, "GEO_UNAVAILABLE")
             made == {rules[j] : j \in {j \in Writes(rules, w) : j < i}}
             v == [f EXCEPT !.wrote = @ \cup made]
  <2>1. GeoFailed(w, rules, i) = v
    BY DEF GeoFailed
  <2>2. Fields(f) /\ f.by = w.by /\ (w.by # "callback" => f.res.verdict = "error")
    <3>1. LET e == [w EXCEPT !.pc = "send"] IN Fields(e) /\ e.by = w.by
      BY <1>1 DEF Fields, FieldNames
    <3>2. LET e == Failed(w, "GEO_UNAVAILABLE") IN
          Fields(e) /\ e.by = w.by /\ e.res.verdict = "error"
      BY <1>1, FailedFields
    <3> QED BY <3>1, <3>2
  <2>3. v.by = f.by /\ v.res = f.res
    <3> HIDE DEF made, f
    <3> QED BY <2>2 DEF Fields, FieldNames
  <2> HIDE DEF f, v
  <2>4. ~Firing(m, v)
    BY <2>2, <2>3 DEF Firing
  <2> QED BY <1>1, <1>4, <2>1, <2>4, WrittenIdle
<1> QED BY <1>0, <1>2, <1>3, <1>4 DEF Fire

LEMMA WrittenStep == IInv /\ WrittenInv /\ [Next]_vars => WrittenInv'
<1> SUFFICES ASSUME IInv, WrittenInv, [Next]_vars PROVE WrittenInv'
  OBVIOUS
<1>1. CASE \E t \in Messages :
             \/ Reject(t) \/ (\E dead \in SUBSET Requests : Collect(t, dead))
             \/ Submit(t) \/ Wait(t) \/ Refuse(t) \/ TooLate(t)
             \/ Expire(t) \/ Begin(t) \/ Panic(t) \/ Step(t)
  BY <1>1, WrittenElsewhere, WrittenCollect, WrittenJudge, WrittenFire DEF Step
<1>2. CASE Flush \/ PublishGroup \/ Drain \/ PoolClosed \/ SinkClosed \/ Turn \/ UNCHANGED vars
  <2>1. scene' = scene /\ work' = work
    BY <1>2 DEF Flush, PublishGroup, Drain, PoolClosed, SinkClosed, Turn, vars
  <2>2. PICK n \in Nat : faults' = n /\ faults <= n
    BY <1>2 DEF Flush, PublishGroup, Drain, PoolClosed, SinkClosed, Turn, vars, bounds,
                NoFault, Fault, WrittenInv
  <2>3. ASSUME NEW t \in Messages PROVE WrittenFor(scene.msg[t], work[t], n)
    <3>1. WrittenFor(scene.msg[t], work[t], faults) /\ faults \in Nat
      BY DEF WrittenInv
    <3> QED BY <2>2, <3>1, FewGrows DEF WrittenFor
  <2> QED BY <2>1, <2>2, <2>3
          DEF WrittenInv, WrittenFor, Firing, Missed, DueOf, Messages
<1> QED BY <1>1, <1>2 DEF Next

LEMMA WrittenInvariant == Spec => []WrittenInv
<1>1. Init => WrittenInv
  <2> SUFFICES ASSUME Init, NEW t \in Messages PROVE WrittenFor(scene.msg[t], work[t], faults)
    BY DEF Init, WrittenInv
  <2>1. t \in Requests
    BY SceneOK DEF Init, Messages
  <2>2. work[t].by = "callback"
    BY <2>1 DEF Init, Fresh
  <2> QED BY <2>2 DEF WrittenFor, Firing
<1> QED BY <1>1, WrittenStep, Invariant, PTL DEF Spec

LEMMA EventsInv == IInv /\ WrittenInv => EventsAreWritten
<1> SUFFICES ASSUME IInv, WrittenInv, NEW t \in Requests, On(t),
                    work[t].pc = "send", work[t].by = "worker", work[t].res.verdict # "error"
             PROVE  LET w == work[t]
                        full == FullEffects(t, NextOf(w.res))
                        client == IF Event(t) = "" THEN << >>
                                  ELSE RulesFor(Profile(t), Event(t), "", NextOf(w.res))
                        due(rules) == {rules[i] : i \in Writes(rules, w)}
                    IN Cardinality((due(full) \cup due(client) \cup due(w.over)) \ w.wrote)
                         <= faults
  BY DEF EventsAreWritten
<1> DEFINE m == scene.msg[t]  w == work[t]
<1>1. t \in Messages
  BY DEF IInv, Sound
<1>2. WrittenFor(m, w, faults)
  BY <1>1 DEF WrittenInv
<1>3. Cardinality(Missed(m, w)) <= faults
  BY <1>2 DEF WrittenFor, Firing, Few, On, Profile
<1>4. FullEffects(t, NextOf(w.res)) = FullOf(m, w)
      /\ (IF Event(t) = "" THEN << >> ELSE RulesFor(Profile(t), Event(t), "", NextOf(w.res)))
           = ClientOf(m, w)
  BY RoundsAre DEF ClientOf, Profile
<1>5. Missed(m, w) = (Due(FullOf(m, w), w) \cup Due(ClientOf(m, w), w) \cup Due(w.over, w))
                       \ w.wrote
  BY DEF Missed, DueOf
<1> QED BY <1>3, <1>4, <1>5 DEF Due, Made

\* Every list the rules of an answer call for is written, but for one rule per
\* failed call, for any rules, levels and failures (subjects.go:147-200).
THEOREM NoRuleIsLost == Spec => []EventsAreWritten
BY Invariant, WrittenInvariant, EventsInv, PTL

-----------------------------------------------------------------------------
(* What a set of places takes of a sequence.                                *)

LEMMA InOrderExists ==
  ASSUME NEW n \in Nat, NEW I \in SUBSET (1..n)
  PROVE  /\ IsFiniteSet(I) /\ Cardinality(I) \in 0..n
         /\ InOrder(I) \in [1..Cardinality(I) -> I]
         /\ \A i, j \in 1..Cardinality(I) : i < j => InOrder(I)[i] < InOrder(I)[j]
         /\ \A x \in I : \E k \in 1..Cardinality(I) : InOrder(I)[k] = x
<1> DEFINE c == Cardinality(I)
           Upto(x) == {z \in I : z <= x}
           rank == [x \in I |-> Cardinality(Upto(x))]
           next == [k \in 1..c |-> CHOOSE x \in I : rank[x] = k]
<1>0. \A x \in I : x \in Nat
  OBVIOUS
<1>1. IsFiniteSet(I) /\ c \in Nat /\ c <= n
  <2>1. IsFiniteSet(1..n) /\ Cardinality(1..n) = n
    BY FS_Interval
  <2> QED BY <2>1, FS_Subset, FS_CardinalityType
<1>2. IsFiniteSet(1..c) /\ Cardinality(1..c) = c
  BY <1>1, FS_Interval
<1> HIDE DEF c
<1>3. ASSUME NEW x \in I PROVE IsFiniteSet(Upto(x)) /\ rank[x] = Cardinality(Upto(x)) /\ rank[x] \in 1..c
  <2>1. /\ IsFiniteSet(Upto(x)) /\ Cardinality(Upto(x)) \in Nat
        /\ Cardinality(Upto(x)) <= c
    BY <1>1, FS_Subset, FS_CardinalityType DEF c
  <2>2. x \in Upto(x)
    OBVIOUS
  <2>3. Cardinality(Upto(x)) # 0
    BY <2>1, <2>2, FS_EmptySet
  <2> QED BY <1>1, <2>1, <2>3
<1>4. ASSUME NEW x \in I, NEW y \in I, x < y PROVE rank[x] < rank[y]
  <2>0. x \in Nat /\ y \in Nat
    BY <1>0
  <2>1. Upto(x) \subseteq Upto(y) /\ y \in Upto(y) /\ y \notin Upto(x)
    <3>1. ASSUME NEW z \in Upto(x) PROVE z \in Upto(y)
      <4>1. z \in I /\ z \in Nat /\ z <= x
        BY <1>0
      <4>2. z <= y
        BY <1>4, <2>0, <4>1
      <4> QED BY <4>1, <4>2
    <3>2. y \in Upto(y) /\ y \notin Upto(x)
      BY <1>4, <2>0
    <3> QED BY <3>1, <3>2
  <2>2. Cardinality(Upto(x)) <= Cardinality(Upto(y))
        /\ Cardinality(Upto(x)) # Cardinality(Upto(y))
    <3> HIDE DEF Upto
    <3> QED BY <1>3, <2>1, FS_Subset
  <2>3. rank[x] <= rank[y] /\ rank[x] # rank[y]
    BY <1>3, <2>2
  <2>4. rank[x] \in Nat /\ rank[y] \in Nat
    BY <1>1, <1>3
  <2> HIDE DEF rank
  <2> QED BY <2>3, <2>4
<1>5. rank \in [I -> 1..c]
  BY <1>3
<1> HIDE DEF rank
<1>6. rank \in Injection(I, 1..c)
  <2> SUFFICES ASSUME NEW x \in I, NEW y \in I, rank[x] = rank[y] PROVE x = y
    BY <1>5 DEF Injection, IsInjective
  <2>1. rank[x] \in Nat /\ x \in Nat /\ y \in Nat
    BY <1>0, <1>1, <1>5
  <2>2. ~(x < y) /\ ~(y < x)
    BY <1>4, <2>1
  <2> QED BY <2>1, <2>2
<1>7. rank \in Surjection(I, 1..c)
  BY <1>1, <1>2, <1>6, FS_Injection DEF c
<1>8. \A k \in 1..c : next[k] \in I /\ rank[next[k]] = k
  BY <1>7 DEF Surjection
<1>9. /\ next \in [1..c -> I]
      /\ \A i, j \in 1..c : i < j => next[i] < next[j]
  <2>1. next \in [1..c -> I]
    BY <1>8
  <2>2. ASSUME NEW i \in 1..c, NEW j \in 1..c, i < j PROVE next[i] < next[j]
    <3>1. next[i] \in I /\ next[j] \in I /\ rank[next[i]] = i /\ rank[next[j]] = j
      BY <1>8
    <3> HIDE DEF next
    <3>2. next[i] \in Nat /\ next[j] \in Nat
      BY <1>0, <3>1
    <3>3. next[j] < next[i] => rank[next[j]] < rank[next[i]]
      BY <1>4, <3>1
    <3>4. ~(next[j] < next[i])
      BY <2>2, <3>1, <3>2, <3>3
    <3>5. next[i] # next[j]
      BY <2>2, <3>1, <3>2
    <3> QED BY <3>2, <3>4, <3>5
  <2> QED BY <2>1, <2>2
<1> HIDE DEF next
<1> DEFINE f == InOrder(I)
<1>10. f \in [1..c -> I] /\ \A i, j \in 1..c : i < j => f[i] < f[j]
  <2>1. \E g \in [1..c -> I] : \A i, j \in DOMAIN g : i < j => g[i] < g[j]
    BY <1>9
  <2>2. f \in [1..c -> I] /\ \A i, j \in DOMAIN f : i < j => f[i] < f[j]
    BY <2>1 DEF InOrder, c
  <2> QED BY <2>2
<1> HIDE DEF f
<1>11. f \in Injection(1..c, I)
  <2> SUFFICES ASSUME NEW i \in 1..c, NEW j \in 1..c, f[i] = f[j] PROVE i = j
    BY <1>10 DEF Injection, IsInjective
  <2>1. f[i] \in Nat /\ f[j] \in Nat
    BY <1>0, <1>10
  <2> QED BY <1>1, <1>10, <2>1
<1>12. f \in Surjection(1..c, I)
  BY <1>1, <1>2, <1>11, FS_Injection DEF c
<1>13. \A x \in I : \E k \in 1..c : f[k] = x
  BY <1>12 DEF Surjection
<1>14. c \in 0..n
  BY <1>1
<1> QED BY <1>1, <1>10, <1>13, <1>14 DEF c, f

\* u is s without some of its records.
Thins(u, s, f) ==
  /\ f \in [1..Len(u) -> 1..Len(s)]
  /\ \A i, j \in 1..Len(u) : i < j => f[i] < f[j]
  /\ \A i \in 1..Len(u) : u[i] = s[f[i]]

LEMMA PickedThins ==
  ASSUME NEW R, NEW s \in Seq(R), NEW I \in SUBSET (1..Len(s)),
         NEW u, u = Picked(s, I)
  PROVE  /\ u \in Seq(R) /\ Len(u) = Cardinality(I) /\ Cardinality(I) \in Nat
         /\ Thins(u, s, InOrder(I))
         /\ \A i \in 1..Len(u) : InOrder(I)[i] \in I
         /\ \A i \in I : \E k \in 1..Len(u) : u[k] = s[i]
<1> DEFINE c == Cardinality(I)  f == InOrder(I)
<1>1. /\ c \in Nat /\ f \in [1..c -> I]
      /\ \A i, j \in 1..c : i < j => f[i] < f[j]
      /\ \A x \in I : \E k \in 1..c : f[k] = x
  BY InOrderExists
<1> HIDE DEF c, f
<1>2. u = [k \in 1..c |-> s[f[k]]]
  BY DEF Picked, c, f
<1>3. ASSUME NEW k \in 1..c PROVE f[k] \in 1..Len(s) /\ s[f[k]] \in R
  <2>1. f[k] \in I
    BY <1>1
  <2>2. f[k] \in 1..Len(s)
    BY <2>1
  <2> QED BY <2>2
<1>4. u \in Seq(R) /\ Len(u) = c
  BY <1>1, <1>2, <1>3
<1>5. Thins(u, s, f)
  BY <1>1, <1>2, <1>3, <1>4 DEF Thins
<1>6. \A i \in I : \E k \in 1..Len(u) : u[k] = s[i]
  BY <1>1, <1>2, <1>4
<1> QED BY <1>1, <1>4, <1>5, <1>6 DEF c, f

LEMMA SubSeqThins ==
  ASSUME NEW R, NEW s \in Seq(R), NEW m \in 1..Len(s) + 1, NEW n \in m - 1..Len(s),
         NEW u, u = SubSeq(s, m, n)
  PROVE  /\ u \in Seq(R) /\ Len(u) = n - m + 1
         /\ \E f : Thins(u, s, f)
<1>1. Len(s) \in Nat /\ m \in Nat /\ n \in Nat /\ \A i \in m..n : s[i] \in R
  OBVIOUS
<1>2. /\ u \in Seq(R) /\ Len(u) = n - m + 1
      /\ \A i \in 1..n - m + 1 : u[i] = s[m + i - 1]
  <2>1. Len(SubSeq(s, m, n)) = IF m <= n THEN n - m + 1 ELSE 0
    BY <1>1, SubSeqProperties
  <2>2. \A i \in 1..n - m + 1 : SubSeq(s, m, n)[i] = s[m + i - 1]
    BY <1>1, SubSeqProperties
  <2>3. SubSeq(s, m, n) \in Seq(R)
    BY <1>1, SubSeqProperties
  <2> QED BY <1>1, <2>1, <2>2, <2>3
<1> DEFINE f == [k \in 1..Len(u) |-> m + k - 1]
<1>3. \A k \in 1..Len(u) : m + k - 1 \in 1..Len(s)
  BY <1>1, <1>2
<1>4. f \in [1..Len(u) -> 1..Len(s)]
  BY <1>3
<1>5. \A i, j \in 1..Len(u) : i < j => f[i] < f[j]
  BY <1>1, <1>2
<1>6. \A i \in 1..Len(u) : u[i] = s[f[i]]
  BY <1>2
<1> QED BY <1>2, <1>4, <1>5, <1>6 DEF Thins

-----------------------------------------------------------------------------
(* The records: m the messages, a all that were added, s and u parts of     *)
(* them.                                                                    *)

In(x, a) == \E k \in 1..Len(a) : x = a[k]

Follows(m, a, x, y) ==
  m[x].subject = m[y].subject => \A i, j \in 1..Len(a) : a[i] = x /\ a[j] = y => i < j

Ordered(m, a, s) == \A i, j \in 1..Len(s) : i < j => Follows(m, a, s[i], s[j])
Precede(m, a, s, u) == \A i \in 1..Len(s), j \in 1..Len(u) : Follows(m, a, s[i], u[j])

\* Each of s is one that was added, and none that was lost.
Held(a, l, s) == \A i \in 1..Len(s) : s[i] \notin l /\ In(s[i], a)

InTurn(m, a, st, ba, pe) ==
  /\ Ordered(m, a, st) /\ Ordered(m, a, ba) /\ Ordered(m, a, pe)
  /\ Precede(m, a, st, ba) /\ Precede(m, a, st, pe) /\ Precede(m, a, ba, pe)

SinkInv ==
  /\ {added, stored, batch, pending} \subseteq Seq(Requests)
  /\ IsFiniteSet(lost) /\ \A t \in lost : In(t, added)
  /\ Held(added, lost, stored) /\ Held(added, lost, batch) /\ Held(added, lost, pending)
  /\ InTurn(scene.msg, added, stored, batch, pending)
  /\ \A k \in 1..Len(added) : work[added[k]].pc = "done"
  /\ dropped \in Nat /\ RecordsAccounted

LEMMA ThinsKeeps ==
  ASSUME NEW m, NEW a, NEW l, NEW s, NEW u, NEW f, Thins(u, s, f)
  PROVE  /\ Ordered(m, a, s) => Ordered(m, a, u)
         /\ \A v : Precede(m, a, s, v) => Precede(m, a, u, v)
         /\ \A v : Precede(m, a, v, s) => Precede(m, a, v, u)
         /\ Held(a, l, s) => Held(a, l, u)
<1>1. /\ \A i \in 1..Len(u) : f[i] \in 1..Len(s) /\ u[i] = s[f[i]]
      /\ \A i, j \in 1..Len(u) : i < j => f[i] < f[j]
  BY DEF Thins
<1>2. Ordered(m, a, s) => Ordered(m, a, u)
  BY <1>1 DEF Ordered
<1>3. \A v : Precede(m, a, s, v) => Precede(m, a, u, v)
  BY <1>1 DEF Precede
<1>4. \A v : Precede(m, a, v, s) => Precede(m, a, v, u)
  BY <1>1 DEF Precede
<1>5. ASSUME Held(a, l, s), NEW i \in 1..Len(u)
      PROVE  u[i] \notin l /\ In(u[i], a)
  BY <1>1, <1>5 DEF Held
<1>6. Held(a, l, s) => Held(a, l, u)
  BY <1>5 DEF Held
<1> QED BY <1>2, <1>3, <1>4, <1>6

\* A record is in turn after another only if they are two.
LEMMA TwoFollow ==
  ASSUME NEW m, NEW a, NEW x, Follows(m, a, x, x), Len(a) \in Nat
  PROVE  ~In(x, a)
BY DEF Follows, In

\* A new record comes after all others.
LEMMA AppendIs ==
  ASSUME NEW R, NEW a \in Seq(R), NEW t \in R, NEW b, b = Append(a, t)
  PROVE  /\ Len(a) \in Nat /\ b \in Seq(R) /\ Len(b) = Len(a) + 1 /\ b[Len(b)] = t
         /\ \A i \in 1..Len(b) :
              \/ i \in 1..Len(a) /\ i < Len(b) /\ b[i] = a[i]
              \/ i = Len(b) /\ b[i] = t
         /\ \A i \in 1..Len(a) : i \in 1..Len(b) /\ b[i] = a[i]
         /\ Len(b) \in 1..Len(b)
<1>1. Len(a) \in Nat
  OBVIOUS
<1>2. /\ b \in Seq(R) /\ Len(b) = Len(a) + 1
      /\ \A i \in 1..Len(b) : b[i] = IF i = Len(b) THEN t ELSE a[i]
  BY AppendProperties
<1>3. \A i \in 1..Len(b) : i = Len(b) \/ (i \in 1..Len(a) /\ i < Len(b))
  BY <1>1, <1>2
<1>4. \A i \in 1..Len(a) : i \in 1..Len(b) /\ i # Len(b)
  BY <1>1, <1>2
<1>5. Len(b) \in 1..Len(b)
  BY <1>1, <1>2
<1> QED BY <1>1, <1>2, <1>3, <1>4, <1>5

LEMMA FollowsAppend ==
  ASSUME NEW m, NEW R, NEW a \in Seq(R), NEW t \in R, ~In(t, a), NEW b, b = Append(a, t),
         NEW x, In(x, a)
  PROVE  /\ In(x, b) /\ Follows(m, b, x, t)
         /\ \A y : In(y, a) /\ Follows(m, a, x, y) => Follows(m, b, x, y)
<1>1. \A i \in 1..Len(b) : \/ i \in 1..Len(a) /\ i < Len(b) /\ b[i] = a[i]
                           \/ i = Len(b) /\ b[i] = t
  BY AppendIs
<1>2. \A i \in 1..Len(a) : i \in 1..Len(b) /\ b[i] = a[i]
  BY AppendIs
<1>3. In(x, b)
  BY <1>2 DEF In
<1>4. x # t
  OBVIOUS
<1>5. ASSUME NEW y, In(y, a), Follows(m, a, x, y) PROVE Follows(m, b, x, y)
  BY <1>1, <1>4, <1>5 DEF Follows
<1>6. ASSUME NEW i \in 1..Len(b), NEW j \in 1..Len(b), b[i] = x, b[j] = t PROVE i < j
  <2>1. i < Len(b)
    BY <1>1, <1>4, <1>6
  <2>2. j = Len(b)
    BY <1>1, <1>6 DEF In
  <2> QED BY <2>1, <2>2
<1> QED BY <1>3, <1>5, <1>6 DEF Follows

\* What is held and in turn stays so when another record is added, also with it.
LEMMA HeldAppend ==
  ASSUME NEW m, NEW R, NEW a \in Seq(R), NEW t \in R, ~In(t, a), NEW b, b = Append(a, t),
         NEW l, NEW s, Held(a, l, s)
  PROVE  /\ Held(b, l, s) /\ (Ordered(m, a, s) => Ordered(m, b, s))
         /\ \A v : Held(a, l, v) /\ Precede(m, a, v, s) => Precede(m, b, v, s)
<1>1. \A i \in 1..Len(s) : s[i] \notin l /\ In(s[i], a)
  BY DEF Held
<1>2. \A i \in 1..Len(s) : In(s[i], b)
  BY <1>1, FollowsAppend
<1>3. Held(b, l, s)
  BY <1>1, <1>2 DEF Held
<1>4. ASSUME Ordered(m, a, s), NEW i \in 1..Len(s), NEW j \in 1..Len(s), i < j
      PROVE  Follows(m, b, s[i], s[j])
  <2>1. Follows(m, a, s[i], s[j])
    BY <1>4 DEF Ordered
  <2> QED BY <1>1, <2>1, FollowsAppend
<1>5. ASSUME NEW v, Held(a, l, v), Precede(m, a, v, s),
             NEW i \in 1..Len(v), NEW j \in 1..Len(s)
      PROVE  Follows(m, b, v[i], s[j])
  <2>1. Follows(m, a, v[i], s[j]) /\ In(v[i], a)
    BY <1>5 DEF Precede, Held
  <2> QED BY <1>1, <2>1, FollowsAppend
<1>6. Ordered(m, a, s) => Ordered(m, b, s)
  BY <1>4 DEF Ordered
<1>7. \A v : Held(a, l, v) /\ Precede(m, a, v, s) => Precede(m, b, v, s)
  BY <1>5 DEF Precede
<1> QED BY <1>3, <1>6, <1>7

LEMMA HeldWithNew ==
  ASSUME NEW m, NEW R, NEW a \in Seq(R), NEW t \in R, ~In(t, a), NEW b, b = Append(a, t),
         NEW l, t \notin l,
         NEW s \in Seq(R), Held(a, l, s), NEW u, u = Append(s, t)
  PROVE  /\ Held(b, l, u) /\ (Ordered(m, a, s) => Ordered(m, b, u))
         /\ \A v : Held(a, l, v) /\ Precede(m, a, v, s) => Precede(m, b, v, u)
<1>1. /\ \A i \in 1..Len(u) : \/ i \in 1..Len(s) /\ i < Len(u) /\ u[i] = s[i]
                              \/ i = Len(u) /\ u[i] = t
      /\ Len(u) \in Nat
  BY AppendIs
<1>2. In(t, b)
  BY AppendIs DEF In
<1>3. \A i \in 1..Len(s) : s[i] \notin l /\ In(s[i], a)
  BY DEF Held
<1>4. Held(b, l, s)
  BY HeldAppend
<1>5. Held(b, l, u)
  BY <1>1, <1>2, <1>4 DEF Held
<1>6. ASSUME Ordered(m, a, s), NEW i \in 1..Len(u), NEW j \in 1..Len(u), i < j
      PROVE  Follows(m, b, u[i], u[j])
  <2>1. Ordered(m, b, s)
    BY <1>6, HeldAppend
  <2>2. i # Len(u)
    BY <1>1, <1>6
  <2>3. i \in 1..Len(s) /\ u[i] = s[i] /\ In(u[i], a)
    BY <1>1, <1>3, <2>2
  <2>4. CASE j \in 1..Len(s) /\ u[j] = s[j]
    BY <1>6, <2>1, <2>3, <2>4 DEF Ordered
  <2>5. CASE u[j] = t
    <3>1. Follows(m, b, u[i], t)
      BY <2>3, FollowsAppend
    <3> QED BY <2>5, <3>1
  <2> QED BY <1>1, <2>4, <2>5
<1>7. ASSUME NEW v, Held(a, l, v), Precede(m, a, v, s),
             NEW i \in 1..Len(v), NEW j \in 1..Len(u)
      PROVE  Follows(m, b, v[i], u[j])
  <2>1. Precede(m, b, v, s)
    BY <1>7, HeldAppend
  <2>2. In(v[i], a)
    BY <1>7 DEF Held
  <2>3. CASE j \in 1..Len(s) /\ u[j] = s[j]
    BY <2>1, <2>3 DEF Precede
  <2>4. CASE u[j] = t
    <3>1. Follows(m, b, v[i], t)
      BY <2>2, FollowsAppend
    <3> QED BY <2>4, <3>1
  <2> QED BY <1>1, <2>3, <2>4
<1>8. Ordered(m, a, s) => Ordered(m, b, u)
  BY <1>6 DEF Ordered
<1>9. \A v : Held(a, l, v) /\ Precede(m, a, v, s) => Precede(m, b, v, u)
  BY <1>7 DEF Precede
<1> QED BY <1>5, <1>8, <1>9

-----------------------------------------------------------------------------
(* The steps. *)

LEMMA SinkElsewhere ==
  ASSUME SinkInv, UNCHANGED sink, scene' = scene,
         \A u \in Requests : work[u].pc = "done" => work'[u].pc = "done"
  PROVE  SinkInv'
<1>1. UNCHANGED <<pending, batch, dropped, stored, lost, added>>
  BY DEF sink
<1>2. \A k \in 1..Len(added) : added[k] \in Requests
  BY DEF SinkInv
<1>3. \A k \in 1..Len(added) : work'[added[k]].pc = "done"
  BY <1>2 DEF SinkInv
<1>4. RecordsAccounted'
  BY <1>1 DEF SinkInv, RecordsAccounted
<1> QED BY <1>1, <1>3, <1>4 DEF SinkInv

LEMMA DoneStays ==
  ASSUME IInv, NEW t \in Messages, NEW v, Become(t, v), work[t].pc # "done"
  PROVE  \A u \in Requests : work[u].pc = "done" => work'[u].pc = "done"
<1>1. \A u \in Requests : work'[u] = IF u = t THEN v ELSE work[u]
  BY OwnFields DEF Become, IInv, Shape
<1> QED BY <1>1

LEMMA SinkOfOthers ==
  ASSUME IInv, SinkInv, NEW t \in Messages,
         \/ Reject(t) \/ Submit(t) \/ Wait(t) \/ Refuse(t) \/ TooLate(t) \/ Expire(t)
         \/ Panic(t) \/ Begin(t) \/ Fetch(t) \/ Judge(t) \/ Fire(t) \/ Send(t)
  PROVE  SinkInv'
<1>1. PICK v : Become(t, v)
  BY DEF Reject, Submit, Wait, Refuse, TooLate, Expire, Panic, Begin, Fetch, Judge, Judged,
         Fire, Send
<1>2. UNCHANGED sink /\ scene' = scene /\ work[t].pc # "done"
  BY DEF Reject, Submit, Wait, Refuse, TooLate, Expire, Panic, Begin, Fetch, Judge, Fire, Send,
         Quiet, At
<1> QED BY <1>1, <1>2, DoneStays, SinkElsewhere

LEMMA SinkOfCollect ==
  ASSUME IInv, SinkInv, NEW t \in Messages, NEW dead \in SUBSET Requests, Collect(t, dead)
  PROVE  SinkInv'
<1>1. UNCHANGED sink /\ scene' = scene
  BY DEF Collect, Quiet
<1>2. \A u \in Requests : work[u].pc = "done" => work'[u].pc = "done"
  BY CollectIs
<1> QED BY <1>1, <1>2, SinkElsewhere

LEMMA SinkOfRecord ==
  ASSUME IInv, SinkInv, NEW t \in Messages, Record(t)
  PROVE  SinkInv'
<1> DEFINE m == scene.msg  a == added  l == lost
<1>1. /\ t \in Requests /\ work[t].pc = "audit" /\ Become(t, Done(work[t]))
      /\ UNCHANGED <<scene, batch, stored, lost>>
  BY OwnFields DEF Record, At
<1>2. PICK b : b = added'
  OBVIOUS
<1>3. PICK all : all = Append(pending, t)
  OBVIOUS
<1>4. b = Append(a, t) /\ a \in Seq(Requests) /\ pending \in Seq(Requests)
  BY <1>2 DEF Record, SinkInv
<1>5. ~In(t, a)
  BY <1>1 DEF SinkInv, In
<1>6. t \notin l
  BY <1>5 DEF SinkInv
<1>7. /\ b \in Seq(Requests) /\ Len(b) = Len(a) + 1 /\ Len(a) \in Nat /\ Len(b) \in Nat
      /\ \A i \in 1..Len(b) : (i \in 1..Len(a) /\ b[i] = a[i]) \/ b[i] = t
  BY <1>1, <1>4, AppendIs
<1>8. /\ all \in Seq(Requests) /\ Len(all) = Len(pending) + 1
      /\ Len(pending) \in Nat /\ Len(all) \in Nat
  BY <1>1, <1>3, <1>4, AppendIs
<1>9. /\ Held(b, l, stored) /\ Held(b, l, batch) /\ Held(b, l, all)
      /\ InTurn(m, b, stored, batch, all)
  <2>1. /\ Held(a, l, stored) /\ Held(a, l, batch) /\ Held(a, l, pending)
        /\ InTurn(m, a, stored, batch, pending)
    BY DEF SinkInv
  <2>2. /\ Held(b, l, stored) /\ Held(b, l, batch)
        /\ Ordered(m, b, stored) /\ Ordered(m, b, batch) /\ Precede(m, b, stored, batch)
    BY <1>1, <1>4, <1>5, <2>1, HeldAppend DEF InTurn
  <2>3. /\ Held(b, l, all) /\ Ordered(m, b, all)
        /\ Precede(m, b, stored, all) /\ Precede(m, b, batch, all)
    BY <1>1, <1>3, <1>4, <1>5, <1>6, <2>1, HeldWithNew DEF InTurn
  <2> QED BY <2>2, <2>3 DEF InTurn
<1>10. PICK p, d : p = pending' /\ d = dropped'
  OBVIOUS
<1>11. /\ p \in Seq(Requests) /\ Held(b, l, p) /\ InTurn(m, b, stored, batch, p)
       /\ Len(p) \in Nat /\ d \in Nat /\ Len(p) + d = Len(all) + dropped
  <2>1. CASE Len(all) > MaxPending
    <3>1. MaxPending \in Nat \ {0} /\ dropped \in Nat
      BY InspectAssumption DEF SinkInv
    <3>0. PICK n \in Nat : n = Len(all) - MaxPending + 1
      BY <1>8, <2>1, <3>1
    <3>2. p = SubSeq(all, n, Len(all)) /\ d = dropped + Len(all) - MaxPending
      BY <1>3, <1>10, <2>1, <3>0 DEF Record, Kept
    <3>3. n \in 1..Len(all) + 1 /\ Len(all) \in n - 1..Len(all)
      BY <1>8, <2>1, <3>0, <3>1
    <3>4. /\ p \in Seq(Requests) /\ Len(p) = Len(all) - n + 1
          /\ \E f : Thins(p, all, f)
      <4>1. p \in Seq(Requests) /\ Len(p) = Len(all) - n + 1
        BY <1>8, <3>0, <3>2, <3>3, SubSeqThins
      <4>2. \E f : Thins(p, all, f)
        BY <1>8, <3>0, <3>2, <3>3, SubSeqThins
      <4> QED BY <4>1, <4>2
    <3>5. Held(b, l, p) /\ InTurn(m, b, stored, batch, p)
      BY <1>9, <3>4, ThinsKeeps DEF InTurn
    <3>6. Len(p) = MaxPending
      BY <1>8, <3>0, <3>1, <3>4
    <3>7. d \in Nat /\ Len(p) + d = Len(all) + dropped
      <4>1. PICK x \in Nat, y \in Nat : x = Len(all) /\ y = dropped /\ x >= MaxPending
        BY <1>8, <2>1, <3>1
      <4>2. x - MaxPending \in Nat
        BY <3>1, <4>1
      <4>3. d = y + (x - MaxPending)
        BY <3>2, <4>1
      <4>4. d \in Nat /\ MaxPending + d = x + y
        BY <3>1, <4>1, <4>2, <4>3
      <4> QED BY <3>6, <4>1, <4>4
    <3> QED BY <3>1, <3>4, <3>5, <3>6, <3>7
  <2>2. CASE ~ Len(all) > MaxPending
    BY <1>3, <1>8, <1>9, <1>10, <2>2 DEF Record, SinkInv
  <2> QED BY <2>1, <2>2
<1>12. \A k \in 1..Len(b) : work'[b[k]].pc = "done"
  <2>1. work'[t].pc = "done"
    BY <1>1, DoneFields, OwnFields
  <2>2. \A u \in Requests : work[u].pc = "done" => work'[u].pc = "done"
    BY <1>1, DoneStays
  <2>3. \A k \in 1..Len(a) : a[k] \in Requests /\ work[a[k]].pc = "done"
    BY <1>4 DEF SinkInv
  <2> QED BY <1>7, <2>1, <2>2, <2>3
<1>13. IsFiniteSet(l) /\ \A u \in l : In(u, b)
  BY <1>1, <1>4, <1>5, FollowsAppend DEF SinkInv
<1>14. Len(b) = Len(p) + Len(batch) + Len(stored) + Cardinality(l) + d
  <2>1. Len(a) = Len(pending) + Len(batch) + Len(stored) + Cardinality(l) + dropped
    BY DEF SinkInv, RecordsAccounted
  <2>2. /\ Len(batch) \in Nat /\ Len(stored) \in Nat /\ Cardinality(l) \in Nat
        /\ dropped \in Nat
    BY FS_CardinalityType DEF SinkInv
  <2>3. PICK n \in Nat, q \in Nat, r \in Nat, x \in Nat, y \in Nat, z \in Nat, k \in Nat,
               e \in Nat :
           /\ e = d /\ n = Len(a) /\ q = Len(pending) /\ r = Len(p) /\ x = Len(batch)
           /\ y = Len(stored) /\ z = Cardinality(l) /\ k = dropped
    BY <1>7, <1>8, <1>11, <2>2
  <2>4. n = q + x + y + z + k /\ r + e = q + 1 + k
    BY <1>8, <1>11, <2>1, <2>3
  <2>5. n + 1 = r + x + y + z + e
    BY <2>4
  <2> QED BY <1>7, <2>3, <2>5
<1> QED BY <1>1, <1>2, <1>7, <1>9, <1>10, <1>11, <1>12, <1>13, <1>14
        DEF SinkInv, RecordsAccounted

LEMMA SinkOfFlush ==
  ASSUME SinkInv, Flush
  PROVE  SinkInv'
<1> DEFINE m == scene.msg  a == added  l == lost
<1>1. /\ batch = << >> /\ pending # << >> /\ pending \in Seq(Requests)
      /\ UNCHANGED <<scene, work, stored, lost, added, dropped>>
  BY DEF Flush, SinkInv
<1>2. PICK n : n = Min({Len(pending), MaxItems})
  OBVIOUS
<1>3. Len(pending) \in Nat \ {0} /\ MaxItems \in Nat \ {0}
  BY <1>1, InspectAssumption
<1>4. n \in Nat /\ n <= Len(pending) /\ n <= MaxItems
  <2>1. \E x \in {Len(pending), MaxItems} : \A y \in {Len(pending), MaxItems} : x <= y
    BY <1>3
  <2>2. n \in {Len(pending), MaxItems} /\ n <= Len(pending) /\ n <= MaxItems
    BY <1>2, <2>1 DEF Min
  <2> QED BY <1>3, <2>2
<1>5. PICK b, p : b = batch' /\ p = pending'
  OBVIOUS
<1>6. b = SubSeq(pending, 1, n) /\ p = SubSeq(pending, n + 1, Len(pending))
  BY <1>2, <1>5 DEF Flush, Oldest
<1>7. b \in Seq(Requests) /\ Len(b) = n /\ \E f : Thins(b, pending, f)
  <2>1. 1 \in 1..Len(pending) + 1 /\ n \in 1 - 1..Len(pending)
    BY <1>3, <1>4
  <2>2. b \in Seq(Requests) /\ Len(b) = n - 1 + 1
    BY <1>1, <1>6, <2>1, SubSeqThins
  <2>3. \E f : Thins(b, pending, f)
    BY <1>1, <1>6, <2>1, SubSeqThins
  <2> QED BY <1>4, <2>2, <2>3
<1>8. p \in Seq(Requests) /\ Len(p) = Len(pending) - n /\ \E f : Thins(p, pending, f)
  <2>1. PICK k \in Nat : k = n + 1
    BY <1>4
  <2>2. k \in 1..Len(pending) + 1 /\ Len(pending) \in k - 1..Len(pending)
    BY <1>3, <1>4, <2>1
  <2>3. p \in Seq(Requests) /\ Len(p) = Len(pending) - k + 1
    BY <1>1, <1>6, <2>1, <2>2, SubSeqThins
  <2>4. \E f : Thins(p, pending, f)
    BY <1>1, <1>6, <2>1, <2>2, SubSeqThins
  <2> QED BY <1>3, <1>4, <2>1, <2>3, <2>4
<1>9. Held(a, l, b) /\ Held(a, l, p) /\ Precede(m, a, b, p)
  <2>1. Held(a, l, b) /\ Held(a, l, p)
    BY <1>7, <1>8, ThinsKeeps DEF SinkInv
  <2>2. ASSUME NEW i \in 1..Len(b), NEW j \in 1..Len(p) PROVE Follows(m, a, b[i], p[j])
    <3>1. PICK k \in Nat : k = n + j /\ k \in 1..Len(pending) /\ i \in 1..Len(pending) /\ i < k
      BY <1>3, <1>4, <1>7, <1>8
    <3>2. b[i] = pending[i]
      BY <1>1, <1>3, <1>4, <1>6, <1>7
    <3>3. p[j] = pending[k]
      BY <1>1, <1>3, <1>4, <1>6, <1>8, <3>1
    <3>4. Follows(m, a, pending[i], pending[k])
      BY <3>1 DEF SinkInv, InTurn, Ordered
    <3> QED BY <3>2, <3>3, <3>4
  <2> QED BY <2>1, <2>2 DEF Precede
<1>10. InTurn(m, a, stored, b, p)
  BY <1>7, <1>8, <1>9, ThinsKeeps DEF SinkInv, InTurn
<1>11. Len(a) = Len(p) + Len(b) + Len(stored) + Cardinality(l) + dropped
  <2>1. Len(batch) = 0
    BY <1>1
  <2>2. PICK q \in Nat, y \in Nat, z \in Nat, k \in Nat, w \in Nat :
           /\ q = Len(pending) /\ y = Len(stored) /\ z = Cardinality(l) /\ k = dropped /\ w = n
    BY <1>3, <1>4, FS_CardinalityType DEF SinkInv
  <2>3. Len(a) = q + 0 + y + z + k
    BY <2>1, <2>2 DEF SinkInv, RecordsAccounted
  <2>4. Len(p) = q - w /\ w <= q
    BY <1>4, <1>8, <2>2
  <2>5. q + 0 + y + z + k = (q - w) + w + y + z + k
    BY <2>4
  <2> QED BY <1>7, <2>2, <2>3, <2>4, <2>5
<1> QED BY <1>1, <1>5, <1>7, <1>8, <1>9, <1>10, <1>11 DEF SinkInv, RecordsAccounted

\* A batch falls into a group and the rest, which have no subject in common.
LEMMA Grouped ==
  ASSUME SinkInv, batch # << >>,
         NEW g, g = GroupOf(Head(batch)),
         NEW r, r = Picked(batch, DOMAIN batch \ PlacesOf(Head(batch)))
  PROVE  /\ g \in Seq(Requests) /\ r \in Seq(Requests)
         /\ Len(g) \in Nat /\ Len(r) \in Nat /\ Len(batch) = Len(g) + Len(r)
         /\ \E f : Thins(g, batch, f)
         /\ \E f : Thins(r, batch, f)
         /\ Precede(scene.msg, added, g, r)
<1> DEFINE first == Head(batch)
           I == PlacesOf(first)
           J == DOMAIN batch \ I
<1>1. batch \in Seq(Requests) /\ DOMAIN batch = 1..Len(batch) /\ Len(batch) \in Nat
  BY DEF SinkInv
<1>2. I \in SUBSET (1..Len(batch)) /\ J \in SUBSET (1..Len(batch))
  BY <1>1 DEF PlacesOf
<1>3. /\ \A i \in I : SubjectOf(batch[i]) = SubjectOf(first)
      /\ \A i \in J : SubjectOf(batch[i]) # SubjectOf(first)
  BY DEF PlacesOf
<1>4. g = Picked(batch, I) /\ r = Picked(batch, J)
  BY DEF GroupOf
<1>5. J = (1..Len(batch)) \ I
  BY <1>1
<1> HIDE DEF first, I, J
<1>6. /\ g \in Seq(Requests) /\ Len(g) = Cardinality(I) /\ Cardinality(I) \in Nat
      /\ Thins(g, batch, InOrder(I))
      /\ \A i \in 1..Len(g) : InOrder(I)[i] \in I
  BY <1>1, <1>2, <1>4, PickedThins
<1>7. /\ r \in Seq(Requests) /\ Len(r) = Cardinality(J) /\ Cardinality(J) \in Nat
      /\ Thins(r, batch, InOrder(J))
      /\ \A i \in 1..Len(r) : InOrder(J)[i] \in J
  BY <1>1, <1>2, <1>4, PickedThins
<1>8. Len(batch) = Len(g) + Len(r)
  <2>1. IsFiniteSet(1..Len(batch)) /\ Cardinality(1..Len(batch)) = Len(batch)
    BY <1>1, FS_Interval
  <2>2. IsFiniteSet(I) /\ IsFiniteSet(J)
    BY <1>2, <2>1, FS_Subset
  <2>3. I \cup J = 1..Len(batch) /\ I \cap J = {}
    BY <1>2, <1>5
  <2>4. Cardinality(I \cup J) = Cardinality(I) + Cardinality(J)
    <3>1. Cardinality(I \cup J) = Cardinality(I) + Cardinality(J) - Cardinality(I \cap J)
      BY <2>2, FS_Union
    <3>2. Cardinality(I \cap J) = 0
      BY <2>3, FS_EmptySet
    <3> QED BY <1>6, <1>7, <3>1, <3>2
  <2> QED BY <1>6, <1>7, <2>1, <2>3, <2>4
<1>9. ASSUME NEW i \in 1..Len(g), NEW j \in 1..Len(r)
      PROVE  Follows(scene.msg, added, g[i], r[j])
  <2>1. g[i] = batch[InOrder(I)[i]] /\ r[j] = batch[InOrder(J)[j]]
    BY <1>6, <1>7 DEF Thins
  <2>2. SubjectOf(g[i]) = SubjectOf(first) /\ SubjectOf(r[j]) # SubjectOf(first)
    BY <1>3, <1>6, <1>7, <2>1
  <2> QED BY <2>2 DEF SubjectOf, Follows
<1> QED BY <1>6, <1>7, <1>8, <1>9 DEF Precede

\* Parts of the records that are in turn, put one behind the other.
LEMMA JoinedIs ==
  ASSUME NEW R, NEW s \in Seq(R), NEW g \in Seq(R), NEW u, u = s \o g
  PROVE  /\ u \in Seq(R) /\ Len(u) = Len(s) + Len(g) /\ Len(s) \in Nat /\ Len(g) \in Nat
         /\ \A i \in 1..Len(u) :
              \/ i \in 1..Len(s) /\ u[i] = s[i]
              \/ i - Len(s) \in 1..Len(g) /\ Len(s) < i /\ u[i] = g[i - Len(s)]
<1>1. Len(s) \in Nat /\ Len(g) \in Nat
  OBVIOUS
<1>2. /\ u \in Seq(R) /\ Len(u) = Len(s) + Len(g)
      /\ \A i \in 1..Len(u) : u[i] = IF i <= Len(s) THEN s[i] ELSE g[i - Len(s)]
  BY ConcatProperties
<1>3. ASSUME NEW i \in 1..Len(u)
      PROVE  \/ i \in 1..Len(s) /\ u[i] = s[i]
             \/ i - Len(s) \in 1..Len(g) /\ Len(s) < i /\ u[i] = g[i - Len(s)]
  BY <1>1, <1>2
<1> QED BY <1>1, <1>2, <1>3

LEMMA JoinedHeld ==
  ASSUME NEW a, NEW l, NEW R, NEW s \in Seq(R), NEW g \in Seq(R), NEW u, u = s \o g,
         Held(a, l, s), Held(a, l, g)
  PROVE  Held(a, l, u)
<1>1. ASSUME NEW i \in 1..Len(u) PROVE u[i] \notin l /\ In(u[i], a)
  <2>1. \/ i \in 1..Len(s) /\ u[i] = s[i]
        \/ i - Len(s) \in 1..Len(g) /\ u[i] = g[i - Len(s)]
    BY JoinedIs
  <2> QED BY <2>1 DEF Held
<1> QED BY <1>1 DEF Held

LEMMA JoinedOrder ==
  ASSUME NEW m, NEW a, NEW R, NEW s \in Seq(R), NEW g \in Seq(R), NEW u, u = s \o g,
         Ordered(m, a, s), Ordered(m, a, g), Precede(m, a, s, g)
  PROVE  Ordered(m, a, u)
<1>1. Len(s) \in Nat /\ Len(g) \in Nat /\ Len(u) \in Nat
  BY JoinedIs
<1>2. \A i \in 1..Len(u) :
        \/ i \in 1..Len(s) /\ u[i] = s[i]
        \/ i - Len(s) \in 1..Len(g) /\ Len(s) < i /\ u[i] = g[i - Len(s)]
  BY JoinedIs
<1>3. ASSUME NEW i \in 1..Len(u), NEW j \in 1..Len(u), i < j
      PROVE  Follows(m, a, u[i], u[j])
  <2>0. i \in Nat /\ j \in Nat
    BY <1>1
  <2>1. CASE i \in 1..Len(s) /\ u[i] = s[i] /\ j \in 1..Len(s) /\ u[j] = s[j]
    BY <1>3, <2>1 DEF Ordered
  <2>2. ASSUME i \in 1..Len(s), u[i] = s[i], j - Len(s) \in 1..Len(g), u[j] = g[j - Len(s)]
        PROVE  Follows(m, a, u[i], u[j])
    BY <2>2 DEF Precede
  <2>3. ASSUME i - Len(s) \in 1..Len(g), u[i] = g[i - Len(s)],
               j - Len(s) \in 1..Len(g), u[j] = g[j - Len(s)]
        PROVE  Follows(m, a, u[i], u[j])
    <3>1. i - Len(s) < j - Len(s)
      BY <1>1, <1>3, <2>0
    <3> QED BY <2>3, <3>1 DEF Ordered
  <2>4. Len(s) < i => ~(j \in 1..Len(s))
    BY <1>1, <1>3, <2>0
  <2> QED BY <1>2, <2>1, <2>2, <2>3, <2>4
<1> QED BY <1>3 DEF Ordered

LEMMA JoinedPrecede ==
  ASSUME NEW m, NEW a, NEW R, NEW s \in Seq(R), NEW g \in Seq(R), NEW u, u = s \o g,
         NEW v, Precede(m, a, s, v), Precede(m, a, g, v)
  PROVE  Precede(m, a, u, v)
<1>1. ASSUME NEW i \in 1..Len(u), NEW j \in 1..Len(v)
      PROVE  Follows(m, a, u[i], v[j])
  <2>1. \/ i \in 1..Len(s) /\ u[i] = s[i]
        \/ i - Len(s) \in 1..Len(g) /\ u[i] = g[i - Len(s)]
    BY JoinedIs
  <2> QED BY <2>1 DEF Precede
<1> QED BY <1>1 DEF Precede

LEMMA UptoFinite == ASSUME NEW n \in Nat PROVE IsFiniteSet(1..n) /\ Cardinality(1..n) = n
BY FS_Interval

\* What is in turn has no record twice.
LEMMA NoneTwice ==
  ASSUME NEW m, NEW a, NEW l, NEW R, NEW s \in Seq(R), Held(a, l, s), Ordered(m, a, s),
         Len(a) \in Nat
  PROVE  /\ IsFiniteSet(Range(s)) /\ Cardinality(Range(s)) = Len(s)
         /\ \A x \in Range(s) : In(x, a) /\ x \notin l
<1>1. Len(s) \in Nat /\ DOMAIN s = 1..Len(s)
  OBVIOUS
<1>2. Range(s) = {s[i] : i \in 1..Len(s)}
  BY <1>1 DEF Range
<1>3. ASSUME NEW i \in 1..Len(s), NEW j \in 1..Len(s), s[i] = s[j] PROVE i = j
  <2>1. In(s[i], a)
    BY DEF Held
  <2>2. ~Follows(m, a, s[i], s[i])
    BY <2>1, TwoFollow
  <2>3. ~(i < j) /\ ~(j < i)
    BY <1>3, <2>2 DEF Ordered
  <2> QED BY <1>1, <2>3
<1> DEFINE f == [i \in 1..Len(s) |-> s[i]]
<1>4. f \in Bijection(1..Len(s), Range(s))
  BY <1>2, <1>3 DEF Bijection, Injection, Surjection, IsInjective
<1>5. ExistsBijection(1..Len(s), Range(s))
  BY <1>4 DEF ExistsBijection
<1>6. IsFiniteSet(1..Len(s)) /\ Cardinality(1..Len(s)) = Len(s)
  BY <1>1, UptoFinite
<1>7. \A x \in Range(s) : In(x, a) /\ x \notin l
  BY <1>2 DEF Held
<1> QED BY <1>5, <1>6, <1>7, FS_Bijection

LEMMA SinkOfPublish ==
  ASSUME SinkInv, PublishGroup
  PROVE  SinkInv'
<1> DEFINE m == scene.msg  a == added
<1>1. /\ UNCHANGED <<scene, work, pending, added, dropped>> /\ batch # << >>
      /\ {added, stored, batch, pending} \subseteq Seq(Requests)
      /\ Held(a, lost, stored) /\ Held(a, lost, batch) /\ Held(a, lost, pending)
      /\ InTurn(m, a, stored, batch, pending)
      /\ IsFiniteSet(lost) /\ \A t \in lost : In(t, a)
  BY DEF PublishGroup, SinkInv
<1>2. PICK g, r : /\ g = GroupOf(Head(batch))
                  /\ r = Picked(batch, DOMAIN batch \ PlacesOf(Head(batch)))
  OBVIOUS
<1>3. batch' = r /\ \/ stored' = stored \o g /\ lost' = lost
                    \/ lost' = lost \cup Range(g) /\ stored' = stored
  BY <1>2 DEF PublishGroup
<1>4. /\ g \in Seq(Requests) /\ r \in Seq(Requests)
      /\ Len(g) \in Nat /\ Len(r) \in Nat /\ Len(batch) = Len(g) + Len(r)
      /\ \E f : Thins(g, batch, f)
      /\ \E f : Thins(r, batch, f)
      /\ Precede(m, a, g, r)
  BY <1>1, <1>2, Grouped
<1>5. /\ Held(a, lost, g) /\ Ordered(m, a, g) /\ Precede(m, a, stored, g)
      /\ Precede(m, a, g, pending)
  BY <1>1, <1>4, ThinsKeeps DEF InTurn
<1>6. /\ Held(a, lost, r) /\ Ordered(m, a, r) /\ Precede(m, a, stored, r)
      /\ Precede(m, a, r, pending)
  BY <1>1, <1>4, ThinsKeeps DEF InTurn
<1>7. Len(a) \in Nat /\ Len(stored) \in Nat /\ Len(pending) \in Nat
      /\ dropped \in Nat /\ Cardinality(lost) \in Nat
      /\ Len(a) = Len(pending) + Len(batch) + Len(stored) + Cardinality(lost) + dropped
  BY FS_CardinalityType DEF SinkInv, RecordsAccounted
<1>8. ASSUME NEW st, NEW l, st = stored', l = lost', st \in Seq(Requests),
             Held(a, l, st), Held(a, l, r), Held(a, l, pending),
             InTurn(m, a, st, r, pending), IsFiniteSet(l), \A t \in l : In(t, a),
             Len(st) \in Nat, Cardinality(l) \in Nat,
             Len(st) + Cardinality(l) = Len(stored) + Cardinality(lost) + Len(g)
      PROVE  SinkInv'
  <2>1. PICK q \in Nat, b \in Nat, h \in Nat, x \in Nat, y \in Nat, z \in Nat, k \in Nat,
             u \in Nat, v \in Nat :
          /\ q = Len(pending) /\ b = Len(r) /\ h = Len(g) /\ x = Len(stored)
          /\ z = Cardinality(lost) /\ k = dropped /\ u = Len(st) /\ v = Cardinality(l)
    BY <1>4, <1>7, <1>8
  <2>2. Len(a) = q + (h + b) + x + z + k /\ u + v = x + z + h
    BY <1>4, <1>7, <1>8, <2>1
  <2>3. q + (h + b) + x + z + k = q + b + u + v + k
    BY <2>2
  <2>4. Len(a) = Len(pending) + Len(r) + Len(st) + Cardinality(l) + dropped
    BY <2>1, <2>2, <2>3
  <2> QED BY <1>1, <1>3, <1>4, <1>7, <1>8, <2>4 DEF SinkInv, RecordsAccounted
<1>9. CASE stored' = stored \o g /\ lost' = lost
  <2>1. PICK st : st = stored'
    OBVIOUS
  <2>2. /\ st \in Seq(Requests) /\ Len(st) = Len(stored) + Len(g) /\ Held(a, lost, st)
        /\ Ordered(m, a, st) /\ Precede(m, a, st, r) /\ Precede(m, a, st, pending)
    <3>1. st = stored \o g
      BY <1>9, <2>1
    <3>2. st \in Seq(Requests) /\ Len(st) = Len(stored) + Len(g) /\ Held(a, lost, st)
      <4>1. Held(a, lost, st)
        BY <1>1, <1>4, <1>5, <3>1, JoinedHeld
      <4>2. st \in Seq(Requests) /\ Len(st) = Len(stored) + Len(g)
        BY <1>1, <1>4, <3>1, JoinedIs
      <4> QED BY <4>1, <4>2
    <3>3. Ordered(m, a, st)
      BY <1>1, <1>4, <1>5, <3>1, JoinedOrder DEF InTurn
    <3>4. Precede(m, a, st, r) /\ Precede(m, a, st, pending)
      BY <1>1, <1>4, <1>5, <1>6, <3>1, JoinedPrecede DEF InTurn
    <3> QED BY <3>2, <3>3, <3>4
  <2>3. InTurn(m, a, st, r, pending)
    BY <1>1, <1>6, <2>2 DEF InTurn
  <2>4. /\ Len(st) \in Nat
        /\ Len(st) + Cardinality(lost) = Len(stored) + Cardinality(lost) + Len(g)
    BY <1>4, <1>7, <2>2
  <2> QED BY <1>1, <1>6, <1>7, <1>8, <1>9, <2>1, <2>2, <2>3, <2>4
<1>10. CASE lost' = lost \cup Range(g) /\ stored' = stored
  <2>1. PICK l : l = lost'
    OBVIOUS
  <2>2. /\ IsFiniteSet(Range(g)) /\ Cardinality(Range(g)) = Len(g)
        /\ \A x \in Range(g) : In(x, a) /\ x \notin lost
    BY <1>4, <1>5, <1>7, NoneTwice
  <2>3. /\ IsFiniteSet(l) /\ \A t \in l : In(t, a)
        /\ Cardinality(l) \in Nat /\ Cardinality(l) = Cardinality(lost) + Len(g)
    <3>1. /\ IsFiniteSet(l) /\ Cardinality(l) \in Nat
          /\ Cardinality(l) = Cardinality(lost) + Len(g) - Cardinality(lost \cap Range(g))
      BY <1>1, <1>10, <2>1, <2>2, FS_Union, FS_CardinalityType
    <3>2. lost \cap Range(g) = {}
      BY <2>2
    <3>3. Cardinality(l) = Cardinality(lost) + Len(g)
      <4>1. Cardinality(lost \cap Range(g)) = 0
        BY <3>2, FS_EmptySet
      <4> QED BY <1>4, <1>7, <3>1, <4>1
    <3>4. \A t \in l : In(t, a)
      BY <1>1, <1>10, <2>1, <2>2
    <3> QED BY <3>1, <3>3, <3>4
  <2>4. ASSUME NEW s \in Seq(Requests), Held(a, lost, s), Precede(m, a, g, s) \/ Precede(m, a, s, g)
        PROVE  Held(a, l, s)
    <3> SUFFICES ASSUME NEW i \in 1..Len(s) PROVE s[i] \notin Range(g)
      BY <1>10, <2>1, <2>4 DEF Held
    <3>1. SUFFICES ASSUME s[i] \in Range(g) PROVE FALSE
      OBVIOUS
    <3>2. PICK j \in 1..Len(g) : s[i] = g[j]
      BY <1>4, <3>1 DEF Range
    <3>3. In(s[i], a)
      BY <2>4 DEF Held
    <3>4. Follows(m, a, s[i], s[i])
      BY <2>4, <3>2 DEF Precede
    <3> QED BY <1>7, <3>3, <3>4, TwoFollow
  <2>5. Held(a, l, stored) /\ Held(a, l, r) /\ Held(a, l, pending)
    BY <1>1, <1>4, <1>5, <1>6, <2>4
  <2>6. InTurn(m, a, stored, r, pending)
    BY <1>1, <1>6 DEF InTurn
  <2>7. Len(stored) + Cardinality(l) = Len(stored) + Cardinality(lost) + Len(g)
    BY <1>4, <1>7, <2>3
  <2> QED BY <1>1, <1>7, <1>8, <1>10, <2>1, <2>3, <2>5, <2>6, <2>7
<1> QED BY <1>3, <1>9, <1>10

LEMMA SinkInvariant == Spec => []SinkInv
<1>1. Init => SinkInv
  <2> SUFFICES ASSUME Init PROVE SinkInv
    OBVIOUS
  <2>1. /\ pending = << >> /\ batch = << >> /\ stored = << >> /\ added = << >>
        /\ lost = {} /\ dropped = 0
    BY DEF Init
  <2>2. << >> \in Seq(Requests) /\ Len(<< >>) = 0
    OBVIOUS
  <2>3. IsFiniteSet({}) /\ Cardinality({}) = 0
    BY FS_EmptySet
  <2>4. \A s : Held(<< >>, {}, << >>) /\ Ordered(s, << >>, << >>) /\ Precede(s, << >>, << >>, << >>)
    BY <2>2 DEF Held, Ordered, Precede
  <2> QED BY <2>1, <2>2, <2>3, <2>4 DEF SinkInv, InTurn, RecordsAccounted
<1>2. IInv /\ SinkInv /\ [Next]_vars => SinkInv'
  <2> SUFFICES ASSUME IInv, SinkInv, [Next]_vars PROVE SinkInv'
    OBVIOUS
  <2>1. CASE \E t \in Messages :
               \/ Reject(t) \/ (\E dead \in SUBSET Requests : Collect(t, dead))
               \/ Submit(t) \/ Wait(t) \/ Refuse(t) \/ TooLate(t)
               \/ Expire(t) \/ Begin(t) \/ Panic(t) \/ Step(t)
    BY <2>1, SinkOfOthers, SinkOfCollect, SinkOfRecord DEF Step
  <2>2. CASE Drain \/ PoolClosed \/ SinkClosed \/ Turn \/ UNCHANGED vars
    <3>1. UNCHANGED sink /\ scene' = scene /\ work' = work
      BY <2>2 DEF Drain, PoolClosed, SinkClosed, Turn, vars
    <3> QED BY <3>1, SinkElsewhere
  <2> QED BY <2>1, <2>2, SinkOfFlush, SinkOfPublish DEF Next
<1> QED BY <1>1, <1>2, Invariant, PTL DEF Spec

\* No record vanishes unseen, for any buffer, batch, subjects and failing
\* publishes: each is waiting, published, lost with a logged publish, or counted
\* as dropped (sink.go:67-200).
THEOREM NoRecordVanishes == Spec => []RecordsAccounted
<1>1. SinkInv => RecordsAccounted
  BY DEF SinkInv
<1> QED BY <1>1, SinkInvariant, PTL

LEMMA OrderInv == SinkInv => RecordsInOrder
<1> SUFFICES ASSUME SinkInv, NEW all, all = stored \o batch \o pending,
                    NEW i \in DOMAIN all, NEW j \in DOMAIN all, i < j,
                    SubjectOf(all[i]) = SubjectOf(all[j])
             PROVE  Turned(all[i]) < Turned(all[j])
  BY DEF RecordsInOrder
<1> DEFINE m == scene.msg  a == added
<1>1. /\ {added, stored, batch, pending} \subseteq Seq(Requests)
      /\ Held(a, lost, stored) /\ Held(a, lost, batch) /\ Held(a, lost, pending)
      /\ InTurn(m, a, stored, batch, pending)
  BY DEF SinkInv
<1>2. PICK two : two = stored \o batch
  OBVIOUS
<1>3. /\ two \in Seq(Requests) /\ Held(a, lost, two)
      /\ Ordered(m, a, two) /\ Precede(m, a, two, pending)
  BY <1>1, <1>2, JoinedIs, JoinedHeld, JoinedOrder, JoinedPrecede DEF InTurn
<1>4. all = two \o pending
  BY <1>2
<1>5. /\ all \in Seq(Requests) /\ Held(a, lost, all) /\ Ordered(m, a, all)
  BY <1>1, <1>3, <1>4, JoinedIs, JoinedHeld, JoinedOrder DEF InTurn
<1>6. i \in 1..Len(all) /\ j \in 1..Len(all)
  BY <1>5
<1>7. Follows(m, a, all[i], all[j]) /\ In(all[i], a) /\ In(all[j], a)
  BY <1>5, <1>6 DEF Ordered, Held
<1>8. DOMAIN added = 1..Len(added)
  BY <1>1
<1>9. \A x : In(x, a) => Turned(x) \in 1..Len(added) /\ added[Turned(x)] = x
  BY <1>8 DEF In, Turned
<1> QED BY <1>7, <1>9 DEF Follows, SubjectOf

\* The records of a subject go out in the order they were made, none twice
\* (sink.go:67-200).
THEOREM OneSubjectInOrder == Spec => []RecordsInOrder
BY SinkInvariant, OrderInv, PTL

-----------------------------------------------------------------------------
(* Type correctness.                                                        *)

Points == {"fresh", "arriving", "waiting", "queued", "fetch", "judge", "full", "client", "overload",
           "send", "audit", "done"}

\* The rules and the notes of a request are those of its profile, their amounts
\* numbers; only a request with a profile has its events fired.
HandOK(m, w) ==
  /\ w.pc \in Points /\ w.by \in {"callback", "pool", "worker"}
  /\ w.pc \in {"full", "client"} => m.profile # None
  /\ m.profile # None =>
       /\ w.over \in Seq(Range(m.profile.rules))
       /\ \A k \in DOMAIN w.asked.notes : w.asked.notes[k] \in Int

HandsOK == \A t \in Requests : HandOK(scene.msg[t], work[t])

\* A request is answered as it leaves "send", where none comes back to.
AnswersOK ==
  /\ answers = [t \in Requests |-> answers[t]]
  /\ \A t \in Requests :
       answers[t] = << >> \/ (work[t].pc \in {"audit", "done"} /\ \E x : answers[t] = <<x>>)

WorldOK ==
  /\ now \in 0..scene.horizon /\ world \in scene.worlds
  /\ phase \in {"run", "closing", "flushing", "done"}
  /\ turns \in 0..MaxTurns /\ faults \in 0..MaxFaults

LimitsOK == Len(pending) <= MaxPending /\ Len(batch) <= MaxItems

TInv == HandsOK /\ AnswersOK /\ WorldOK /\ LimitsOK /\ level \in [Refs -> 0..100]

LEMMA HandsOne ==
  ASSUME IInv, HandsOK, NEW t \in Messages, NEW v, Become(t, v), scene' = scene,
         HandOK(scene.msg[t], v)
  PROVE  HandsOK'
<1>1. \A u \in Requests : work'[u] = IF u = t THEN v ELSE work[u]
  BY OwnFields DEF Become, IInv, Shape
<1> QED BY <1>1 DEF HandsOK, HandOK

LEMMA HandMoves ==
  ASSUME NEW m, NEW w, HandOK(m, w), NEW v, v.pc \in Points \ {"full", "client"},
         v.by \in {"callback", "pool", "worker"}, v.over = w.over, v.asked = w.asked
  PROVE  HandOK(m, v)
BY DEF HandOK

LEMMA FailedHand ==
  ASSUME NEW m, NEW w, Fields(w), HandOK(m, w), NEW code
  PROVE  HandOK(m, Failed(w, code)) /\ HandOK(m, Fallback(w, code))
<1> DEFINE r == Result("error", code)
           x == [w EXCEPT !.pc = "send", !.res = r, !.audit = TRUE, !.asks = << >>]
           y == [x EXCEPT !.audit = FALSE]
<1>0. Failed(w, code) = x /\ Fallback(w, code) = y
  BY DEF Failed, Fallback, Answer
<1> HIDE DEF r
<1>1. Fields(x) /\ x.pc = "send" /\ x.by = w.by /\ x.over = w.over /\ x.asked = w.asked
  BY DEF Fields, FieldNames
<1> HIDE DEF x
<1>2. y.pc = "send" /\ y.by = w.by /\ y.over = w.over /\ y.asked = w.asked
  BY <1>1 DEF Fields, FieldNames
<1> HIDE DEF y
<1>3. w.by \in {"callback", "pool", "worker"} /\ "send" \in Points \ {"full", "client"}
  BY DEF HandOK, Points
<1> QED BY <1>0, <1>1, <1>2, <1>3, HandMoves

LEMMA DoneHand ==
  ASSUME NEW m, NEW w, HandOK(m, w)
  PROVE  HandOK(m, Done(w))
<1>1. /\ Done(w).pc = "done" /\ Done(w).by = w.by /\ Done(w).over = << >>
      /\ Done(w).asked = NotAsked
  BY DEF Done, Fresh
<1>2. DOMAIN NotAsked.notes = {}
  BY DEF NotAsked, Nothing
<1>3. \A R : << >> \in Seq(R)
  OBVIOUS
<1> HIDE DEF Done, NotAsked
<1> QED BY <1>1, <1>2, <1>3 DEF HandOK, Points

-----------------------------------------------------------------------------
(* The rules of a round, and what they charge.                              *)

LEMMA ProfileOK ==
  ASSUME IInv, NEW t \in Messages, Profile(t) # None
  PROVE  Numbered(Profile(t)) /\ Advised(scene.msg[t].prior)
BY InspectAssumption DEF IInv, Shape, Messages, Profile

LEMMA PickedFrom ==
  ASSUME NEW R, NEW s \in Seq(R), NEW I, I \subseteq DOMAIN s
  PROVE  Picked(s, I) \in Seq(R)
<1>1. I \in SUBSET (1..Len(s))
  OBVIOUS
<1> QED BY <1>1, PickedThins

LEMMA RulesAreOf ==
  ASSUME NEW p, Numbered(p), NEW on, NEW bucket, NEW next
  PROVE  RulesFor(p, on, bucket, next) \in Seq(Range(p.rules))
<1>1. p.rules \in Seq(Range(p.rules))
  BY DEF Numbered
<1> QED BY <1>1, PickedFrom DEF RulesFor

LEMMA OverloadingOf ==
  ASSUME IInv, NEW t \in Messages, Profile(t) # None, NEW fill, NEW shed
  PROVE  Overloading(t, fill, shed) \in Seq(Range(Profile(t).rules))
<1> DEFINE R == Range(Profile(t).rules)
           rules == RulesFor(Profile(t), "overload", "", "")
<1>1. rules \in Seq(R)
  BY ProfileOK, RulesAreOf
<1> HIDE DEF rules
<1>2. Picked(rules, {i \in DOMAIN rules : Fires(rules[i], fill, shed)}) \in Seq(R)
  BY <1>1, PickedFrom
<1>3. << >> \in Seq(R)
  OBVIOUS
<1> QED BY <1>2, <1>3 DEF Overloading, rules

LEMMA FullAreOf ==
  ASSUME NEW p, Numbered(p), NEW levels, NEW next
  PROVE  FullFor(p, levels, next) \in Seq(Range(p.rules))
<1> DEFINE R == Range(p.rules)
           Round(kind, on, threshold) ==
             IF kind \in DOMAIN levels /\ threshold # 0 /\ levels[kind] >= threshold
               THEN RulesFor(p, on, kind, next) ELSE << >>
           Both(kind) == Round(kind, "bucket_captcha", p.tiers[kind].captchaAt)
                           \o Round(kind, "bucket_ban", p.tiers[kind].banAt)
<1>1. ASSUME NEW kind, NEW on, NEW threshold
      PROVE  Round(kind, on, threshold) \in Seq(R)
  <2>1. RulesFor(p, on, kind, next) \in Seq(R)
    BY RulesAreOf
  <2>2. << >> \in Seq(R)
    OBVIOUS
  <2> HIDE DEF R
  <2> QED BY <2>1, <2>2
<1> HIDE DEF Round
<1>2. \A a, b \in Seq(R) : a \o b \in Seq(R)
  OBVIOUS
<1>3. \A kind : Both(kind) \in Seq(R)
  BY <1>1, <1>2
<1> HIDE DEF R
<1>4. FullFor(p, levels, next)
        = Both("asn_net") \o Both("asn_router") \o Both("ip") \o Both("sess")
  BY DEF FullFor, Round
<1> HIDE DEF Both
<1>5. Both("asn_net") \o Both("asn_router") \in Seq(R)
  BY <1>2, <1>3
<1>6. Both("asn_net") \o Both("asn_router") \o Both("ip") \in Seq(R)
  BY <1>2, <1>3, <1>5
<1>7. Both("asn_net") \o Both("asn_router") \o Both("ip") \o Both("sess") \in Seq(R)
  BY <1>2, <1>3, <1>6
<1> QED BY <1>4, <1>7 DEF R

LEMMA EffectsAreOf ==
  ASSUME IInv, HandsOK, NEW t \in Messages, Profile(t) # None,
         work[t].pc \in {"full", "client", "overload"}
  PROVE  EffectsOf(t) \in Seq(Range(Profile(t).rules))
<1> DEFINE p == Profile(t)  m == scene.msg[t]  w == work[t]
<1>1. t \in Requests /\ Numbered(p) /\ p = m.profile
  BY OwnFields, ProfileOK DEF Profile
<1>2. CASE w.pc = "full"
  BY <1>1, <1>2, RoundsAre, FullAreOf DEF FullOf
<1>3. CASE w.pc = "client"
  <2>1. << >> \in Seq(Range(p.rules))
    OBVIOUS
  <2>2. ClientOf(m, w) \in Seq(Range(p.rules))
    BY <1>1, <2>1, RulesAreOf DEF ClientOf
  <2> QED BY <1>3, <2>2, RoundsAre
<1>4. CASE w.pc = "overload"
  BY <1>1, <1>4, RoundsAre DEF HandsOK, HandOK
<1> QED BY <1>2, <1>3, <1>4

LEMMA SumsAreNumbers ==
  ASSUME NEW p, Numbered(p), NEW rules \in Seq(Range(p.rules)), NEW k \in DOMAIN Sums(rules)
  PROVE  Sums(rules)[k] \in Int
<1> DEFINE f == [i \in DOMAIN rules |-> rules[i].percent]
           some == {i \in DOMAIN rules : rules[i].charge = k}
<1>1. Sums(rules)[k] = SumFunctionOnSet(f, some)
  BY DEF Sums
<1>2. Len(rules) \in Nat /\ DOMAIN rules = 1..Len(rules)
  OBVIOUS
<1>3. IsFiniteSet(some)
  <2>1. some \subseteq 1..Len(rules)
    BY <1>2
  <2> QED BY <1>2, <2>1, UptoFinite, FS_Subset
<1>4. \A i \in some : f[i] \in Int
  <2> SUFFICES ASSUME NEW i \in some PROVE f[i] \in Int
    OBVIOUS
  <2>1. rules[i] \in Range(p.rules)
    BY <1>2
  <2> QED BY <2>1 DEF Numbered
<1> HIDE DEF f, some
<1> QED BY <1>1, <1>3, <1>4, SumIsInt

LEMMA Clamped == \A n \in Int : Clamp(n) \in 0..100
BY DEF Clamp

\* A charge leaves percentages, if what is charged are numbers.
LEMMA ChargedIs ==
  ASSUME level \in [Refs -> 0..100], NEW t, NEW w, NEW sums,
         On(t) => \A k \in DOMAIN sums : sums[k] \in Int
  PROVE  Charged(t, w, sums) \in [Refs -> 0..100]
<1> DEFINE hit == {RefOf(t, w, k) : k \in Keyed(t, w, DOMAIN sums)}
<1>1. ASSUME NEW r \in hit PROVE sums[r[2]] \in Int
  <2>1. PICK k \in Keyed(t, w, DOMAIN sums) : r = RefOf(t, w, k)
    OBVIOUS
  <2>2. r[2] = k
    BY <2>1 DEF RefOf
  <2>3. On(t) /\ k \in DOMAIN sums
    BY DEF Keyed
  <2> QED BY <2>2, <2>3
<1> HIDE DEF hit
<1>2. ASSUME NEW r \in Refs
      PROVE  (IF r \in hit THEN Clamp(level[r] + sums[r[2]]) ELSE level[r]) \in 0..100
  <2>1. level[r] \in 0..100
    OBVIOUS
  <2>2. CASE r \in hit
    <3>1. level[r] + sums[r[2]] \in Int
      BY <1>1, <2>1, <2>2
    <3> QED BY <2>2, <3>1, Clamped
  <2> QED BY <2>1, <2>2
<1> QED BY <1>2 DEF Charged, hit

-----------------------------------------------------------------------------
(* Each step.                                                               *)

LEMMA HandsOfPool ==
  ASSUME IInv, HandsOK, NEW t \in Messages,
         \/ Reject(t) \/ Submit(t) \/ Wait(t) \/ Refuse(t) \/ TooLate(t) \/ Expire(t)
         \/ Panic(t) \/ Begin(t)
  PROVE  HandsOK'
<1> DEFINE m == scene.msg[t]  w == work[t]
<1>1. t \in Requests /\ Fields(w) /\ HandOK(m, w) /\ m.profile = Profile(t)
  BY OwnFields DEF HandsOK, Profile
<1>2. scene' = scene
  BY DEF Reject, Submit, Wait, Refuse, TooLate, Expire, Panic, Begin, Quiet
<1>3. ASSUME NEW v, Become(t, v), HandOK(m, v) PROVE HandsOK'
  BY <1>2, <1>3, HandsOne
<1>4. CASE Reject(t) \/ TooLate(t) \/ Expire(t) \/ Panic(t)
  <2>1. \A code : HandOK(m, Failed(w, code)) /\ HandOK(m, Fallback(w, code))
    BY <1>1, FailedHand
  <2> QED BY <1>3, <1>4, <2>1 DEF Reject, TooLate, Expire, Panic, Recovered
<1>5. CASE Submit(t)
  <2> DEFINE fill == FillOf(t)
             v == [w EXCEPT !.pc = "queued", !.by = "pool", !.fill = fill]
  <2>1. Become(t, v)
    BY <1>5 DEF Submit
  <2> HIDE DEF fill
  <2>2. v.pc = "queued" /\ v.by = "pool" /\ v.over = w.over /\ v.asked = w.asked
    BY <1>1 DEF Fields, FieldNames
  <2> HIDE DEF v
  <2>3. HandOK(m, v)
    BY <1>1, <2>2, HandMoves DEF Points
  <2> QED BY <1>3, <2>1, <2>3
<1>10. CASE Wait(t)
  <2> DEFINE v == [w EXCEPT !.pc = "waiting"]
  <2>1. v.pc = "waiting" /\ v.by = w.by /\ v.over = w.over /\ v.asked = w.asked
    BY <1>1 DEF Fields, FieldNames
  <2>2. Become(t, v) /\ w.by \in {"callback", "pool", "worker"}
    BY <1>1, <1>10 DEF Wait, HandOK
  <2> HIDE DEF v
  <2>3. HandOK(m, v)
    BY <1>1, <2>1, <2>2, HandMoves DEF Points
  <2> QED BY <1>3, <2>2, <2>3
<1>6. ASSUME NEW f, Fields(f), HandOK(m, f), NEW over,
             m.profile # None => over \in Seq(Range(m.profile.rules)), NEW v,
             v.pc \in {"fetch", "overload"}, v.by \in {"callback", "pool", "worker"},
             v.over = over, v.asked = f.asked
      PROVE  HandOK(m, v)
  BY <1>6 DEF HandOK, Points
<1>7. ASSUME NEW fill, NEW shed, m.profile # None
      PROVE  Overloading(t, fill, shed) \in Seq(Range(m.profile.rules))
  BY <1>1, <1>7, OverloadingOf
<1>8. CASE Refuse(t)
  <2> DEFINE f == Failed(w, "QUEUE_LIMIT")
             fill == FillOf(t)
             over == Overloading(t, fill, TRUE)
  <2>1. PICK g \in scene.geo :
          Become(t, [f EXCEPT !.pc = "overload", !.geo = g, !.fill = fill, !.over = over])
    BY <1>8 DEF Refuse
  <2> DEFINE v == [f EXCEPT !.pc = "overload", !.geo = g, !.fill = fill, !.over = over]
  <2>2. Fields(f) /\ HandOK(m, f)
    BY <1>1, FailedFields, FailedHand
  <2>3. m.profile # None => over \in Seq(Range(m.profile.rules))
    BY <1>7
  <2> HIDE DEF f, fill, over
  <2>4. v.pc = "overload" /\ v.by = f.by /\ v.over = over /\ v.asked = f.asked
    BY <2>2 DEF Fields, FieldNames
  <2>7. Become(t, v)
    BY <2>1
  <2> HIDE DEF v
  <2>5. f.by \in {"callback", "pool", "worker"}
    BY <2>2 DEF HandOK
  <2>6. HandOK(m, v)
    BY <1>6, <2>2, <2>3, <2>4, <2>5
  <2> QED BY <1>3, <2>6, <2>7
<1>9. CASE Begin(t)
  <2> DEFINE over == Overloading(t, w.fill, FALSE)
             v == [w EXCEPT !.pc = "fetch", !.by = "worker", !.over = over]
  <2>1. Become(t, v)
    BY <1>9 DEF Begin
  <2>2. m.profile # None => over \in Seq(Range(m.profile.rules))
    BY <1>7
  <2> HIDE DEF over
  <2>3. v.pc = "fetch" /\ v.by = "worker" /\ v.over = over /\ v.asked = w.asked
    BY <1>1 DEF Fields, FieldNames
  <2> HIDE DEF v
  <2>4. HandOK(m, v)
    BY <1>1, <1>6, <2>2, <2>3
  <2> QED BY <1>3, <2>1, <2>4
<1> QED BY <1>4, <1>5, <1>8, <1>9, <1>10

LEMMA CollectedHand ==
  ASSUME NEW m, NEW w, Fields(w), HandOK(m, w)
  PROVE  HandOK(m, CollectedOf(w)) /\ HandOK(m, ArrivedOf(w))
<1> DEFINE f == Failed(w, "DEADLINE")
           v == [f EXCEPT !.by = "callback"]
           a == [w EXCEPT !.pc = "arriving"]
<1>1. CollectedOf(w) = v /\ ArrivedOf(w) = a
  BY DEF CollectedOf, ArrivedOf
<1>2. Fields(f) /\ HandOK(m, f) /\ f.pc = "send"
  BY FailedFields, FailedHand
<1> HIDE DEF f
<1>3. v.pc = "send" /\ v.by = "callback" /\ v.over = f.over /\ v.asked = f.asked
  BY <1>2 DEF Fields, FieldNames
<1>4. a.pc = "arriving" /\ a.by = w.by /\ a.over = w.over /\ a.asked = w.asked
  BY DEF Fields, FieldNames
<1>5. w.by \in {"callback", "pool", "worker"}
  BY DEF HandOK
<1> HIDE DEF v, a
<1>6. HandOK(m, v)
  BY <1>2, <1>3, HandMoves DEF Points
<1>7. HandOK(m, a)
  BY <1>4, <1>5, HandMoves DEF Points
<1> QED BY <1>1, <1>6, <1>7

LEMMA HandsOfCollect ==
  ASSUME IInv, HandsOK, NEW t \in Messages, NEW dead \in SUBSET Requests, Collect(t, dead)
  PROVE  HandsOK'
<1>1. scene' = scene
  BY DEF Collect, Quiet
<1>2. ASSUME NEW u \in Requests PROVE HandOK(scene.msg[u], work'[u])
  <2>1. Fields(work[u]) /\ HandOK(scene.msg[u], work[u])
    BY DEF IInv, Shape, HandsOK
  <2>2. HandOK(scene.msg[u], CollectedOf(work[u])) /\ HandOK(scene.msg[u], ArrivedOf(work[u]))
    BY <2>1, CollectedHand
  <2> QED BY <2>1, <2>2, CollectIs
<1> QED BY <1>1, <1>2 DEF HandsOK, HandOK

LEMMA HandsOfFetch ==
  ASSUME IInv, HandsOK, NEW t \in Messages, Fetch(t)
  PROVE  HandsOK'
<1> DEFINE m == scene.msg[t]  w == work[t]
<1>1. t \in Requests /\ Fields(w) /\ HandOK(m, w) /\ m.profile = Profile(t)
  BY OwnFields DEF HandsOK, Profile
<1>2. ASSUME NEW v, Become(t, v), HandOK(m, v) PROVE HandsOK'
  BY <1>2, HandsOne DEF Fetch, Quiet
<1>3. ASSUME Become(t, [w EXCEPT !.pc = "judge"]) PROVE HandsOK'
  <2> DEFINE v == [w EXCEPT !.pc = "judge"]
  <2>1. v.pc = "judge" /\ v.by = w.by /\ v.over = w.over /\ v.asked = w.asked
    BY <1>1 DEF Fields, FieldNames
  <2>2. w.by \in {"callback", "pool", "worker"}
    BY <1>1 DEF HandOK
  <2> HIDE DEF v
  <2>3. HandOK(m, v)
    BY <1>1, <2>1, <2>2, HandMoves DEF Points
  <2> QED BY <1>2, <1>3, <2>3 DEF v
<1>4. ASSUME On(t), NEW h, NEW gone, NEW g, Become(t, Fetched(w, t, h, gone, g)) PROVE HandsOK'
  <2> DEFINE o == Open(m.profile, m.q, h, now, world)
             a == PriorAsk(m.prior, m.profile)
             v == Fetched(w, t, h, gone, g)
  <2>1. v = [w EXCEPT !.pc = "judge", !.h = h, !.lost = gone, !.at = now, !.geo = g,
                      !.asked = a, !.opened = o, !.seen = world]
    BY DEF Fetched
  <2>2. \A k \in DOMAIN a.notes : a.notes[k] \in Int
    <3>1. Numbered(m.profile) /\ Advised(m.prior)
      BY <1>1, <1>4, ProfileOK DEF On
    <3> QED BY <3>1, NotesAreNumbers DEF Numbered, Advised
  <2> HIDE DEF v, a, o
  <2>3. v.pc = "judge" /\ v.by = w.by /\ v.over = w.over /\ v.asked = a
    BY <1>1, <2>1 DEF Fields, FieldNames
  <2>4. HandOK(m, v)
    BY <1>1, <2>2, <2>3 DEF HandOK, Points
  <2> QED BY <1>2, <1>4, <2>4 DEF v
<1>5. ASSUME NEW code, Become(t, Failed(w, code)) PROVE HandsOK'
  BY <1>1, <1>2, <1>5, FailedHand
<1> QED BY <1>3, <1>4, <1>5 DEF Fetch

LEMMA HandsOfJudge ==
  ASSUME IInv, HandsOK, NEW t \in Messages, Judge(t)
  PROVE  HandsOK'
<1> DEFINE m == scene.msg[t]  w == work[t]
<1>1. t \in Requests /\ Fields(w) /\ HandOK(m, w) /\ m.profile = Profile(t)
  BY OwnFields DEF HandsOK, Profile
<1>2. ASSUME NEW v, Become(t, v), HandOK(m, v) PROVE HandsOK'
  BY <1>2, HandsOne DEF Judge
<1>3. ASSUME NEW v, v.pc = IF On(t) THEN "full" ELSE "send",
             v.by = w.by, v.over = w.over, v.asked = w.asked
      PROVE  HandOK(m, v)
  BY <1>1, <1>3 DEF HandOK, Points, On
<1>4. ASSUME NEW levels, NEW felt, NEW g, Judged(t, levels, felt, g) PROVE HandsOK'
  <2> DEFINE res == Check(Input(t, levels))
             point == IF On(t) THEN "full" ELSE "send"
             v == [w EXCEPT !.pc = point, !.geo = g, !.res = res, !.audit = TRUE,
                            !.levels = levels, !.felt = felt]
             u == [v EXCEPT !.res.verdict = "redirect", !.res.inline = FALSE]
  <2>1. Become(t, v) \/ Become(t, u)
    BY <1>4 DEF Judged
  <2> HIDE DEF res
  <2>2. Fields(v) /\ v.pc = point /\ v.by = w.by /\ v.over = w.over /\ v.asked = w.asked
    <3> HIDE DEF point
    <3> QED BY <1>1 DEF Fields, FieldNames
  <2> HIDE DEF v
  <2>3. u.pc = point /\ u.by = w.by /\ u.over = w.over /\ u.asked = w.asked
    <3> HIDE DEF point
    <3> QED BY <2>2 DEF Fields, FieldNames
  <2> HIDE DEF u
  <2>4. HandOK(m, v)
    BY <1>3, <2>2
  <2>5. HandOK(m, u)
    BY <1>3, <2>3
  <2> QED BY <1>2, <2>1, <2>4, <2>5
<1>5. ASSUME NEW code, Become(t, Failed(w, code)) PROVE HandsOK'
  BY <1>1, <1>2, <1>5, FailedHand
<1> QED BY <1>4, <1>5 DEF Judge

LEMMA HandsOfFire ==
  ASSUME IInv, HandsOK, NEW t \in Messages, Fire(t)
  PROVE  HandsOK'
<1> DEFINE m == scene.msg[t]  w == work[t]
<1>0. PICK rules : rules = EffectsOf(t)
  OBVIOUS
<1>1. /\ t \in Requests /\ Fields(w) /\ HandOK(m, w)
      /\ w.pc \in {"full", "client", "overload"}
  BY OwnFields DEF HandsOK, Fire, At
<1>2. ASSUME NEW v, Become(t, v), HandOK(m, v) PROVE HandsOK'
  BY <1>2, HandsOne DEF Fire
<1>3. ASSUME NEW some, Become(t, Fired(w, rules, some)) PROVE HandsOK'
  <2> DEFINE asks == Asks(rules)
             made == {rules[i] : i \in some}
             next == After(w.pc)
             v == Fired(w, rules, some)
  <2>1. v = [w EXCEPT !.pc = next, !.asks = @ \o asks, !.wrote = @ \cup made]
    BY DEF Fired
  <2>2. next \in {"client", "overload", "send"} /\ (next = "client" => w.pc = "full")
    BY <1>1 DEF After
  <2> HIDE DEF v, asks, made, next
  <2>3. v.pc = next /\ v.by = w.by /\ v.over = w.over /\ v.asked = w.asked
    BY <1>1, <2>1 DEF Fields, FieldNames
  <2>4. HandOK(m, v)
    BY <1>1, <2>2, <2>3 DEF HandOK, Points
  <2> QED BY <1>2, <1>3, <2>4 DEF v
<1>4. ASSUME NEW i, Become(t, GeoFailed(w, rules, i)) PROVE HandsOK'
  <2> DEFINE made == {rules[j] : j \in {j \in Writes(rules, w) : j < i}}
             e == [w EXCEPT !.pc = "send"]
             f == IF w.by = "callback" THEN e ELSE Failed(w, "GEO_UNAVAILABLE")
             v == [f EXCEPT !.wrote = @ \cup made]
  <2>1. GeoFailed(w, rules, i) = v
    BY DEF GeoFailed
  <2>2. Fields(e) /\ e.pc = "send" /\ e.by = w.by /\ e.over = w.over /\ e.asked = w.asked
    BY <1>1 DEF Fields, FieldNames
  <2>3. HandOK(m, e)
    <3> HIDE DEF e
    <3> QED BY <1>1, <2>2 DEF HandOK, Points
  <2>4. Fields(f) /\ f.pc = "send" /\ HandOK(m, f)
    <3> HIDE DEF e
    <3>1. LET g == Failed(w, "GEO_UNAVAILABLE") IN Fields(g) /\ g.pc = "send" /\ HandOK(m, g)
      BY <1>1, FailedFields, FailedHand
    <3> QED BY <2>2, <2>3, <3>1
  <2> HIDE DEF f, made
  <2>5. v.pc = "send" /\ v.by = f.by /\ v.over = f.over /\ v.asked = f.asked
    BY <2>4 DEF Fields, FieldNames
  <2> HIDE DEF v
  <2>6. HandOK(m, v)
    BY <2>4, <2>5 DEF HandOK, Points
  <2> QED BY <1>2, <1>4, <2>1, <2>6
<1> QED BY <1>0, <1>3, <1>4 DEF Fire

LEMMA HandsOfSend ==
  ASSUME IInv, HandsOK, NEW t \in Messages, Send(t) \/ Record(t)
  PROVE  HandsOK'
<1> DEFINE m == scene.msg[t]  w == work[t]
           v == [w EXCEPT !.pc = "audit"]
<1>1. t \in Requests /\ Fields(w) /\ HandOK(m, w) /\ scene' = scene
  BY OwnFields DEF HandsOK, Send, Record
<1>2. v.pc = "audit" /\ v.by = w.by /\ v.over = w.over /\ v.asked = w.asked
  BY <1>1 DEF Fields, FieldNames
<1>3. Become(t, v) \/ Become(t, Done(w))
  BY DEF Send, Record
<1> HIDE DEF v
<1>4. HandOK(m, v)
  BY <1>1, <1>2 DEF HandOK, Points
<1>5. HandOK(m, Done(w))
  BY <1>1, DoneHand
<1> QED BY <1>1, <1>3, <1>4, <1>5, HandsOne

LEMMA HandsOfOthers ==
  ASSUME HandsOK, UNCHANGED <<scene, work>>
  PROVE  HandsOK'
BY DEF HandsOK, HandOK

LEMMA LevelsOfJudge ==
  ASSUME IInv, HandsOK, level \in [Refs -> 0..100], NEW t \in Messages, Judge(t)
  PROVE  level' \in [Refs -> 0..100]
<1> DEFINE w == work[t]
           after == Charged(t, w, w.asked.notes)
<1>1. t \in Requests /\ HandOK(scene.msg[t], w)
  BY MessageIsRequest DEF HandsOK
<1>2. On(t) => \A k \in DOMAIN w.asked.notes : w.asked.notes[k] \in Int
  BY <1>1 DEF HandOK, On, Profile
<1>3. after \in [Refs -> 0..100]
  BY <1>2, ChargedIs
<1> HIDE DEF after
<1>4. level' \in {level, after}
  BY DEF Judge, after
<1> QED BY <1>3, <1>4

LEMMA LevelsOfFire ==
  ASSUME IInv, HandsOK, level \in [Refs -> 0..100], NEW t \in Messages, Fire(t)
  PROVE  level' \in [Refs -> 0..100]
<1> DEFINE w == work[t]
           rules == EffectsOf(t)
           sums == Sums(rules)
           after == Charged(t, w, sums)
<1>1. work[t].pc \in {"full", "client", "overload"}
  BY DEF Fire, At
<1>2. ASSUME On(t) PROVE \A k \in DOMAIN sums : sums[k] \in Int
  <2>1. Profile(t) # None
    BY <1>2 DEF On
  <2>2. rules \in Seq(Range(Profile(t).rules)) /\ Numbered(Profile(t))
    BY <1>1, <2>1, EffectsAreOf, ProfileOK
  <2> HIDE DEF rules
  <2> QED BY <2>2, SumsAreNumbers
<1> HIDE DEF sums
<1>3. after \in [Refs -> 0..100]
  BY <1>2, ChargedIs
<1> HIDE DEF after
<1>4. level' \in {level, after}
  BY DEF Fire, after, sums
<1> QED BY <1>3, <1>4

LEMMA LevelsOfTurn ==
  ASSUME IInv, level \in [Refs -> 0..100], Turn
  PROVE  level' \in [Refs -> 0..100]
<1>1. ASSUME NEW r \in Refs PROVE Loss(r) \in Int
  <2> DEFINE owners == {t \in Messages : Profile(t) # None /\ Profile(t).name = r[1]}
             t == CHOOSE t \in owners : TRUE
  <2>1. CASE owners = {}
    BY <2>1 DEF Loss
  <2>2. CASE owners # {}
    <3>1. t \in owners
      BY <2>2
    <3>2. Loss(r) = Profile(t).tiers[r[2]].loss
      BY <2>2 DEF Loss
    <3> HIDE DEF t
    <3>3. Numbered(Profile(t)) /\ r[2] \in Kinds
      BY <3>1, ProfileOK DEF Refs
    <3> QED BY <3>2, <3>3 DEF Numbered
  <2> QED BY <2>1, <2>2
<1>2. ASSUME NEW r \in Refs PROVE Clamp(level[r] - Loss(r)) \in 0..100
  <2>1. level[r] - Loss(r) \in Int
    BY <1>1
  <2> QED BY <2>1, Clamped
<1>3. level' = level \/ level' = [r \in Refs |-> Clamp(level[r] - Loss(r))]
  BY DEF Turn
<1> QED BY <1>2, <1>3

LEMMA AnswersOfOne ==
  ASSUME IInv, AnswersOK, NEW t \in Messages, NEW v, Become(t, v),
         work[t].pc \notin {"audit", "done"}, answers' = answers
  PROVE  AnswersOK'
<1>1. t \in Requests /\ \A u \in Requests : work'[u] = IF u = t THEN v ELSE work[u]
  BY OwnFields DEF Become, IInv, Shape
<1>2. answers[t] = << >>
  BY <1>1 DEF AnswersOK
<1> QED BY <1>1, <1>2 DEF AnswersOK

LEMMA AnswersOfSend ==
  ASSUME IInv, AnswersOK, NEW t \in Messages, Send(t) \/ Record(t)
  PROVE  AnswersOK'
<1> DEFINE w == work[t]
           audited == [w EXCEPT !.pc = "audit"]
<1>1. t \in Requests /\ Fields(w)
  BY OwnFields
<1>2. audited.pc = "audit" /\ Done(w).pc = "done"
  BY <1>1, DoneFields DEF Fields, FieldNames
<1>3. PICK v \in {audited, Done(w)} : Become(t, v)
  BY DEF Send, Record
<1>4. v.pc \in {"audit", "done"}
  BY <1>2
<1> HIDE DEF audited
<1>5. \A u \in Requests : work'[u] = IF u = t THEN v ELSE work[u]
  BY <1>1, <1>3 DEF Become, IInv, Shape
<1>6. CASE Record(t)
  BY <1>4, <1>5, <1>6 DEF Record, At, AnswersOK
<1>7. CASE Send(t)
  <2>1. answers[t] = << >>
    BY <1>1, <1>7 DEF Send, At, AnswersOK
  <2>2. answers' = answers \/ \E x : answers' = [answers EXCEPT ![t] = Append(@, x)]
    BY <1>7 DEF Send
  <2>3. \A x : Append(<< >>, x) = <<x>>
    OBVIOUS
  <2>4. answers' = answers \/ \E x : answers' = [answers EXCEPT ![t] = <<x>>]
    BY <2>1, <2>2, <2>3
  <2> QED BY <1>1, <1>4, <1>5, <2>4 DEF AnswersOK
<1> QED BY <1>6, <1>7

LEMMA BoundsStep ==
  ASSUME faults \in 0..MaxFaults, turns \in 0..MaxTurns, NoFault \/ Fault
  PROVE  faults' \in 0..MaxFaults /\ turns' \in 0..MaxTurns
<1>1. MaxFaults \in Nat /\ faults \in Nat
  BY InspectAssumption
<1>2. CASE NoFault
  BY <1>2 DEF NoFault, bounds
<1>3. CASE Fault
  BY <1>1, <1>3 DEF Fault
<1> QED BY <1>2, <1>3

LEMMA WorldOfOne ==
  ASSUME WorldOK, NoFault \/ Fault, UNCHANGED <<scene, now, world, phase>>
  PROVE  WorldOK'
<1>1. faults' \in 0..MaxFaults /\ turns' \in 0..MaxTurns
  BY BoundsStep DEF WorldOK
<1> QED BY <1>1 DEF WorldOK

LEMMA WorldOfOthers ==
  ASSUME IInv, WorldOK,
         \/ Flush \/ PublishGroup \/ Drain \/ PoolClosed \/ SinkClosed \/ Turn
         \/ UNCHANGED vars
  PROVE  WorldOK'
<1>1. CASE PublishGroup
  BY <1>1, WorldOfOne DEF PublishGroup, env, NoFault
<1>2. CASE Flush \/ UNCHANGED vars
  BY <1>2, WorldOfOne DEF Flush, env, vars, NoFault
<1>3. CASE Drain \/ PoolClosed \/ SinkClosed
  BY <1>3 DEF Drain, PoolClosed, SinkClosed, env, bounds, WorldOK
<1>4. CASE Turn
  <2>1. MaxTurns \in Nat /\ turns \in Nat /\ turns < MaxTurns /\ turns' = turns + 1
    BY <1>4, InspectAssumption DEF Turn, WorldOK
  <2>2. turns' \in 0..MaxTurns
    BY <2>1
  <2>3. scene.horizon \in Nat /\ now \in Nat
    BY InspectAssumption DEF IInv, Shape
  <2>4. now' \in 0..scene.horizon /\ world' \in scene.worlds
    <3>1. CASE now < scene.horizon /\ now' = now + 1 /\ UNCHANGED world
      BY <2>3, <3>1 DEF WorldOK
    <3>2. CASE world' \in scene.worlds /\ UNCHANGED now
      BY <3>2 DEF WorldOK
    <3> QED BY <1>4, <3>1, <3>2 DEF Turn
  <2>5. UNCHANGED <<scene, phase, faults>>
    BY <1>4 DEF Turn
  <2> QED BY <2>2, <2>4, <2>5 DEF WorldOK
<1> QED BY <1>1, <1>2, <1>3, <1>4

LEMMA LimitsOfRecord ==
  ASSUME SinkInv, LimitsOK, NEW t \in Requests, Record(t)
  PROVE  LimitsOK'
<1> DEFINE all == Append(pending, t)
<1>1. pending \in Seq(Requests) /\ MaxPending \in Nat /\ batch' = batch
  BY InspectAssumption DEF SinkInv, Record
<1>2. all \in Seq(Requests) /\ Len(all) \in Nat
  BY <1>1
<1>3. pending' = IF Len(all) > MaxPending THEN Kept(all) ELSE all
  BY DEF Record
<1> HIDE DEF all
<1>4. CASE Len(all) > MaxPending
  <2>0. PICK x \in Nat, y \in Nat : x = Len(all) /\ y = MaxPending /\ x > y
    BY <1>1, <1>2, <1>4
  <2>1. PICK n \in Nat : n = Len(all) - MaxPending + 1
    <3>1. x - y + 1 \in Nat
      BY <2>0
    <3> QED BY <2>0, <3>1
  <2>2. n \in 1..Len(all) + 1 /\ Len(all) \in n - 1..Len(all)
    BY <1>1, <1>2, <1>4, <2>1
  <2>3. pending' = SubSeq(all, n, Len(all))
    BY <1>3, <1>4, <2>1 DEF Kept
  <2>4. Len(pending') = Len(all) - n + 1
    BY <1>2, <2>2, <2>3, SubSeqThins
  <2> QED BY <1>1, <1>2, <2>1, <2>4 DEF LimitsOK
<1>5. CASE ~ Len(all) > MaxPending
  BY <1>1, <1>2, <1>3, <1>5 DEF LimitsOK
<1> QED BY <1>4, <1>5

LEMMA LimitsOfFlush ==
  ASSUME SinkInv, LimitsOK, Flush
  PROVE  LimitsOK'
<1>1. /\ pending \in Seq(Requests) /\ pending # << >>
      /\ MaxPending \in Nat /\ MaxItems \in Nat \ {0} /\ Len(pending) <= MaxPending
  BY InspectAssumption DEF SinkInv, LimitsOK, Flush
<1>2. PICK n : n = Min({Len(pending), MaxItems})
  OBVIOUS
<1>3. Len(pending) \in Nat \ {0}
  BY <1>1
<1>4. n \in Nat /\ n <= Len(pending) /\ n <= MaxItems
  <2>1. \E x \in {Len(pending), MaxItems} : \A y \in {Len(pending), MaxItems} : x <= y
    BY <1>1, <1>3
  <2>2. n \in {Len(pending), MaxItems} /\ n <= Len(pending) /\ n <= MaxItems
    BY <1>2, <2>1 DEF Min
  <2> QED BY <1>1, <1>3, <2>2
<1>5. batch' = SubSeq(pending, 1, n) /\ pending' = SubSeq(pending, n + 1, Len(pending))
  BY <1>2 DEF Flush, Oldest
<1>6. Len(batch') = n
  <2>1. 1 \in 1..Len(pending) + 1 /\ n \in 1 - 1..Len(pending)
    BY <1>3, <1>4
  <2>2. Len(batch') = n - 1 + 1
    BY <1>1, <1>5, <2>1, SubSeqThins
  <2> QED BY <1>4, <2>2
<1>7. Len(pending') = Len(pending) - n
  <2>1. PICK k \in Nat : k = n + 1
    BY <1>4
  <2>2. k \in 1..Len(pending) + 1 /\ Len(pending) \in k - 1..Len(pending)
    BY <1>3, <1>4, <2>1
  <2>3. Len(pending') = Len(pending) - k + 1
    BY <1>1, <1>5, <2>1, <2>2, SubSeqThins
  <2> QED BY <1>3, <1>4, <2>1, <2>3
<1> QED BY <1>1, <1>3, <1>4, <1>6, <1>7 DEF LimitsOK

LEMMA LimitsOfPublish ==
  ASSUME SinkInv, LimitsOK, PublishGroup
  PROVE  LimitsOK'
<1>1. PICK g, r : /\ g = GroupOf(Head(batch))
                  /\ r = Picked(batch, DOMAIN batch \ PlacesOf(Head(batch)))
  OBVIOUS
<1>2. batch' = r /\ pending' = pending /\ batch # << >>
  BY <1>1 DEF PublishGroup
<1>3. Len(g) \in Nat /\ Len(r) \in Nat /\ Len(batch) = Len(g) + Len(r)
  BY <1>1, <1>2, Grouped
<1>4. MaxItems \in Nat
  BY InspectAssumption
<1> QED BY <1>2, <1>3, <1>4 DEF LimitsOK

LEMMA StartsTyped == Init => TInv
<1> SUFFICES ASSUME Init PROVE TInv
  OBVIOUS
<1>1. /\ {MaxTurns, MaxFaults, MaxItems, MaxPending} \subseteq Nat /\ scene.horizon \in Nat
      /\ scene \in Scenes
  BY InspectAssumption DEF Init
<1>2. /\ Fresh.pc = "fresh" /\ Fresh.by = "callback" /\ Fresh.over = << >>
      /\ Fresh.asked.notes = Nothing
  BY DEF Fresh, NotAsked
<1>3. DOMAIN Nothing = {}
  BY DEF Nothing
<1>4. \A R : << >> \in Seq(R)
  OBVIOUS
<1>5. \A m : HandOK(m, Fresh)
  BY <1>2, <1>3, <1>4 DEF HandOK, Points
<1>6. HandsOK
  BY <1>5 DEF HandsOK, Init
<1>7. AnswersOK
  BY DEF AnswersOK, Init
<1>8. WorldOK
  BY <1>1 DEF WorldOK, Init
<1>9. LimitsOK
  <2>1. Len(pending) = 0 /\ Len(batch) = 0
    BY DEF Init
  <2> QED BY <1>1, <2>1 DEF LimitsOK
<1>10. level \in [Refs -> 0..100]
  BY DEF Init, Empty
<1> QED BY <1>6, <1>7, <1>8, <1>9, <1>10 DEF TInv

LEMMA TypedOfOne ==
  ASSUME IInv, SinkInv, TInv, NEW t \in Messages,
         \/ Reject(t) \/ Submit(t) \/ Wait(t) \/ Refuse(t) \/ TooLate(t) \/ Expire(t)
         \/ Panic(t) \/ Begin(t) \/ Fetch(t) \/ Judge(t) \/ Fire(t) \/ Send(t) \/ Record(t)
  PROVE  TInv'
<1>1. /\ HandsOK /\ AnswersOK /\ WorldOK /\ LimitsOK /\ level \in [Refs -> 0..100]
      /\ t \in Requests
  BY MessageIsRequest DEF TInv
<1>2. HandsOK'
  BY <1>1, HandsOfPool, HandsOfFetch, HandsOfJudge, HandsOfFire, HandsOfSend
<1>3. AnswersOK'
  <2>1. CASE Send(t) \/ Record(t)
    BY <1>1, <2>1, AnswersOfSend
  <2>2. CASE ~(Send(t) \/ Record(t))
    <3>1. PICK v : Become(t, v)
      BY <2>2 DEF Reject, Submit, Wait, Refuse, TooLate, Expire, Panic, Begin, Fetch, Judge,
              Judged, Fire
    <3>2. answers' = answers /\ work[t].pc \notin {"audit", "done"}
      BY <2>2 DEF Reject, Submit, Wait, Refuse, TooLate, Expire, Panic, Begin, Fetch, Judge,
              Fire, Quiet, At
    <3> QED BY <1>1, <3>1, <3>2, AnswersOfOne
  <2> QED BY <2>1, <2>2
<1>4. WorldOK'
  <2>1. NoFault \/ Fault
    BY DEF Reject, Submit, Wait, Refuse, TooLate, Expire, Panic, Begin, Fetch, Judge, Judged,
           Fire, Send,
           Record, NoFault
  <2>2. UNCHANGED <<scene, now, world, phase>>
    BY DEF Reject, Submit, Wait, Refuse, TooLate, Expire, Panic, Begin, Fetch, Judge, Fire,
           Send, Record,
           Quiet, env
  <2> QED BY <1>1, <2>1, <2>2, WorldOfOne
<1>5. LimitsOK'
  <2>1. CASE Record(t)
    BY <1>1, <2>1, LimitsOfRecord
  <2>2. CASE ~Record(t)
    <3>1. UNCHANGED <<pending, batch>>
      BY <2>2 DEF Reject, Submit, Wait, Refuse, TooLate, Expire, Panic, Begin, Fetch, Judge,
              Fire, Send,
                  Quiet, sink
    <3> QED BY <1>1, <3>1 DEF LimitsOK
  <2> QED BY <2>1, <2>2
<1>6. level' \in [Refs -> 0..100]
  <2>1. CASE Judge(t) \/ Fire(t)
    BY <1>1, <2>1, LevelsOfJudge, LevelsOfFire
  <2>2. CASE ~(Judge(t) \/ Fire(t))
    <3>1. level' = level
      BY <2>2 DEF Reject, Submit, Wait, Refuse, TooLate, Expire, Panic, Begin, Fetch, Send,
              Record, Quiet, env
    <3> QED BY <1>1, <3>1
  <2> QED BY <2>1, <2>2
<1> QED BY <1>2, <1>3, <1>4, <1>5, <1>6 DEF TInv

LEMMA TypedOfCollect ==
  ASSUME IInv, TInv, NEW t \in Messages, NEW dead \in SUBSET Requests, Collect(t, dead)
  PROVE  TInv'
<1>1. /\ HandsOK /\ AnswersOK /\ WorldOK /\ LimitsOK /\ level \in [Refs -> 0..100]
      /\ NoFault /\ Quiet
  BY DEF TInv, Collect
<1>2. HandsOK'
  BY <1>1, HandsOfCollect
<1>3. AnswersOK'
  <2>1. \A u \in Requests : work[u].pc \in {"audit", "done"} => work'[u] = work[u]
    BY CollectIs
  <2> QED BY <1>1, <2>1 DEF AnswersOK, Quiet
<1>4. WorldOK'
  BY <1>1, WorldOfOne DEF Quiet, env
<1>5. LimitsOK' /\ level' \in [Refs -> 0..100]
  BY <1>1 DEF LimitsOK, Quiet, sink, env
<1> QED BY <1>2, <1>3, <1>4, <1>5 DEF TInv

LEMMA TypedOfOthers ==
  ASSUME IInv, SinkInv, TInv,
         \/ Flush \/ PublishGroup \/ Drain \/ PoolClosed \/ SinkClosed \/ Turn
         \/ UNCHANGED vars
  PROVE  TInv'
<1>1. HandsOK /\ AnswersOK /\ WorldOK /\ LimitsOK /\ level \in [Refs -> 0..100]
  BY DEF TInv
<1>2. UNCHANGED <<scene, work, answers>>
  BY DEF Flush, PublishGroup, Drain, PoolClosed, SinkClosed, Turn, vars
<1>3. HandsOK' /\ AnswersOK'
  BY <1>1, <1>2, HandsOfOthers DEF AnswersOK
<1>4. WorldOK'
  BY <1>1, WorldOfOthers
<1>5. LimitsOK'
  <2>1. CASE Flush \/ PublishGroup
    BY <1>1, <2>1, LimitsOfFlush, LimitsOfPublish
  <2>2. CASE Drain \/ PoolClosed \/ SinkClosed \/ Turn \/ UNCHANGED vars
    <3>1. UNCHANGED <<pending, batch>>
      BY <2>2 DEF Drain, PoolClosed, SinkClosed, Turn, vars, sink
    <3> QED BY <1>1, <3>1 DEF LimitsOK
  <2> QED BY <2>1, <2>2
<1>6. level' \in [Refs -> 0..100]
  <2>1. CASE Turn
    BY <1>1, <2>1, LevelsOfTurn
  <2>2. CASE ~Turn
    <3>1. level' = level
      BY <2>2 DEF Flush, PublishGroup, Drain, PoolClosed, SinkClosed, vars, env
    <3> QED BY <1>1, <3>1
  <2> QED BY <2>1, <2>2
<1> QED BY <1>3, <1>4, <1>5, <1>6 DEF TInv

LEMMA TypedInvariant == Spec => []TInv
<1>1. IInv /\ SinkInv /\ TInv /\ [Next]_vars => TInv'
  BY TypedOfOne, TypedOfCollect, TypedOfOthers DEF Next, Step
<1> QED BY <1>1, StartsTyped, Invariant, SinkInvariant, PTL DEF Spec

LEMMA AtMostOne ==
  ASSUME NEW a, a = << >> \/ \E x : a = <<x>>
  PROVE  Len(a) <= 1
<1>1. CASE a = << >>
  <2>1. Len(a) = 0
    BY <1>1
  <2> QED BY <2>1
<1>2. ASSUME NEW x, a = <<x>> PROVE Len(a) <= 1
  <2>1. Len(a) = 1
    BY <1>2
  <2> QED BY <2>1
<1> QED BY <1>1, <1>2

LEMMA TypedInv == TInv /\ SinkInv => TypeOK
<1> SUFFICES ASSUME TInv, SinkInv PROVE TypeOK
  OBVIOUS
<1>1. /\ HandsOK /\ AnswersOK /\ WorldOK /\ LimitsOK /\ level \in [Refs -> 0..100]
      /\ added \in Seq(Requests) /\ dropped \in Nat /\ \A t \in lost : In(t, added)
  BY DEF TInv, SinkInv
<1>2. ASSUME NEW t \in Requests
      PROVE  /\ work[t].pc \in Points /\ work[t].by \in {"callback", "pool", "worker"}
             /\ Len(answers[t]) <= 1
  <2>1. HandOK(scene.msg[t], work[t])
    BY <1>1 DEF HandsOK
  <2>2. Len(answers[t]) <= 1
    <3>1. answers[t] = << >> \/ \E x : answers[t] = <<x>>
      BY <1>1 DEF AnswersOK
    <3> QED BY <3>1, AtMostOne
  <2> QED BY <2>1, <2>2 DEF HandOK
<1>3. Range(added) \subseteq Requests /\ lost \subseteq Requests
  BY <1>1 DEF Range, In
<1> QED BY <1>1, <1>2, <1>3 DEF TypeOK, Points, WorldOK, LimitsOK

\* The requests in hand are answered once, every level stays a percentage through
\* notes, charges and drains of any size, and the sink stays within its limits
\* (handler.go:112, buckets.go:265, sink.go:83).
THEOREM TypeCorrect == Spec => []TypeOK
BY TypedInvariant, TypedInv, SinkInvariant, PTL
=============================================================================
