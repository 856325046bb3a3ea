------------------------------ MODULE Inspect ------------------------------
(***************************************************************************)
(* The inspector around the decision (cmd/inspector/handler.go and         *)
(* subjects.go, the reads of internal/store) and its audit sink            *)
(* (internal/audit/sink.go): a request is received by the NATS callback,   *)
(* evaluated by a worker or refused by the pool, charged, judged, its      *)
(* event rules fired, answered and recorded, while the world it is judged  *)
(* by changes, calls fail, and the process stops.                          *)
(*                                                                         *)
(* How the pool's goroutines wait for each other is Pool, the swap of      *)
(* profiles Generation, what one Apply does to Redis Buckets, the list     *)
(* mirror Mirror; here the queue is a set, whatever waits may be found     *)
(* expired, a charge is one step, a request has its profile, and the       *)
(* mirror is what world says.                                              *)
(* A request is recorded under its own name; its rules write lists that    *)
(* nothing here reads.                                                     *)
(***************************************************************************)
EXTENDS Decide, SequencesExt

CONSTANTS
  Requests,    \* the messages that may arrive
  Scenes,      \* [msg, depth, full, geo, worlds, horizon, stops]: the messages of
               \* some requests, queue_max and queue_full, what the geo service may
               \* answer, what else changes, whether the process is stopped
  Workers,     \* how many workers the pool has
  Names, Keys, \* of profiles; of clients, clearances and networks
  MaxItems, MaxPending,               \* audit: the batch, the buffer
  MaxTurns, MaxFaults                 \* bounds, as is a scene's horizon

\* An answer of geo: the keys of asn_net and asn_router, "" for none.
\* A world: [revoked, listed, ready], of the roster and the mirror.  A message:
\* wrong (why the callback answers it itself, or ""), reply (it has a reply
\* subject), subject (of its audit record, or ""), profile, store ("none",
\* "unavailable", "redis"), headers, q, prior.

\* The numbers of a parsed profile and of the advice that came with a message.
Numbered(p) ==
  /\ p.rules \in Seq(Range(p.rules)) /\ \A r \in Range(p.rules) : r.percent \in Int
  /\ IsFiniteSet(DOMAIN p.prior)
  /\ p.grace \in Nat /\ \A k \in Kinds : p.tiers[k].loss \in Int
Advised(prior) ==
  /\ IsFiniteSet(DOMAIN prior)
  /\ \A i \in DOMAIN prior :
       /\ IsFiniteSet(DOMAIN prior[i].actions)
       /\ \A j \in DOMAIN prior[i].actions : prior[i].actions[j].value \in Int

ASSUME InspectAssumption ==
  /\ Workers \in Nat \ {0} /\ MaxItems \in Nat \ {0} /\ MaxPending \in Nat \ {0}
  /\ {MaxTurns, MaxFaults} \subseteq Nat
  /\ \A s \in Scenes :
       /\ DOMAIN s.msg \subseteq Requests /\ s.horizon \in Nat
       /\ s.depth \in Nat \ {0} /\ s.full \in {"wait", "drop"}
       /\ \A t \in DOMAIN s.msg :
            LET p == s.msg[t].profile  c == s.msg[t].headers.clearance IN
            /\ p # None => ValidProfile(p) /\ Numbered(p) /\ p.name \in Names
            /\ c # None => {c.expiry, c.issued} \subseteq Nat
            /\ Advised(s.msg[t].prior)

VARIABLES
  scene,       \* the scene of this behaviour
  work,        \* what each message has come to
  now, world, level,      \* the clock, what the gate reads, the buckets
  answers,     \* the replies published
  phase,       \* of the process: "run", "closing", "flushing", "done"
  pending, batch, dropped,            \* the audit sink
  stored, lost, added,    \* records published, lost by a failing publish, all
  turns, faults           \* counts for the bounds

sink   == <<pending, batch, dropped, stored, lost, added>>
env    == <<now, world, level>>
bounds == <<turns, faults>>
vars   == <<scene, work, env, answers, phase, sink, bounds>>

Nothing == [x \in {} |-> 0]
NotAsked == [want |-> FALSE, skip |-> FALSE, notes |-> Nothing]

NoGeo == [asn_net |-> "", asn_router |-> ""]

\* by: who has it in hand.  fill: what it found of the queue.  geo: the last answer
\* it had.  seen, felt: history, the world and the buckets it was judged by.
Fresh == [pc |-> "fresh", by |-> "callback", fill |-> 0, geo |-> NoGeo,
          over |-> << >>, h |-> NoHeaders,
          lost |-> FALSE, asked |-> NotAsked, opened |-> Opened(None, ""),
          levels |-> Nothing, felt |-> Nothing, res |-> None, asks |-> << >>, audit |-> FALSE,
          at |-> 0, wrote |-> {}, seen |-> None]

Refs == Names \X Kinds \X Keys
Empty == [r \in Refs |-> 0]

Init ==
  /\ scene \in Scenes
  /\ work = [t \in Requests |-> Fresh]
  /\ now = 0 /\ world \in scene.worlds /\ level = Empty
  /\ answers = [t \in Requests |-> << >>]
  /\ phase = "run"
  /\ pending = << >> /\ batch = << >> /\ dropped = 0
  /\ stored = << >> /\ lost = {} /\ added = << >>
  /\ turns = 0 /\ faults = 0

Messages == DOMAIN scene.msg
Profile(t) == scene.msg[t].profile
On(t) == Profile(t) # None /\ Profile(t).mode # "off"
At(point) == {t \in Requests : work[t].pc = point}
Become(t, w) == work' = [work EXCEPT ![t] = w]
Fault == faults < MaxFaults /\ faults' = faults + 1 /\ UNCHANGED turns
NoFault == UNCHANGED bounds

\* The answer of t is res, with the asks it has collected; audited or not.
Answer(w, res, audit) == [w EXCEPT !.pc = "send", !.res = res, !.audit = audit]
Failed(w, code) == [Answer(w, Result("error", code), TRUE) EXCEPT !.asks = << >>]

\* What a fallback of receive or recoverInto says; it has no request to record.
Fallback(w, code) == [Failed(w, code) EXCEPT !.audit = FALSE]

-----------------------------------------------------------------------------
(* Buckets of one client.                                                  *)

KeyOf(t, w, kind) ==
  IF ~Enabled(Profile(t), kind) THEN "" ELSE
  CASE kind = "ip" -> scene.msg[t].q.ip
    [] kind = "sess" -> IF w.h.clearance = None THEN "" ELSE w.h.clearance.jti
    [] OTHER -> w.geo[kind]

RefOf(t, w, kind) == <<Profile(t).name, kind, KeyOf(t, w, kind)>>

\* Mutant: no upper bound.
ClampBelow(n) == IF n < 0 THEN 0 ELSE n

Clamp(n) == IF n < 0 THEN 0 ELSE IF n > 100 THEN 100 ELSE n

\* Apply: the kinds that have a key are charged.
Keyed(t, w, kinds) == {k \in kinds : On(t) /\ KeyOf(t, w, k) # ""}
Charged(t, w, sums) ==
  LET hit == {RefOf(t, w, k) : k \in Keyed(t, w, DOMAIN sums)}
  IN [r \in Refs |-> IF r \in hit THEN Clamp(level[r] + sums[r[2]]) ELSE level[r]]

\* A cleared client is only read by its session.
ReadsOf(w) == IF w.opened.clearance # None THEN {"sess"} ELSE Kinds

-----------------------------------------------------------------------------
(* The callback and the pool.                                              *)

Quiet == UNCHANGED <<scene, env, answers, phase, sink>>

\* The callback reads one message after the other; it goes on with t when it has
\* answered whatever else it has in hand.
CallbackOn(t) ==
  \A u \in Requests \ {t} : work[u].by = "callback" => work[u].pc \in {"fresh", "done"}

\* What it answers itself.
Reject(t) ==
  /\ CallbackOn(t) /\ t \in At("fresh") /\ scene.msg[t].wrong # ""
  /\ Become(t, IF scene.msg[t].wrong = "MALFORMED" THEN Fallback(work[t], "MALFORMED")
               ELSE Failed(work[t], scene.msg[t].wrong))
  /\ NoFault /\ Quiet

Room == Cardinality(At("queued")) < scene.depth
FillOf(t) ==
  IF work[t].pc = "waiting" \/ ~Room THEN 100
  ELSE (Cardinality(At("queued")) * 100) \div scene.depth

\* Submit, before it enters and as often as it finds some while it waits: the
\* expired tasks of the queue, some, become its own, to be answered first.
Collect(t, dead) ==
  /\ CallbackOn(t) /\ scene.msg[t].wrong = "" /\ dead \subseteq At("queued")
  /\ \/ t \in At("fresh")
     \/ t \in At("waiting") /\ dead # {} /\ ~Room /\ phase = "run"
  /\ work' = [u \in Requests |->
       IF u = t /\ work[t].pc = "fresh" THEN [work[t] EXCEPT !.pc = "arriving"]
       ELSE IF u \in dead THEN [Failed(work[u], "DEADLINE") EXCEPT !.by = "callback"]
       ELSE work[u]]
  /\ NoFault /\ Quiet

Submit(t) ==
  /\ CallbackOn(t) /\ t \in At("arriving") \cup At("waiting") /\ phase = "run" /\ Room
  /\ Become(t, [work[t] EXCEPT !.pc = "queued", !.by = "pool", !.fill = FillOf(t)])
  /\ NoFault /\ Quiet

Wait(t) ==
  /\ CallbackOn(t) /\ t \in At("arriving") /\ phase = "run" /\ ~Room /\ scene.full = "wait"
  /\ Become(t, [work[t] EXCEPT !.pc = "waiting"])
  /\ NoFault /\ Quiet

Overloading(t, fill, shed) ==
  LET rules == RulesFor(Profile(t), "overload", "", "") IN
  IF On(t) THEN Picked(rules, {i \in DOMAIN rules : Fires(rules[i], fill, shed)}) ELSE << >>

\* The pool is full: the overload rules fire before the answer.
Refuse(t) ==
  /\ CallbackOn(t) /\ t \in At("arriving") /\ phase = "run" /\ ~Room /\ scene.full = "drop"
  /\ \E g \in scene.geo :
       Become(t, [Failed(work[t], "QUEUE_LIMIT") EXCEPT !.pc = "overload", !.geo = g,
                    !.fill = FillOf(t), !.over = Overloading(t, FillOf(t), TRUE)])
  /\ NoFault /\ Quiet

\* Hopeless as it comes, or when it would wait or has waited; or the pool is closed.
TooLate(t) ==
  /\ CallbackOn(t) /\ scene.msg[t].wrong = ""
  /\ \/ t \in At("fresh")
     \/ t \in At("arriving") /\ (phase # "run" \/ (~Room /\ scene.full = "wait"))
     \/ t \in At("waiting") /\ (phase # "run" \/ ~Room)
  /\ Become(t, Failed(work[t], "DEADLINE"))
  /\ NoFault /\ Quiet

\* A worker or the sweeper finds it expired.
Expire(t) ==
  /\ t \in At("queued")
  /\ Become(t, Failed(work[t], "DEADLINE"))
  /\ NoFault /\ Quiet

Evaluating == {t \in Requests : work[t].by = "worker" /\ work[t].pc # "done"}
\* Mutant: nobody waits for what is still queued.
Evaluated == Evaluating

\* What Close waits for: not what the callback has in hand, accepted or not.
InPool == {t \in Requests : work[t].by # "callback" /\ work[t].pc # "done"}

Begin(t) ==
  /\ t \in At("queued") /\ Cardinality(Evaluating) < Workers
  /\ Become(t, [work[t] EXCEPT !.pc = "fetch", !.by = "worker",
                               !.over = Overloading(t, work[t].fill, FALSE)])
  /\ NoFault /\ Quiet

-----------------------------------------------------------------------------
(* inspect.                                                                *)

\* The headers in the exchange store, the advice, the clearance: judged by the
\* world of this moment.  The network of the client is asked for once it is open.
Fetched(w, t, h, gone, g) ==
  LET m == scene.msg[t] IN
  [w EXCEPT !.pc = "judge", !.h = h, !.lost = gone, !.at = now, !.geo = g,
     !.asked = PriorAsk(m.prior, m.profile),
     !.opened = Open(m.profile, m.q, h, now, world), !.seen = world]

Fetch(t) ==
  /\ t \in At("fetch")
  /\ \/ ~On(t) /\ Become(t, [work[t] EXCEPT !.pc = "judge"]) /\ NoFault
     \/ /\ On(t) /\ scene.msg[t].store = "redis"
        /\ \E g \in scene.geo : Become(t, Fetched(work[t], t, scene.msg[t].headers, FALSE, g))
        /\ NoFault
     \/ /\ On(t) /\ scene.msg[t].store # "redis"
        /\ \E g \in scene.geo :
             Become(t, Fetched(work[t], t, NoHeaders, scene.msg[t].store = "unavailable", g))
        /\ NoFault
     \/ /\ On(t) /\ scene.msg[t].store = "redis"
        /\ Become(t, Failed(work[t], "STORE_UNAVAILABLE")) /\ Fault
  /\ Quiet

\* Mutant: Check opens the clearance again.
OpenAgain(t) ==
  IF On(t) THEN Open(Profile(t), scene.msg[t].q, work[t].h, work[t].at, world) ELSE work[t].opened

OpenedOnce(t) == work[t].opened

Input(t, levels) ==
  LET w == work[t] IN
  [profile |-> Profile(t), q |-> scene.msg[t].q, h |-> w.h, now |-> w.at, lost |-> w.lost,
   asked |-> w.asked, levels |-> levels, opened |-> OpenedOnce(t)]

\* Check, and the page of the challenge for an inline answer: without it the
\* client is sent there.  For the rules, the network is asked for again.
Judged(t, levels, felt, g) ==
  LET res == Check(Input(t, levels))
      next == [work[t] EXCEPT !.pc = IF On(t) THEN "full" ELSE "send", !.geo = g,
                              !.res = res, !.audit = TRUE, !.levels = levels, !.felt = felt]
  IN \/ Become(t, next) /\ NoFault
     \/ res.inline /\ Fault
        /\ Become(t, [next EXCEPT !.res.verdict = "redirect", !.res.inline = FALSE])

\* The notes are charged, then the levels read, then it is judged.  Kinds
\* without a bucket have no key; a failed Apply may have been made or not.
Judge(t) ==
  LET w == work[t]
      after == Charged(t, w, w.asked.notes)
      Levels(kinds) == [k \in Keyed(t, w, kinds) |-> after[RefOf(t, w, k)]]
  IN
  /\ t \in At("judge")
  /\ \/ /\ level' = after
        /\ \E g \in scene.geo :
             Judged(t, Levels(DOMAIN w.asked.notes \cup ReadsOf(w)), Levels(Kinds), g)
     \/ /\ On(t) /\ Bucketed(Profile(t))
        /\ level' \in {level, after}
        /\ Become(t, Failed(w, "BUCKETS_UNAVAILABLE")) /\ Fault
  /\ UNCHANGED <<scene, now, world, answers, phase, sink>>

-----------------------------------------------------------------------------
(* The event rules.  An effect: a rule that fires.                         *)

\* The buckets that were read and stand at captcha_at or at ban_at, sorted by kind.
FullEffects(t, next) ==
  LET w == work[t]
      Step(kind, on, threshold) ==
        IF kind \in DOMAIN w.levels /\ threshold # 0 /\ w.levels[kind] >= threshold
          THEN RulesFor(Profile(t), on, kind, next) ELSE << >>
      Both(kind) == LET tier == Profile(t).tiers[kind] IN
        Step(kind, "bucket_captcha", tier.captchaAt) \o Step(kind, "bucket_ban", tier.banAt)
  IN Both("asn_net") \o Both("asn_router") \o Both("ip") \o Both("sess")

Event(t) == EventOf(Input(t, work[t].levels), work[t].res)

EffectsOf(t) ==
  LET next == NextOf(work[t].res) IN
  CASE work[t].pc = "full" -> FullEffects(t, next)
    [] work[t].pc = "client" ->
         IF Event(t) = "" THEN << >> ELSE RulesFor(Profile(t), Event(t), "", next)
    [] OTHER -> work[t].over

After(point) == CASE point = "full" -> "client" [] point = "client" -> "overload"
                  [] OTHER -> "send"

Geo(r) == r.list # "" /\ r.write \in {"net", "net_all", "asn"}
Writes(rules, w) ==
  {i \in DOMAIN rules : rules[i].list # "" /\ (rules[i].write = "cid" => w.res.clearance # None)}
Asks(rules) == SelectSeq(rules, LAMBDA r : r.do # "")
Sums(rules) ==
  [k \in {r.charge : r \in Range(rules)} \ {""} |->
     SumFunctionOnSet([i \in DOMAIN rules |-> rules[i].percent],
                      {i \in DOMAIN rules : rules[i].charge = k})]

\* Mutant: the first write that fails ends the round.
StopAtWrite(rules, i, w) == {j \in Writes(rules, w) : j < i}

\* A write that fails is logged, the others are made.
WritesBut(rules, i, w) == Writes(rules, w) \ {i}

Fired(w, rules, writes) ==
  [w EXCEPT !.pc = After(w.pc), !.asks = @ \o Asks(rules),
            !.wrote = @ \cup {rules[i] : i \in writes}]

\* A geo lookup that fails turns the answer into an error, a refusal stays one.
\* The lists written before it stay written, the charges of the round are not made.
GeoFailed(w, rules, i) ==
  [IF w.by = "callback" THEN [w EXCEPT !.pc = "send"] ELSE Failed(w, "GEO_UNAVAILABLE")
   EXCEPT !.wrote = @ \cup {rules[j] : j \in {j \in Writes(rules, w) : j < i}}]

\* One round: fireBucketFull, fireClient, fireOverload.
Fire(t) ==
  LET w == work[t]
      rules == EffectsOf(t)
      charged == Charged(t, w, Sums(rules))
  IN
  /\ t \in At("full") \cup At("client") \cup At("overload")
  /\ \/ /\ Become(t, Fired(w, rules, Writes(rules, w)))
        /\ level' = charged /\ NoFault
     \/ /\ Sums(rules) # Nothing
        /\ Become(t, Fired(w, rules, Writes(rules, w)))
        /\ UNCHANGED level /\ Fault
     \/ \E i \in Writes(rules, w) :
          /\ Become(t, Fired(w, rules, WritesBut(rules, i, w)))
          /\ level' = charged /\ Fault
     \/ \E i \in DOMAIN rules :
          /\ Geo(rules[i]) /\ Become(t, GeoFailed(w, rules, i))
          /\ UNCHANGED level /\ Fault
  /\ UNCHANGED <<scene, now, world, answers, phase, sink>>

\* Nothing of it is kept.
Done(w) == [Fresh EXCEPT !.pc = "done", !.by = w.by]

\* Mutant: the panic ends the evaluation.
NoAnswer(w) == Done(w)

Recovered(w) == Fallback(w, "INTERNAL_ERROR")

\* recoverInto, for a panic anywhere in evaluate before the answer is sent.
Panic(t) ==
  /\ t \in At("fetch") \cup At("judge") \cup At("full") \cup At("client") \cup At("overload")
  /\ Become(t, Recovered(work[t])) /\ Fault
  /\ Quiet

-----------------------------------------------------------------------------
(* send, and the audit sink.                                               *)

\* The publish of a reply may fail; its record is made nevertheless.
Send(t) ==
  LET w == work[t]
      reply == [verdict |-> w.res.verdict, code |-> w.res.code, asks |-> Len(w.asks)]
      recorded == IF w.audit /\ scene.msg[t].subject # ""
                    THEN [w EXCEPT !.pc = "audit"] ELSE Done(w)
  IN
  /\ t \in At("send")
  /\ \/ /\ scene.msg[t].reply /\ Become(t, recorded)
        /\ answers' = [answers EXCEPT ![t] = Append(@, reply)] /\ NoFault
     \/ /\ scene.msg[t].reply /\ Become(t, recorded)
        /\ answers' = [answers EXCEPT ![t] = Append(@, None)] /\ Fault
     \/ /\ ~scene.msg[t].reply /\ Become(t, Done(w))
        /\ UNCHANGED answers /\ NoFault
  /\ UNCHANGED <<scene, env, phase, sink>>

\* The oldest records make room.
Kept(s) == SubSeq(s, Len(s) - MaxPending + 1, Len(s))

Record(t) ==
  /\ t \in At("audit")
  /\ Become(t, Done(work[t]))
  /\ added' = Append(added, t)
  /\ LET all == Append(pending, t) IN
     IF Len(all) > MaxPending
       THEN pending' = Kept(all) /\ dropped' = dropped + Len(all) - MaxPending
       ELSE pending' = all /\ UNCHANGED dropped
  /\ UNCHANGED <<scene, env, answers, phase, batch, stored, lost, bounds>>

\* Mutant: the newest go first.
Newest(s, n) == [taken |-> SubSeq(s, Len(s) - n + 1, Len(s)), rest |-> SubSeq(s, 1, Len(s) - n)]

Oldest(s, n) == [taken |-> SubSeq(s, 1, n), rest |-> SubSeq(s, n + 1, Len(s))]

\* flush takes a batch: on the ticker, on a kick, when it stops.
Flush ==
  /\ phase # "done" /\ batch = << >> /\ pending # << >>
  /\ LET cut == Oldest(pending, Min({Len(pending), MaxItems})) IN
     batch' = cut.taken /\ pending' = cut.rest
  /\ UNCHANGED <<scene, work, env, answers, phase, dropped, stored, lost, added, bounds>>

SubjectOf(t) == scene.msg[t].subject
\* Mutant: a subject is sent its first record only.
HeadOf(t) == <<t>>

PlacesOf(t) == {i \in DOMAIN batch : SubjectOf(batch[i]) = SubjectOf(t)}
GroupOf(t) == Picked(batch, PlacesOf(t))

\* publish: a batch goes subject by subject, in the order of the first records;
\* what cannot be published is lost.
PublishGroup ==
  /\ batch # << >>
  /\ LET group == GroupOf(Head(batch)) IN
     /\ batch' = Picked(batch, DOMAIN batch \ PlacesOf(Head(batch)))
     /\ \/ stored' = stored \o group /\ UNCHANGED lost /\ NoFault
        \/ lost' = lost \cup Range(group) /\ UNCHANGED stored /\ Fault
  /\ UNCHANGED <<scene, work, env, answers, phase, pending, dropped, added>>

-----------------------------------------------------------------------------
(* The process and the world.                                              *)

\* A signal: the pool takes no more, its tasks are finished, then the sink is
\* closed.  The callback is only asked to drain.
Drain ==
  /\ scene.stops /\ phase = "run" /\ phase' = "closing"
  /\ UNCHANGED <<scene, work, env, answers, sink, bounds>>

PoolClosed ==
  /\ phase = "closing" /\ InPool = {}
  /\ phase' = "flushing"
  /\ UNCHANGED <<scene, work, env, answers, sink, bounds>>

SinkClosed ==
  /\ phase = "flushing" /\ pending = << >> /\ batch = << >>
  /\ phase' = "done"
  /\ UNCHANGED <<scene, work, env, answers, sink, bounds>>

\* The roster and the mirror change, time passes: buckets drain.
Loss(r) ==
  LET owners == {t \in Messages : Profile(t) # None /\ Profile(t).name = r[1]}
  IN IF owners = {} THEN 0 ELSE Profile(CHOOSE t \in owners : TRUE).tiers[r[2]].loss

Turn ==
  /\ turns < MaxTurns /\ turns' = turns + 1
  /\ \/ world' \in scene.worlds \ {world} /\ UNCHANGED <<now, level>>
     \/ /\ now < scene.horizon /\ now' = now + 1
        /\ level' = [r \in Refs |-> Clamp(level[r] - Loss(r))]
        /\ UNCHANGED world
  /\ UNCHANGED <<scene, work, answers, phase, sink, faults>>

Step(t) == Fetch(t) \/ Judge(t) \/ Fire(t) \/ Send(t) \/ Record(t)

Next ==
  \/ \E t \in Messages :
       \/ Reject(t) \/ (\E dead \in SUBSET Requests : Collect(t, dead))
       \/ Submit(t) \/ Wait(t) \/ Refuse(t) \/ TooLate(t)
       \/ Expire(t) \/ Begin(t) \/ Panic(t) \/ Step(t)
  \/ Flush \/ PublishGroup
  \/ Drain \/ PoolClosed \/ SinkClosed \/ Turn

Spec == Init /\ [][Next]_vars

\* Workers run on, and the callback with what it has to answer until the process
\* ends; it need not read another message, once it drains.
FairSpec ==
  /\ Spec
  /\ \A t \in Requests :
       /\ WF_vars(t \in Messages /\ Begin(t))
       /\ WF_vars(t \in Messages /\ work[t].by # "callback" /\ Step(t))
       /\ WF_vars(t \in Messages /\ work[t].by = "callback" /\ phase # "done" /\ Step(t))

-----------------------------------------------------------------------------
(* Properties.                                                             *)

\* The types of the requests in hand, of the buckets and of the sink: one
\* reply each, a buffer and a batch within their limits, levels in percent
\* (handler.go:112, sink.go:83, buckets.go:265).
TypeOK ==
  /\ \A t \in Requests :
       /\ work[t].pc \in {"fresh", "arriving", "waiting", "queued", "fetch", "judge", "full",
                          "client", "overload", "send", "audit", "done"}
       /\ work[t].by \in {"callback", "pool", "worker"}
       /\ Len(answers[t]) <= 1
  /\ now \in 0..scene.horizon /\ world \in scene.worlds /\ level \in [Refs -> 0..100]
  /\ phase \in {"run", "closing", "flushing", "done"}
  /\ Len(pending) <= MaxPending /\ Len(batch) <= MaxItems
  /\ Range(added) \subseteq Requests /\ lost \subseteq Requests /\ dropped \in Nat
  /\ turns \in 0..MaxTurns /\ faults \in 0..MaxFaults

\* What makes a clearance good: all of it, at the moment the request was read.
Good(t) ==
  LET w == work[t]  c == w.h.clearance  p == Profile(t) IN
  /\ c # None /\ c.sealed /\ w.at < c.expiry
  /\ "ua" \in p.bind => c.ua = w.h.ua \/ "" \in {c.ua, w.h.ua}
  /\ "ip" \in p.bind => c.net = scene.msg[t].q.ip \/ "" \in {c.net, scene.msg[t].q.ip}
  /\ "subnet" \in p.bind => c.net = scene.msg[t].q.net \/ "" \in {c.net, scene.msg[t].q.net}
  /\ c.fp = "" \/ c.fp \notin w.seen.revoked
  /\ p.list # "" =>
       c.issued + p.grace >= w.at \/ (w.seen.ready /\ c.jti \in w.seen.listed)

FullNow(t, kind) ==
  LET at == Profile(t).tiers[kind].captchaAt IN
  at > 0 /\ kind \in DOMAIN work[t].felt /\ work[t].felt[kind] >= at

\* Answers of requests a challenge is there for, that nothing else made fail.
Enforced(t) ==
  /\ work[t].pc = "send" /\ work[t].by = "worker"
  /\ On(t) /\ Profile(t).mode = "enforce" /\ scene.msg[t].q.uri \notin Profile(t).own
  /\ work[t].seen # None
Failures == {"STORE_UNAVAILABLE", "BUCKETS_UNAVAILABLE", "GEO_UNAVAILABLE",
             "INTERNAL_ERROR", "DEADLINE"}

\* A page that always asks for a clearance lets nobody pass without a good one,
\* or the word of an inspector the profile trusts: not while the mirror is
\* lost or behind, and not by the cookie of another client (decide.go:300-353).
NoPassWithoutCause ==
  \A t \in Requests :
    Enforced(t) /\ WhenOf(Profile(t), scene.msg[t].q) = "always" /\ work[t].res.verdict = "allow"
      => work[t].asked.skip \/ (Good(t) /\ ~FullNow(t, "sess"))

\* A client with a good clearance is not asked again while its session bucket
\* has room, however full the others are; in its grace time not even a list that
\* does not hold it yet, or is not there, stops it (verify.go:490,
\* decide.go:338-350).
ClearedPasses ==
  \A t \in Requests :
    Enforced(t) /\ Good(t) /\ ~FullNow(t, "sess") /\ work[t].res.code \notin Failures
      => work[t].res.verdict = "allow" /\ work[t].res.code = "OK"

\* The request that fills a bucket, by the notes it brings, is the first that
\* is asked: its charge comes before its reading, and what it may skip reading
\* goes by the same clearance as the answer, whatever is revoked meanwhile
\* (handler.go:144-172).
HotIsChallenged ==
  \A t \in Requests :
    /\ Enforced(t) /\ work[t].res.verdict = "allow" /\ work[t].res.code # "OK"
    /\ WhenOf(Profile(t), scene.msg[t].q) = "buckets" /\ ~work[t].asked.skip
    => \A k \in Kinds \ {"sess"} : ~FullNow(t, k)

\* Every list that the rules of an answer call for is written, in each of its
\* rounds, but for the calls that failed: one failing write costs no other one
\* and none is left out of an answer that is not an error (subjects.go:147-200).
EventsAreWritten ==
  \A t \in Requests :
    work[t].pc = "send" /\ work[t].by = "worker" /\ On(t) /\ work[t].res.verdict # "error"
      => LET w == work[t]
             full == FullEffects(t, NextOf(w.res))
             client == IF Event(t) = "" THEN << >>
                       ELSE RulesFor(Profile(t), Event(t), "", NextOf(w.res))
             due(rules) == {rules[i] : i \in Writes(rules, w)}
         IN Cardinality((due(full) \cup due(client) \cup due(w.over)) \ w.wrote) <= faults

\* No audit record vanishes unseen: it is waiting, in the batch, published, lost
\* with a logged publish, or counted as dropped (sink.go:67-200).
RecordsAccounted ==
  Len(added) = Len(pending) + Len(batch) + Len(stored) + Cardinality(lost) + dropped

\* Position of a record among all.
Turned(t) == CHOOSE i \in DOMAIN added : added[i] = t

\* The records of a subject are published in the order they were made, none
\* twice, through full buffers, mixed batches and failing publishes.
RecordsInOrder ==
  LET all == stored \o batch \o pending IN
  \A i, j \in DOMAIN all :
    i < j /\ SubjectOf(all[i]) = SubjectOf(all[j]) => Turned(all[i]) < Turned(all[j])

\* A process that ends has flushed the records of all requests its workers and
\* its sweeper answered; only the callback, which nobody waits for, may still add
\* to a closed sink: for what it refuses, and for accepted requests it found
\* expired while it submitted another (main.go:204-212, queue.go:94, 137-141,
\* 233-240, sink.go:217).
FlushedByClose ==
  phase = "done" =>
    \A t \in Range(pending) \cup Range(batch) : work[t].by = "callback"

\* A request the pool took is answered, once, whatever panics or fails on the
\* way; a publish that fails is not tried again.  One that the callback found
\* expired may be left when the process ends (handler.go:85-110, 320-352,
\* queue.go:94, 233-240).
EveryReplied ==
  \A t \in Requests :
    work[t].pc = "queued" ~>
      \/ Len(answers[t]) = 1
      \/ t \in Messages /\ ~scene.msg[t].reply
      \/ work[t].by = "callback" /\ phase = "done"
=============================================================================
