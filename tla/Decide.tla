------------------------------- MODULE Decide -------------------------------
(***************************************************************************)
(* What the gate decides of one request, as functions of what it read:     *)
(* the checks of a profile (internal/config/profile.go), the advice of     *)
(* earlier inspectors, the opening of a clearance and the verdict          *)
(* (internal/decide/decide.go), the threshold of internal/overload.        *)
(*                                                                         *)
(* "" is an absent string, None an absent pointer.  A profile carries the  *)
(* uris at or beneath its path (own), a page the uris it matches: prefixes *)
(* of strings are left out, and so are the texts of cookies, findings and  *)
(* headers, providers, and the syntax of names, codes and markers.         *)
(* Percentages are whole.  A level is the percentage of a bucket.          *)
(***************************************************************************)
EXTENDS Integers, Sequences, FiniteSets, Functions

CONSTANT None

Kinds == {"ip", "sess", "asn_net", "asn_router"}

-----------------------------------------------------------------------------
(* Which profiles pass Validate.                                           *)

Advice == {"challenge", "threshold", "skip", "note"}
Control == {"active", "passive", "vote", "off"}
AuditVerbs == {"audit", "archive"}
RecordVerbs == AuditVerbs \cup {"mark", "score"}
Verbs == Advice \cup Control \cup RecordVerbs \cup {"reauth", "mutate"}

BucketEvents == {"bucket_captcha", "bucket_ban"}
OnWave == BucketEvents \cup {"cleared", "uncleared", "overload"}
NextEvents == BucketEvents \cup {"uncleared"}

AxesOf(verb) ==
  CASE verb = "reauth" -> {"session"}
    [] verb = "note" -> {"request", "ip", "asn", "session"}
    [] OTHER -> {"request"}

Axis(r) ==
  IF r.apply # "" THEN r.apply
  ELSE IF r.do = "note" THEN ""
  ELSE IF r.do = "reauth" THEN "session" ELSE "request"

WithinOneHundred(n) == n \in -100..100 /\ n # 0

ValidAsk(r) ==
  /\ r.do \in Verbs
  /\ r.apply \in AxesOf(r.do) \/ (r.apply = "" /\ r.do # "note")
  /\ r.do \in Control => r.to # ""
  /\ r.phase # "" => r.do \in Control /\ r.phase \in {"request", "response", "frame"}
  /\ r.do \in RecordVerbs => r.to = ""
  /\ IF r.do = "threshold" THEN r.delta # None /\ r.delta # 0 /\ r.delta \in -100..900
     ELSE r.delta = None
  /\ CASE r.do = "note" -> r.value = None \/ WithinOneHundred(r.value)
       [] r.do = "score" -> r.value # None /\ WithinOneHundred(r.value)
       [] OTHER -> r.value = None
  /\ r.counter # "" => r.do = "note"
  /\ (r.group # "") <=> (r.do = "mutate")
  /\ IF r.do \in AuditVerbs \cup {"mutate"} THEN r.set \in {"on", "off"} ELSE r.set = ""
  /\ (r.marker # "") <=> (r.do = "mark")
  /\ r.when \subseteq {"allow", "deny"}
  /\ r.when # {} \/ r.ttl # 0 => r.do = "archive" /\ r.set = "on"
  /\ r.objects => r.do \in AuditVerbs /\ r.set = "on"

ValidList(r) ==
  /\ r.write \in {"", "addr", "net", "net_all", "asn", "cid"}
  /\ r.write = "cid" => r.on \in {"pass", "cleared"}
  /\ r.ttl # 0

ValidRule(r) ==
  /\ r.on \in {"fail", "pass"} \cup OnWave
  /\ r.at # None => r.on = "overload" /\ r.at \in 25..100
  /\ r.bucket # "" => r.on \in BucketEvents /\ r.bucket \in Kinds
  /\ r.next # "" => r.next \in {"allow", "challenge"} /\ r.on \in NextEvents
  /\ \E one \in {"do", "list", "charge"} :
       /\ r[one] # ""
       /\ \A other \in {"do", "list", "charge"} \ {one} : r[other] = ""
  /\ r.do # "" => r.on \in OnWave /\ ValidAsk(r)
  /\ r.list # "" => ValidList(r)
  /\ r.charge # "" => r.charge \in Kinds /\ WithinOneHundred(r.percent) /\ r.ttl = 0

ValidPrior(r) ==
  /\ r.from # "" /\ r.accept # {}
  /\ r.accept \subseteq Advice \cup {"*"}
  /\ r.from = "*" => r.accept = {"challenge"}

\* A tier is checked unless it is all zero.  A negative ban_at passes where
\* there is no captcha_at (profile.go:1120).
ValidTier(t) ==
  \/ t.max = 0 /\ t.loss = 0 /\ t.captchaAt = 0 /\ t.banAt = 0
  \/ /\ t.max >= 0
     /\ t.max > 0 => t.loss \in 1..100
     /\ t.captchaAt \in 0..100
     /\ t.banAt # 0 => t.banAt <= 100 /\ (t.captchaAt > 0 => t.banAt >= t.captchaAt)

ValidWhen(when) == when \in {"always", "buckets", "never"}

\* A grace of zero is set to two seconds.
ValidClearance(p) ==
  /\ p.bind \subseteq {"subnet", "ip", "ua"} /\ ~ {"subnet", "ip"} \subseteq p.bind
  /\ p.list # "" => p.grace > 0

ValidProfile(p) ==
  /\ p.mode \in {"enforce", "observe", "off"}
  /\ p.mode = "enforce" => p.own # {}
  /\ ValidWhen(p.when)
  /\ \A k \in Kinds : ValidTier(p.tiers[k])
  /\ \A i \in DOMAIN p.rules : ValidRule(p.rules[i])
  /\ \A i \in DOMAIN p.prior : ValidPrior(p.prior[i])
  /\ \A i \in DOMAIN p.pages : ValidWhen(p.pages[i].when)
  /\ ValidClearance(p)

-----------------------------------------------------------------------------
(* Reading a profile.                                                      *)

Enabled(p, kind) == p.tiers[kind].max > 0 /\ p.tiers[kind].loss > 0
Bucketed(p) == \E k \in Kinds : Enabled(p, k)

Selected(r, on, bucket, next) ==
  r.on = on /\ r.bucket \in {"", bucket} /\ r.next \in {"", next}

\* The members of a set of places, in their order; a sequence at these places.
InOrder(I) ==
  CHOOSE f \in [1..Cardinality(I) -> I] : \A i, j \in DOMAIN f : i < j => f[i] < f[j]
Picked(s, I) == [k \in 1..Cardinality(I) |-> s[InOrder(I)[k]]]

RulesFor(p, on, bucket, next) ==
  Picked(p.rules, {i \in DOMAIN p.rules : Selected(p.rules[i], on, bucket, next)})

Matches(page, q) ==
  (page.methods = {} \/ q.method \in page.methods) /\ q.uri \in page.uris

\* RuleFor: the first page that matches, else the trigger of the profile.
WhenOf(p, q) ==
  LET hits == {i \in DOMAIN p.pages : Matches(p.pages[i], q)}
  IN IF hits = {} THEN p.when
     ELSE p.pages[CHOOSE i \in hits : \A j \in hits : i <= j].when

\* Whether an overload rule fires at this fill; without at, only on a refusal.
Fires(r, fill, shed) ==
  shed \/ (r.at # None /\ r.at < 100 /\ fill >= r.at)

-----------------------------------------------------------------------------
(* The advice of earlier inspectors.                                       *)

Accepts(r, from, act) ==
  /\ r.from \in {"*", from}
  /\ {act.do, "*"} \cap r.accept # {}
  /\ r.codes = {} \/ act.code \in r.codes

\* <<verdict, action, rule>>: every accepting rule takes the action.
Taken(prior, p) ==
  {x \in UNION {{i} \X (DOMAIN prior[i].actions) \X (DOMAIN p.prior) : i \in DOMAIN prior} :
     /\ prior[x[1]].phase \in {"", "request"}
     /\ Accepts(p.prior[x[3]], prior[x[1]].from, prior[x[1]].actions[x[2]])}

NoteKinds(act, p) ==
  LET axis == CASE act.apply = "ip" -> {"ip"}
                [] act.apply = "session" -> {"sess"}
                [] act.apply = "asn" -> {"asn_net", "asn_router"}
                [] OTHER -> {}
  IN IF act.value = 0 THEN {} ELSE {k \in axis : Enabled(p, k)}

\* want, skip, and what the notes add to each bucket they name.
PriorAsk(prior, p) ==
  LET Act(x) == prior[x[1]].actions[x[2]]
      taken == Taken(prior, p)
      noted == {x \in taken : Act(x).do = "note"}
      On(k) == {x \in noted : k \in NoteKinds(Act(x), p)}
  IN [want |-> \E x \in taken : Act(x).do = "challenge",
      skip |-> \E x \in taken : Act(x).do = "skip",
      notes |-> [k \in {k \in Kinds : On(k) # {}} |->
                   SumFunctionOnSet([x \in noted |-> Act(x).value], On(k))]]

-----------------------------------------------------------------------------
(* The clearance.  A token: [sealed, expiry, issued, net, ua, fp, jti].     *)

NoHeaders == [clearance |-> None, ticket |-> None, ua |-> "", dest |-> "",
              upgrade |-> FALSE, html |-> FALSE]

\* What the profile binds a token to, of this client.
Bind(p, q, h) ==
  [net |-> IF "ip" \in p.bind THEN q.ip ELSE IF "subnet" \in p.bind THEN q.net ELSE "",
   ua |-> IF "ua" \in p.bind THEN h.ua ELSE ""]

\* Mutant: one binding that holds is enough.
BoundByOne(c, want) ==
  \E f \in {"net", "ua"} : want[f] = "" \/ c[f] = "" \/ want[f] = c[f]

Bound(c, want) ==
  \A f \in {"net", "ua"} : want[f] = "" \/ c[f] = "" \/ want[f] = c[f]

Opened(c, code) == [clearance |-> c, code |-> code]

\* Mutant: the last moment of the grace time is outside.
AtGraceEnd(p, c, now) == now - c.issued >= p.grace

PastGrace(p, c, now) == now - c.issued > p.grace

\* A mirror that is not ready and one that does not hold the clearance differ;
\* both refuse it once its grace is over.
Open(p, q, h, now, world) ==
  LET c == h.clearance IN
  IF c = None THEN Opened(None, "REQUIRED")
  ELSE IF ~c.sealed THEN Opened(None, "CLEARANCE_BAD")
  ELSE IF now >= c.expiry THEN Opened(None, "CLEARANCE_EXPIRED")
  ELSE IF ~Bound(c, Bind(p, q, h)) THEN Opened(None, "CLEARANCE_BIND")
  ELSE IF c.fp # "" /\ c.fp \in world.revoked THEN Opened(None, "CLEARANCE_REVOKED")
  ELSE IF p.list = "" \/ ~PastGrace(p, c, now) THEN Opened(c, "OK")
  ELSE IF ~world.ready THEN Opened(None, "LIST_UNAVAILABLE")
  ELSE IF c.jti \notin world.listed THEN Opened(None, "CLEARANCE_REVOKED")
  ELSE Opened(c, "OK")

-----------------------------------------------------------------------------
(* The verdict.  in: profile (or None), q, h, now, lost (the store had      *)
(* nothing), asked, levels (of the kinds that were read), opened.           *)

Full(in, kind) ==
  LET at == in.profile.tiers[kind].captchaAt
  IN at > 0 /\ kind \in DOMAIN in.levels /\ in.levels[kind] >= at

Hot(in) == \E k \in Kinds \ {"sess"} : Full(in, k)

Required(in) ==
  LET when == WhenOf(in.profile, in.q) IN
  IF in.opened.clearance # None THEN "reverify"
  ELSE IF in.asked.skip \/ when = "never" THEN ""
  ELSE IF when = "always" THEN "always"
  ELSE IF Hot(in) THEN "hot"
  ELSE IF in.asked.want THEN "prior" ELSE ""

ShowsPage(h) ==
  IF h.dest = "" THEN h.upgrade \/ h.html ELSE h.dest \in {"document", "iframe", "frame"}

Navigational(in) ==
  in.q.method \in in.profile.redirects /\ (in.profile.htmlOnly => ShowsPage(in.h))

AttemptOf(in) ==
  LET t == in.h.ticket
  IN IF t = None \/ ~t.sealed \/ in.now >= t.expiry \/ t.profile # in.profile.name
       THEN 1 ELSE t.attempt + 1

IssueTicket(in) == [profile |-> in.profile.name, attempt |-> AttemptOf(in)]

Result(verdict, code) ==
  [verdict |-> verdict, code |-> code, clearance |-> None, trigger |-> "",
   ticket |-> None, inline |-> FALSE]

\* A client that shows pages is sent to the challenge, or gets it inline.
Challenged(in, code, trigger) ==
  LET inline == Navigational(in) /\ in.profile.inline
      verdict == IF Navigational(in) /\ ~inline THEN "redirect" ELSE "deny"
  IN [Result(verdict, code) EXCEPT !.trigger = trigger, !.ticket = IssueTicket(in),
                                   !.inline = inline]

Check(in) ==
  LET p == in.profile
      c == in.opened.clearance
      code == IF c # None THEN "REVERIFY" ELSE in.opened.code
      trigger == Required(in)
  IN IF p = None THEN Result("error", "UNKNOWN_PROFILE")
     ELSE IF p.mode = "off" THEN Result("allow", "OFF")
     ELSE IF in.q.uri \in p.own THEN Result("allow", "SELF")
     ELSE IF code = "LIST_UNAVAILABLE" THEN Result("error", code)
     ELSE IF c # None /\ ~Full(in, "sess") THEN [Result("allow", "OK") EXCEPT !.clearance = c]
     ELSE IF trigger = "" THEN Result("allow", "NOT_REQUIRED")
     ELSE IF p.mode = "observe" THEN [Result("allow", "OBSERVE") EXCEPT !.trigger = trigger]
     ELSE Challenged(in, code, trigger)

\* The event of the answer, for the event rules: no cookie seen is no event
\* where the store had lost the headers.
EventOf(in, res) ==
  IF res.code = "OK" THEN IF res.clearance # None THEN "cleared" ELSE ""
  ELSE IF res.code \in {"OFF", "SELF", "UNKNOWN_PROFILE", "LIST_UNAVAILABLE"} THEN ""
  ELSE IF in.h.clearance = None /\ in.lost THEN "" ELSE "uncleared"

NextOf(res) ==
  IF res.trigger # "" THEN "challenge"
  ELSE IF res.verdict = "allow" /\ res.code \notin {"OFF", "SELF"} THEN "allow" ELSE ""
=============================================================================
