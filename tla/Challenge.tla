----------------------------- MODULE Challenge -----------------------------
(***************************************************************************)
(* The life of a challenge: the inspector hands out a ticket               *)
(* (decide.go issueTicket), the captcha-http instances show a page for it, *)
(* check the answer and hand out a clearance (cmd/http/verify.go), all of  *)
(* them over one roster in the internal Redis (internal/roster).           *)
(*                                                                         *)
(* A handler is a request being served: one action per store call, since   *)
(* other handlers, instances and the clock may step in between two calls.  *)
(***************************************************************************)
EXTENDS Roster, Sequences, FiniteSets

CONSTANTS
  Nonces,        \* the tickets that may be issued, by their nonce
  Texts,         \* the texts an image may show
  Tokens,        \* answers of an external widget ({} if the chain has none)
  Fps,           \* fingerprints of browsers
  Prints,        \* what clients send: fingerprints, None for no fingerprint
  Apis,          \* answers by form (FALSE), by script (TRUE)
  None,          \* no text, no fingerprint
  Handlers,      \* the requests in service at one time
  Hosts,         \* captcha-http instances
  HostOf,        \* the instance that serves a handler
  ChallengeTTL, ClearanceTTL, Window, Per,
  VerifyMax, IssueMax,   \* limits.verify_per_subnet, issue_per_subnet; 0 is off
  FarmAt,        \* fingerprint.farm_at; 0 is off
  OnError,       \* the external provider's on_error
  Latency,       \* bound: no request is served longer (store, HTTP and secrets timeouts)
  MaxFaults,     \* bound: failed store calls and restarts
  Horizon        \* bound: the clock stops here

ASSUME ChallengeAssumption ==
  /\ None \notin Fps \cup Texts \cup Tokens \cup Nonces
  /\ Fps \cap {"verify", "issue"} = {}
  /\ Texts \cap Tokens = {} /\ Apis \subseteq BOOLEAN
  /\ Prints \subseteq Fps \cup {None}
  /\ HostOf \in [Handlers -> Hosts]
  /\ {ChallengeTTL, ClearanceTTL, Window, Per} \subseteq Nat \ {0}
  /\ {VerifyMax, IssueMax, FarmAt, MaxFaults, Horizon} \subseteq Nat
  /\ OnError \in {"fallback", "allow", "deny"}
  /\ Latency \in Nat

VARIABLES
  now,         \* the clock, in seconds; one clock for all
  due,         \* expiry of each ticket; 0 while it is not issued
  text,        \* roster key img:nonce
  burned,      \* when roster key nonce:nonce dies; 0 if it was never set
  hits,        \* roster keys fail:scope
  rev,         \* roster zset rev: the score of each fingerprint, 0 if absent
  mirror,      \* Redis.revoked of each instance
  refresh,     \* the next command of each instance's Refresh
  pc, req,     \* where each handler is, and its request
  clearances,  \* the clearances handed out for each ticket
  faults,      \* failed store calls and restarts so far
  page, spoilt   \* history: the text on a ticket's last page, tickets hit by a failure

history == <<page, spoilt>>
store   == <<text, burned, hits, rev>>
mirrors == <<mirror, refresh>>
vars == <<now, due, store, mirrors, pc, req, clearances, faults, history>>

Scopes  == {"verify", "issue"} \cup Fps
Points  == {"idle", "limit", "look", "drop", "burn", "count", "ban", "seal",
            "issue", "put"}
Solved  == {"count", "ban", "seal"}     \* the nonce is burned for this handler

NoText == [said |-> None, until |-> 0]
Blank  == [nonce |-> None, answer |-> None, fp |-> None, api |-> FALSE,
           since |-> 0, at |-> 0, ban |-> FALSE]

Init ==
  /\ now = 0 /\ faults = 0
  /\ due = [n \in Nonces |-> 0]
  /\ text = [n \in Nonces |-> NoText]
  /\ burned = [n \in Nonces |-> 0]
  /\ hits = [s \in Scopes |-> [n |-> 0, until |-> 0]]
  /\ rev = [f \in Fps |-> 0]
  /\ mirror = [i \in Hosts |-> {}]
  /\ refresh = [i \in Hosts |-> "trim"]
  /\ pc = [h \in Handlers |-> "idle"]
  /\ req = [h \in Handlers |-> Blank]
  /\ clearances = [n \in Nonces |-> << >>]
  /\ page = [n \in Nonces |-> None] /\ spoilt = {}

-----------------------------------------------------------------------------
(* Parts of actions. *)

\* A store call with this outcome; the bound on failures is its only guard.
Call(outcome) ==
  IF outcome = "ok" THEN UNCHANGED faults
  ELSE faults < MaxFaults /\ faults' = faults + 1

GoTo(h, point) == pc' = [pc EXCEPT ![h] = point] /\ UNCHANGED req
Done(h) == pc' = [pc EXCEPT ![h] = "idle"] /\ req' = [req EXCEPT ![h] = Blank]

\* session: the ticket cookie opens and has not expired.
InSession(n) == due[n] # 0 /\ now < due[n]

\* A failed check: the form renders the page again, which opens the ticket
\* again; the API answers an error.
Retreat(h) ==
  IF ~req[h].api /\ InSession(req[h].nonce) THEN GoTo(h, "issue") ELSE Done(h)

\* within: a rate that is off and a counter that fails both let the hit pass.
Hit(scope, max, per, outcome) ==
  IF max = 0 THEN outcome = "ok" /\ UNCHANGED <<hits, faults>>
  ELSE /\ Call(outcome)
       /\ hits' = IF Applied(outcome)
                    THEN [hits EXCEPT ![scope] = Bump(@, now, per, max + 1)]
                    ELSE hits
Within(scope, max, outcome) ==
  max = 0 \/ outcome # "ok" \/ hits'[scope].n <= max

-----------------------------------------------------------------------------
(* The inspector answers a request with a fresh ticket. *)

Issue(n) ==
  /\ due[n] = 0
  /\ due' = [due EXCEPT ![n] = now + ChallengeTTL]
  /\ UNCHANGED <<now, store, mirrors, pc, req, clearances, faults, history>>

(* A request for the page (page), for widgets (api), or a form with a stale *)
(* csrf field: all of them issue widgets for the ticket in the cookie.      *)
Visit(h, n) ==
  /\ pc[h] = "idle" /\ InSession(n)
  /\ pc' = [pc EXCEPT ![h] = "issue"]
  /\ req' = [req EXCEPT ![h] = [Blank EXCEPT !.nonce = n, !.since = now]]
  /\ UNCHANGED <<now, due, store, mirrors, clearances, faults, history>>

\* pageSkipping: the issue limit of the subnet; only an image has a text to put.
LimitIssue(h) ==
  /\ pc[h] = "issue"
  /\ \E outcome \in Outcomes :
       /\ Hit("issue", IssueMax, Per, outcome)
       /\ IF Within("issue", IssueMax, outcome) /\ Texts # {}
            THEN GoTo(h, "put") ELSE Done(h)
  /\ UNCHANGED <<now, due, text, burned, rev, mirrors, clearances, history>>

TextUntil(n) == now + ChallengeTTL

\* Mutant: a text that is alive stays (SETNX for SET).
KeepOldText(n, t) ==
  IF Alive(text[n].until, now) THEN text[n] ELSE [said |-> t, until |-> TextUntil(n)]

NewText(n, t) == [said |-> t, until |-> TextUntil(n)]

\* widgets, Image.Issue: a new text takes the place of the last one, and the
\* page with it goes out unless the call fails.
Put(h) ==
  /\ pc[h] = "put"
  /\ LET n == req[h].nonce IN
     \E outcome \in Outcomes, t \in Texts :
       /\ Call(outcome)
       /\ text' = IF Applied(outcome) THEN [text EXCEPT ![n] = NewText(n, t)] ELSE text
       /\ page' = IF outcome = "ok" THEN [page EXCEPT ![n] = t] ELSE page
       /\ spoilt' = IF Applied(outcome) /\ outcome # "ok" THEN spoilt \cup {n} ELSE spoilt
  /\ Done(h)
  /\ UNCHANGED <<now, due, burned, hits, rev, mirrors, clearances>>

-----------------------------------------------------------------------------
(* check: an answer for a ticket. *)

\* submit, verify: the session and the nonce of the form are good.
Answer(h, n, a, f, api) ==
  /\ pc[h] = "idle" /\ InSession(n)
  /\ pc' = [pc EXCEPT ![h] = "limit"]
  /\ req' = [req EXCEPT ![h] = [Blank EXCEPT !.nonce = n, !.answer = a, !.fp = f,
                                             !.api = api, !.since = now]]
  /\ UNCHANGED <<now, due, store, mirrors, clearances, faults, history>>

\* The verify limit of the subnet, then the instance's mirror of bans.
LimitVerify(h) ==
  /\ pc[h] = "limit"
  /\ \E outcome \in Outcomes :
       /\ Hit("verify", VerifyMax, Per, outcome)
       /\ IF /\ Within("verify", VerifyMax, outcome)
             /\ req[h].fp \notin mirror[HostOf[h]]
            THEN GoTo(h, "look") ELSE Done(h)
  /\ UNCHANGED <<now, due, text, burned, rev, mirrors, clearances, history>>

\* Image.Verify, its Get: a failed call is ErrUnavailable, 502 and fallback.
Matches(n, a) == Alive(text[n].until, now) /\ text[n].said = a
LookImage(h) ==
  /\ pc[h] = "look" /\ req[h].answer \in Texts
  /\ \E outcome \in Outcomes :
       /\ Call(outcome)
       /\ IF outcome = "ok" /\ Matches(req[h].nonce, req[h].answer)
            THEN GoTo(h, "drop") ELSE Retreat(h)
  /\ UNCHANGED <<now, due, store, mirrors, clearances, history>>

\* External.Verify: the service accepts, refuses or does not answer.
LookExternal(h) ==
  /\ pc[h] = "look" /\ req[h].answer \in Tokens
  /\ \E verdict \in {"solved", "wrong", "unavailable"} :
       IF verdict = "solved" \/ (verdict = "unavailable" /\ OnError = "allow")
         THEN GoTo(h, "burn") ELSE Retreat(h)
  /\ UNCHANGED <<now, due, store, mirrors, clearances, faults, history>>

\* Image.Verify, its Del, whose error is ignored.
Drop(h) ==
  /\ pc[h] = "drop"
  /\ \E outcome \in Outcomes :
       /\ Call(outcome)
       /\ text' = IF Applied(outcome)
                    THEN [text EXCEPT ![req[h].nonce] = NoText] ELSE text
  /\ GoTo(h, "burn")
  /\ UNCHANGED <<now, due, burned, hits, rev, mirrors, clearances, history>>

\* Mutant: the key lives for the rest of the ticket only.
BurnToExpiry(n) == due[n]

BurnedUntil(n) == now + ChallengeTTL

First(n) == ~Alive(burned[n], now)

\* Mutant: grant does not read the clock.
GrantUnstamped(h) == req[h]

Granted(h) == [req[h] EXCEPT !.at = now]

\* Burn, SETNX: only the first handler goes on to grant, which reads the clock.
Burn(h) ==
  /\ pc[h] = "burn"
  /\ LET n == req[h].nonce IN
     \E outcome \in Outcomes :
       /\ Call(outcome)
       /\ burned' = IF First(n) /\ Applied(outcome)
                      THEN [burned EXCEPT ![n] = BurnedUntil(n)] ELSE burned
       /\ IF First(n) /\ outcome = "ok"
            THEN /\ pc' = [pc EXCEPT ![h] = "count"]
                 /\ req' = [req EXCEPT ![h] = Granted(h)]
            ELSE Retreat(h)
       /\ spoilt' = IF First(n) /\ outcome # "ok" THEN spoilt \cup {n} ELSE spoilt
  /\ UNCHANGED <<now, due, text, hits, rev, mirrors, clearances, page>>

-----------------------------------------------------------------------------
(* grant: count the fingerprint, ban a farm, seal the clearance. *)

Farms(n) == n >= FarmAt

Count(h) ==
  /\ pc[h] = "count"
  /\ LET f == req[h].fp IN
     IF f = None \/ FarmAt = 0
       THEN GoTo(h, "seal") /\ UNCHANGED <<hits, faults>>
       ELSE \E outcome \in Outcomes :
              /\ Hit(f, FarmAt, Window, outcome)
              /\ GoTo(h, IF outcome = "ok" /\ Farms(hits'[f].n) THEN "ban" ELSE "seal")
  /\ UNCHANGED <<now, due, text, burned, rev, mirrors, clearances, history>>

\* Mutant: the ban lasts as long as the count.
BanForWindow(h) == now + Window

BannedUntil(h) == req[h].at + ClearanceTTL

\* Revoke, ZADD: the last score wins; its error is ignored.
Ban(h) ==
  /\ pc[h] = "ban"
  /\ \E outcome \in Outcomes :
       /\ Call(outcome)
       /\ rev' = IF Applied(outcome)
                   THEN [rev EXCEPT ![req[h].fp] = BannedUntil(h)] ELSE rev
       /\ req' = [req EXCEPT ![h].ban = Applied(outcome)]
  /\ pc' = [pc EXCEPT ![h] = "seal"]
  /\ UNCHANGED <<now, due, text, burned, hits, mirrors, clearances, history>>

\* The clearance goes out, its list entry too unless the keeper fails.
Seal(h) ==
  /\ pc[h] = "seal"
  /\ \E outcome \in Outcomes :
       /\ Call(outcome)
       /\ clearances' = [clearances EXCEPT ![req[h].nonce] = Append(@,
            [fp |-> req[h].fp, expiry |-> req[h].at + ClearanceTTL,
             ban |-> req[h].ban, listed |-> Applied(outcome)])]
  /\ Done(h)
  /\ UNCHANGED <<now, due, store, mirrors, history>>

-----------------------------------------------------------------------------
(* Refresh: drop the lapsed bans, then read the rest. *)

\* Mutant: every ban is dropped that is not younger than a clearance.
LapsedEarly(f) == rev[f] <= now + ClearanceTTL

Lapsed(f) == rev[f] <= now

Trim(i) ==
  /\ refresh[i] = "trim"
  /\ \E outcome \in Outcomes :
       /\ Call(outcome)
       /\ rev' = IF Applied(outcome)
                   THEN [f \in Fps |-> IF Lapsed(f) THEN 0 ELSE rev[f]] ELSE rev
       /\ refresh' = [refresh EXCEPT ![i] = IF outcome = "ok" THEN "load" ELSE @]
  /\ UNCHANGED <<now, due, text, burned, hits, mirror, pc, req, clearances, history>>

Load(i) ==
  /\ refresh[i] = "load"
  /\ \E outcome \in Outcomes :
       /\ Call(outcome)
       /\ mirror' = IF outcome = "ok"
                      THEN [mirror EXCEPT ![i] = {f \in Fps : rev[f] # 0}] ELSE mirror
  /\ refresh' = [refresh EXCEPT ![i] = "trim"]
  /\ UNCHANGED <<now, due, store, pc, req, clearances, history>>

(* An instance stops and starts again: its requests are gone, its mirror is *)
(* empty until the first Refresh.                                           *)
Restart(i) ==
  /\ faults < MaxFaults
  /\ faults' = faults + 1
  /\ LET gone == {h \in Handlers : HostOf[h] = i} IN
     /\ pc' = [h \in Handlers |-> IF h \in gone THEN "idle" ELSE pc[h]]
     /\ req' = [h \in Handlers |-> IF h \in gone THEN Blank ELSE req[h]]
     /\ spoilt' = spoilt \cup {req[h].nonce : h \in {g \in gone :
                                                pc[g] \in Solved \cup {"burn"}}}
  /\ mirror' = [mirror EXCEPT ![i] = {}]
  /\ refresh' = [refresh EXCEPT ![i] = "trim"]
  /\ UNCHANGED <<now, due, store, clearances, page>>

Tick ==
  /\ now < Horizon
  /\ \A h \in Handlers : pc[h] # "idle" => now < req[h].since + Latency
  /\ now' = now + 1
  /\ UNCHANGED <<due, store, mirrors, pc, req, clearances, faults, history>>

-----------------------------------------------------------------------------
Serve(h) ==
  \/ LimitIssue(h) \/ Put(h)
  \/ LimitVerify(h) \/ LookImage(h) \/ LookExternal(h) \/ Drop(h) \/ Burn(h)
  \/ Count(h) \/ Ban(h) \/ Seal(h)

Next ==
  \/ \E n \in Nonces : Issue(n)
  \/ \E h \in Handlers, n \in Nonces : Visit(h, n)
  \/ \E h \in Handlers, n \in Nonces, a \in Texts \cup Tokens,
        f \in Prints, api \in Apis : Answer(h, n, a, f, api)
  \/ \E h \in Handlers : Serve(h)
  \/ \E i \in Hosts : Trim(i) \/ Load(i) \/ Restart(i)
  \/ Tick

Spec == Init /\ [][Next]_vars

\* Watch calls Refresh on a ticker for as long as the instance runs.
FairSpec == Spec /\ \A i \in Hosts : WF_vars(Trim(i)) /\ WF_vars(Load(i))
-----------------------------------------------------------------------------
(* Properties. *)

Request == [nonce : Nonces \cup {None}, answer : Texts \cup Tokens \cup {None},
            fp : Fps \cup {None}, api : BOOLEAN, since : Nat, at : Nat, ban : BOOLEAN]
Clearance == [fp : Fps \cup {None}, expiry : Nat, ban : BOOLEAN, listed : BOOLEAN]

\* The type of the roster, the handlers and the clearances; a handler in
\* service has a nonce and has been in service for Latency at most, and grant
\* works with the time it read (verify.go check, grant, pageSkipping).
TypeOK ==
  /\ now \in Nat /\ faults \in 0..MaxFaults
  /\ due \in [Nonces -> Nat]
  /\ text \in [Nonces -> [said : Texts \cup {None}, until : Nat]]
  /\ burned \in [Nonces -> Nat]
  /\ hits \in [Scopes -> [n : Nat, until : Nat]]
  /\ rev \in [Fps -> Nat]
  /\ mirror \in [Hosts -> SUBSET Fps]
  /\ refresh \in [Hosts -> {"trim", "load"}]
  /\ pc \in [Handlers -> Points]
  /\ req \in [Handlers -> Request]
  /\ clearances \in [Nonces -> Seq(Clearance)]
  /\ page \in [Nonces -> Texts \cup {None}] /\ spoilt \subseteq Nonces
  /\ \A h \in Handlers : pc[h] # "idle" =>
       req[h].nonce \in Nonces /\ now \in req[h].since .. req[h].since + Latency
  /\ \A h \in Handlers : pc[h] \in Solved => req[h].at \in req[h].since .. now

\* Two clearances of one ticket are a lifetime of the burn key apart, and the
\* later one was granted to a request in service as the ticket expired,
\* whatever double submits, reloads, lost answers and restarts do.  So a ticket
\* buys two at most while Latency <= ChallengeTTL, and one unless the first was
\* granted within Latency of the issue: the key of Burn (roster.go:150) lives
\* one ChallengeTTL from the burn, not until the last request that the ticket
\* admits has been served (verify.go:397-409).
ClearancesApart ==
  \A n \in Nonces : \A j, k \in DOMAIN clearances[n] :
    LET at == [i \in {j, k} |-> clearances[n][i].expiry - ClearanceTTL] IN
    j # k /\ at[j] <= at[k] => at[j] + ChallengeTTL <= at[k] /\ at[k] < due[n] + Latency

\* The text on the last page of a ticket is the one its answer is compared with,
\* until the session ends, the nonce is burned or a clearance is on its way; but
\* for tickets that a lost answer or a restart hit.  A wrong answer, a rate
\* limit, a failed look-up and a request that is only late leave it alone
\* (image.go:35, 66, 79).  Only a newer page of the same ticket takes over: what
\* an older page showed is no answer any more, the store keeps one text a nonce.
TicketStaysUsable ==
  \A n \in Nonces \ spoilt : page[n] # None =>
    \/ ~InSession(n)
    \/ clearances[n] # << >>
    \/ \E h \in Handlers : req[h].nonce = n /\ pc[h] \in Solved \cup {"burn"}
    \/ Matches(n, page[n]) /\ burned[n] = 0

\* The clearance whose fingerprint was banned as a farm does not outlive the
\* ban, but for the time one request may take: bans of one fingerprint land in
\* any order and the last score wins (verify.go:469-475, roster.go:138).
BanOutlivesClearance ==
  \A n \in Nonces : \A k \in DOMAIN clearances[n] :
    LET c == clearances[n][k] IN
    c.ban => \/ c.expiry <= now + Latency
             \/ c.expiry <= rev[c.fp] + Latency

\* A ban reaches the mirror of every instance while a clearance it was meant
\* for lives: one that restarts, or whose Refresh fails, catches up
\* (roster.go:36-56, 112-136).
Farmed(n, f) ==
  \E k \in DOMAIN clearances[n] :
    LET c == clearances[n][k] IN c.ban /\ c.fp = f /\ now + Latency < c.expiry
BanReachesEveryMirror ==
  \A i \in Hosts, f \in Fps, n \in Nonces :
    [](Farmed(n, f) => <>(f \in mirror[i] \/ ~Farmed(n, f)))
=============================================================================
