-------------------------- MODULE ChallengeProofs --------------------------
(***************************************************************************)
(* Type correctness of the challenge; the clearances of a ticket are a     *)
(* lifetime of the burn key apart; a ticket stays usable for who was shown *)
(* its last page; a ban outlives the clearance that earned it: for any     *)
(* number of tickets, requests, instances, failures and restarts, and any  *)
(* bound Latency on the time a request is in service.                      *)
(***************************************************************************)
EXTENDS Challenge, SequenceTheorems, TLAPS

\* The part of TypeOK that is about the handlers.
HandlersOK ==
  /\ pc \in [Handlers -> Points]
  /\ req \in [Handlers -> Request]
  /\ \A h \in Handlers : pc[h] # "idle" =>
       req[h].nonce \in Nonces /\ now \in req[h].since .. req[h].since + Latency
  /\ \A h \in Handlers : pc[h] \in Solved => req[h].at \in req[h].since .. now

LEMMA TypeParts == TypeOK => HandlersOK
BY DEF TypeOK, HandlersOK

\* What most steps need of the assumption.
LEMMA Bounds ==
  /\ ChallengeTTL \in Nat \ {0} /\ ClearanceTTL \in Nat /\ Window \in Nat /\ Per \in Nat
  /\ VerifyMax \in Nat /\ IssueMax \in Nat /\ FarmAt \in Nat /\ MaxFaults \in Nat
  /\ Latency \in Nat
  /\ Apis \subseteq BOOLEAN /\ Prints \subseteq Fps \cup {None}
BY ChallengeAssumption

LEMMA BlankType == Blank \in Request
BY DEF Blank, Request

\* A failed call is counted, up to the bound.
LEMMA CallType ==
  ASSUME faults \in 0..MaxFaults, NEW outcome, Call(outcome)
  PROVE  faults' \in 0..MaxFaults
BY ChallengeAssumption DEF Call

\* A hit leaves a counter a counter.
LEMMA HitType ==
  ASSUME hits \in [Scopes -> [n : Nat, until : Nat]], faults \in 0..MaxFaults,
         now \in Nat, NEW scope \in Scopes, NEW max \in Nat, NEW per \in Nat,
         NEW outcome, Hit(scope, max, per, outcome)
  PROVE  hits' \in [Scopes -> [n : Nat, until : Nat]] /\ faults' \in 0..MaxFaults
<1>1. Bump(hits[scope], now, per, max + 1) \in [n : Nat, until : Nat]
  BY DEF Bump
<1>2. faults' \in 0..MaxFaults
  BY CallType DEF Hit
<1> QED BY <1>1, <1>2 DEF Hit

LEMMA GoToOK ==
  ASSUME HandlersOK, now' = now, NEW h \in Handlers, NEW p \in Points, GoTo(h, p),
         pc[h] # "idle", p \in Solved => pc[h] \in Solved
  PROVE  HandlersOK'
BY DEF GoTo, HandlersOK

LEMMA DoneOK ==
  ASSUME HandlersOK, now' = now, NEW h \in Handlers, Done(h)
  PROVE  HandlersOK'
BY BlankType DEF Done, HandlersOK, Solved, Points

LEMMA RetreatOK ==
  ASSUME HandlersOK, now' = now, NEW h \in Handlers, Retreat(h), pc[h] # "idle"
  PROVE  HandlersOK'
BY GoToOK, DoneOK DEF Retreat, Solved, Points

LEMMA TypeInit == Init => TypeOK
BY ChallengeAssumption, BlankType
   DEF Init, TypeOK, NoText, Points, Solved, Scopes, Request, Blank

\* Each action of a handler keeps the handlers well typed.
LEMMA ServeHandlers ==
  ASSUME TypeOK, NEW h \in Handlers, Serve(h)
  PROVE  HandlersOK'
<1>0. HandlersOK /\ now \in Nat
  BY TypeParts DEF TypeOK
<1>1. CASE LimitIssue(h)
  BY <1>0, <1>1, GoToOK, DoneOK DEF LimitIssue, Points, Solved
<1>2. CASE Put(h)
  BY <1>0, <1>2, DoneOK DEF Put
<1>3. CASE LimitVerify(h)
  BY <1>0, <1>3, GoToOK, DoneOK DEF LimitVerify, Points, Solved
<1>4. CASE LookImage(h)
  BY <1>0, <1>4, GoToOK, RetreatOK DEF LookImage, Points, Solved
<1>5. CASE LookExternal(h)
  BY <1>0, <1>5, GoToOK, RetreatOK DEF LookExternal, Points, Solved
<1>6. CASE Drop(h)
  BY <1>0, <1>6, GoToOK DEF Drop, Points, Solved
<1>7. CASE Burn(h)
  <2>1. CASE Retreat(h)
    BY <1>0, <1>7, <2>1, RetreatOK DEF Burn
  <2>2. CASE pc' = [pc EXCEPT ![h] = "count"] /\ req' = [req EXCEPT ![h] = Granted(h)]
    <3>1. req[h] \in Request /\ Granted(h) \in Request
          /\ Granted(h).at = now /\ Granted(h).since = req[h].since
          /\ Granted(h).nonce = req[h].nonce
      BY <1>0 DEF Granted, HandlersOK, Request
    <3>2. pc[h] = "burn" /\ now' = now
      BY <1>7 DEF Burn
    <3>3. now \in req[h].since .. req[h].since + Latency /\ req[h].since \in Nat
      BY <1>0, <3>1, <3>2 DEF HandlersOK, Request
    <3> QED BY <1>0, <2>2, <3>1, <3>2, <3>3, ChallengeAssumption
            DEF HandlersOK, Points, Solved
  <2> QED BY <1>7, <2>1, <2>2 DEF Burn
<1>8. CASE Count(h)
  BY <1>0, <1>8, GoToOK DEF Count, Points, Solved
<1>9. CASE Ban(h)
  <2>1. PICK b \in BOOLEAN : req' = [req EXCEPT ![h].ban = b]
    BY <1>9 DEF Ban, Applied
  <2>2. pc' = [pc EXCEPT ![h] = "seal"] /\ pc[h] = "ban" /\ now' = now
    BY <1>9 DEF Ban
  <2>3. req' \in [Handlers -> Request]
        /\ \A g \in Handlers : /\ req'[g].at = req[g].at
                               /\ req'[g].since = req[g].since
                               /\ req'[g].nonce = req[g].nonce
    BY <1>0, <2>1 DEF HandlersOK, Request
  <2> QED BY <1>0, <2>2, <2>3 DEF HandlersOK, Points, Solved
<1>10. CASE Seal(h)
  BY <1>0, <1>10, DoneOK DEF Seal
<1> QED BY <1>1, <1>2, <1>3, <1>4, <1>5, <1>6, <1>7, <1>8, <1>9, <1>10 DEF Serve
\* Each action of a handler keeps the store and the clearances well typed.
LEMMA ServeStore ==
  ASSUME TypeOK, NEW h \in Handlers, Serve(h)
  PROVE  TypeOK'
<1> USE Bounds
<1>0. HandlersOK'
  BY ServeHandlers
<1>1. CASE LimitIssue(h)
  <2>1. hits' \in [Scopes -> [n : Nat, until : Nat]] /\ faults' \in 0..MaxFaults
    BY <1>1, HitType DEF LimitIssue, TypeOK, Scopes
  <2> QED BY <1>0, <1>1, <2>1 DEF LimitIssue, TypeOK, HandlersOK, mirrors, history
<1>2. CASE Put(h)
  <2>1. req[h].nonce \in Nonces
    BY <1>2 DEF Put, TypeOK
  <2>2. PICK outcome \in Outcomes, t \in Texts :
          /\ Call(outcome)
          /\ text' = IF Applied(outcome)
                       THEN [text EXCEPT ![req[h].nonce] = NewText(req[h].nonce, t)]
                       ELSE text
          /\ page' = IF outcome = "ok" THEN [page EXCEPT ![req[h].nonce] = t] ELSE page
          /\ spoilt' = IF Applied(outcome) /\ outcome # "ok"
                         THEN spoilt \cup {req[h].nonce} ELSE spoilt
    BY <1>2 DEF Put
  <2>3. NewText(req[h].nonce, t) \in [said : Texts \cup {None}, until : Nat]
    BY DEF NewText, TextUntil, TypeOK
  <2>4. text' \in [Nonces -> [said : Texts \cup {None}, until : Nat]]
    BY <2>2, <2>3 DEF TypeOK
  <2>5. page' \in [Nonces -> Texts \cup {None}] /\ spoilt' \subseteq Nonces
        /\ faults' \in 0..MaxFaults
    BY <2>1, <2>2, CallType DEF TypeOK
  <2> QED BY <1>0, <1>2, <2>4, <2>5 DEF Put, TypeOK, HandlersOK, mirrors
<1>3. CASE LimitVerify(h)
  <2>1. hits' \in [Scopes -> [n : Nat, until : Nat]] /\ faults' \in 0..MaxFaults
    BY <1>3, HitType DEF LimitVerify, TypeOK, Scopes
  <2> QED BY <1>0, <1>3, <2>1 DEF LimitVerify, TypeOK, HandlersOK, mirrors, history
<1>4. CASE LookImage(h)
  <2>1. faults' \in 0..MaxFaults
    BY <1>4, CallType DEF LookImage, TypeOK
  <2> QED BY <1>0, <1>4, <2>1
          DEF LookImage, TypeOK, HandlersOK, mirrors, history, store
<1>5. CASE LookExternal(h)
  BY <1>0, <1>5 DEF LookExternal, TypeOK, HandlersOK, mirrors, history, store
<1>6. CASE Drop(h)
  <2>1. faults' \in 0..MaxFaults
    BY <1>6, CallType DEF Drop, TypeOK
  <2>2. NoText \in [said : Texts \cup {None}, until : Nat]
    BY DEF NoText
  <2>3. text' \in [Nonces -> [said : Texts \cup {None}, until : Nat]]
    BY <1>6, <2>2 DEF Drop, TypeOK
  <2> QED BY <1>0, <1>6, <2>1, <2>3 DEF Drop, TypeOK, HandlersOK, mirrors, history
<1>7. CASE Burn(h)
  <2>1. faults' \in 0..MaxFaults
    BY <1>7, CallType DEF Burn, TypeOK
  <2>0. pc[h] = "burn" /\ now \in Nat
    BY <1>7 DEF Burn, TypeOK
  <2>2. req[h].nonce \in Nonces /\ BurnedUntil(req[h].nonce) \in Nat
    BY <2>0 DEF TypeOK, BurnedUntil
  <2>3. burned' \in [Nonces -> Nat] /\ spoilt' \subseteq Nonces
    BY <1>7, <2>2 DEF Burn, TypeOK
  <2> QED BY <1>0, <1>7, <2>1, <2>3 DEF Burn, TypeOK, HandlersOK, mirrors
<1>8. CASE Count(h)
  <2>1. req[h].fp \in Fps \cup {None}
    BY DEF TypeOK, Request
  <2>2. hits' \in [Scopes -> [n : Nat, until : Nat]] /\ faults' \in 0..MaxFaults
    BY <1>8, <2>1, HitType DEF Count, TypeOK, Scopes
  <2> QED BY <1>0, <1>8, <2>2 DEF Count, TypeOK, HandlersOK, mirrors, history
<1>9. CASE Ban(h)
  <2>1. faults' \in 0..MaxFaults
    BY <1>9, CallType DEF Ban, TypeOK
  <2>2. BannedUntil(h) \in Nat
    BY DEF BannedUntil, TypeOK, Request
  <2>3. rev' \in [Fps -> Nat]
    BY <1>9, <2>2 DEF Ban, TypeOK
  <2> QED BY <1>0, <1>9, <2>1, <2>3 DEF Ban, TypeOK, HandlersOK, mirrors, history
<1>10. CASE Seal(h)
  <2>1. PICK outcome \in Outcomes :
          /\ Call(outcome)
          /\ clearances' = [clearances EXCEPT ![req[h].nonce] = Append(@,
               [fp |-> req[h].fp, expiry |-> req[h].at + ClearanceTTL,
                ban |-> req[h].ban, listed |-> Applied(outcome)])]
    BY <1>10 DEF Seal
  <2>2. [fp |-> req[h].fp, expiry |-> req[h].at + ClearanceTTL,
         ban |-> req[h].ban, listed |-> Applied(outcome)] \in Clearance
    BY DEF Clearance, TypeOK, Request, Applied
  <2>a. \A s \in Seq(Clearance), c \in Clearance : Append(s, c) \in Seq(Clearance)
    BY AppendProperties
  <2>3. clearances' \in [Nonces -> Seq(Clearance)]
    BY <2>1, <2>2, <2>a DEF TypeOK
  <2>4. faults' \in 0..MaxFaults
    BY <2>1, CallType DEF TypeOK
  <2> QED BY <1>0, <1>10, <2>3, <2>4
          DEF Seal, TypeOK, HandlersOK, mirrors, history, store
<1> QED BY <1>1, <1>2, <1>3, <1>4, <1>5, <1>6, <1>7, <1>8, <1>9, <1>10 DEF Serve

LEMMA TypeStep == TypeOK /\ [Next]_vars => TypeOK'
<1> SUFFICES ASSUME TypeOK, [Next]_vars PROVE TypeOK'
  OBVIOUS
<1> USE Bounds
<1>1. ASSUME NEW n \in Nonces, Issue(n) PROVE TypeOK'
  <2>1. due' \in [Nonces -> Nat]
    BY <1>1 DEF Issue, TypeOK
  <2> QED BY <1>1, <2>1 DEF Issue, TypeOK, mirrors, history, store
<1>2. ASSUME NEW h \in Handlers, NEW n \in Nonces, Visit(h, n) PROVE TypeOK'
  <2>1. [Blank EXCEPT !.nonce = n, !.since = now] \in Request
    BY DEF Blank, Request, TypeOK
  <2>2. req'[h].nonce = n /\ req'[h].since = now
    BY <1>2 DEF Visit, Blank, TypeOK
  <2>3. now \in Nat /\ now' = now /\ HandlersOK
    BY <1>2, TypeParts DEF Visit, TypeOK
  <2>4. HandlersOK'
    BY <1>2, <2>1, <2>2, <2>3 DEF Visit, HandlersOK, Points, Solved
  <2> QED BY <1>2, <2>4 DEF Visit, TypeOK, HandlersOK, mirrors, history, store
<1>3. ASSUME NEW h \in Handlers, NEW n \in Nonces, NEW a \in Texts \cup Tokens,
             NEW f \in Prints, NEW api \in Apis, Answer(h, n, a, f, api)
      PROVE  TypeOK'
  <2>1. [Blank EXCEPT !.nonce = n, !.answer = a, !.fp = f, !.api = api, !.since = now]
          \in Request
    BY DEF Blank, Request, TypeOK
  <2>2. req'[h].nonce = n /\ req'[h].since = now
    BY <1>3 DEF Answer, Blank, TypeOK
  <2>3. now \in Nat /\ now' = now /\ HandlersOK
    BY <1>3, TypeParts DEF Answer, TypeOK
  <2>4. HandlersOK'
    BY <1>3, <2>1, <2>2, <2>3 DEF Answer, HandlersOK, Points, Solved
  <2> QED BY <1>3, <2>4 DEF Answer, TypeOK, HandlersOK, mirrors, history, store
<1>4. ASSUME NEW h \in Handlers, Serve(h) PROVE TypeOK'
  BY <1>4, ServeStore
<1>5. ASSUME NEW i \in Hosts, Trim(i) PROVE TypeOK'
  <2>1. faults' \in 0..MaxFaults
    BY <1>5, CallType DEF Trim, TypeOK
  <2>2. rev' \in [Fps -> Nat] /\ refresh' \in [Hosts -> {"trim", "load"}]
    BY <1>5 DEF Trim, TypeOK
  <2> QED BY <1>5, <2>1, <2>2 DEF Trim, TypeOK, history
<1>6. ASSUME NEW i \in Hosts, Load(i) PROVE TypeOK'
  <2>1. faults' \in 0..MaxFaults
    BY <1>6, CallType DEF Load, TypeOK
  <2>2. /\ mirror' \in [Hosts -> SUBSET Fps]
        /\ refresh' \in [Hosts -> {"trim", "load"}]
    BY <1>6 DEF Load, TypeOK
  <2> QED BY <1>6, <2>1, <2>2 DEF Load, TypeOK, history, store
<1>7. ASSUME NEW i \in Hosts, Restart(i) PROVE TypeOK'
  <2>1. faults' \in 0..MaxFaults /\ now' = now
    BY <1>7 DEF Restart, TypeOK
  <2>2. HandlersOK'
    BY <1>7, TypeParts, BlankType DEF Restart, HandlersOK, Points, Solved
  <2>3. spoilt' \subseteq Nonces
    BY <1>7 DEF Restart, TypeOK, Solved
  <2> QED BY <1>7, <2>1, <2>2, <2>3 DEF Restart, TypeOK, HandlersOK, store
<1>8. CASE Tick
  <2>1. now' = now + 1 /\ now' \in Nat /\ pc' = pc /\ req' = req
    BY <1>8 DEF Tick, TypeOK
  <2>2. \A h \in Handlers : req[h].since \in Nat /\ req[h].at \in Nat
    BY DEF TypeOK, Request
  <2>3. \A h \in Handlers : pc[h] # "idle" => now' \in req[h].since .. req[h].since + Latency
    BY <1>8, <2>1, <2>2 DEF Tick, TypeOK
  <2>4. HandlersOK'
    <3>1. \A h \in Handlers : pc[h] \in Solved => req[h].at \in req[h].since .. now'
      BY <2>1, <2>2 DEF TypeOK
    <3> QED BY <2>1, <2>3, <3>1, TypeParts DEF HandlersOK
  <2> QED BY <1>8, <2>1, <2>4 DEF Tick, TypeOK, HandlersOK, mirrors, history, store
<1>9. CASE UNCHANGED vars
  BY <1>9 DEF vars, TypeOK, mirrors, history, store
<1> QED BY <1>1, <1>2, <1>3, <1>4, <1>5, <1>6, <1>7, <1>8, <1>9 DEF Next

\* The roster, the handlers and the clearances stay well typed, and no request
\* is served for longer than Latency (verify.go, roster.go).
THEOREM TypeCorrect == Spec => []TypeOK
BY TypeInit, TypeStep, PTL DEF Spec
-----------------------------------------------------------------------------
\* Handlers that check an answer, or grant it.
Checking == {"limit", "look", "drop", "burn"} \cup Solved

\* When a clearance was granted.
At(c) == c.expiry - ClearanceTTL
Apart(a, b) == a + ChallengeTTL <= b \/ b + ChallengeTTL <= a

\* The strengthening.  A handler that checks an answer came while its ticket was
\* good.  A grant, given out or on its way, is from a request in service as its
\* ticket expired or before, and the key of its burn, or of a later one, lives
\* one ChallengeTTL from it; so two grants of one ticket are apart.
SessionInv ==
  \A h \in Handlers : pc[h] \in Checking =>
    due[req[h].nonce] # 0 /\ req[h].since < due[req[h].nonce]
Grant(n, a) == a + ChallengeTTL <= burned[n] /\ a < due[n] + Latency
GrantInv ==
  /\ \A h \in Handlers : pc[h] \in Solved => Grant(req[h].nonce, req[h].at)
  /\ \A n \in Nonces : \A k \in DOMAIN clearances[n] : Grant(n, At(clearances[n][k]))
ApartInv ==
  /\ \A g, h \in Handlers :
       g # h /\ pc[g] \in Solved /\ pc[h] \in Solved /\ req[g].nonce = req[h].nonce
         => Apart(req[g].at, req[h].at)
  /\ \A h \in Handlers : pc[h] \in Solved =>
       \A k \in DOMAIN clearances[req[h].nonce] :
         Apart(req[h].at, At(clearances[req[h].nonce][k]))
  /\ \A n \in Nonces : \A j, k \in DOMAIN clearances[n] :
       j # k => Apart(At(clearances[n][j]), At(clearances[n][k]))
OnceInv == SessionInv /\ GrantInv /\ ApartInv

LEMMA OnceInit == Init => OnceInv
<1> SUFFICES ASSUME Init PROVE OnceInv
  OBVIOUS
<1>1. \A h \in Handlers : pc[h] = "idle"
  BY DEF Init
<1>2. \A n \in Nonces : DOMAIN clearances[n] = {}
  BY DEF Init
<1> QED BY <1>1, <1>2 DEF OnceInv, SessionInv, GrantInv, ApartInv, Checking, Solved

\* A step that leaves tickets, burns and clearances alone, and in which handlers
\* only go on with the request they have, or stop.
LEMMA OnceKept ==
  ASSUME OnceInv, UNCHANGED <<due, burned, clearances>>,
         \A h \in Handlers :
           /\ pc'[h] \in Checking => /\ pc[h] \in Checking
                                    /\ req'[h].nonce = req[h].nonce
                                    /\ req'[h].since = req[h].since
           /\ pc'[h] \in Solved => pc[h] \in Solved /\ req'[h].at = req[h].at
  PROVE  OnceInv'
<1>1. \A h \in Handlers : pc'[h] \in Solved => req'[h].nonce = req[h].nonce
  BY DEF Checking
<1>2. SessionInv'
  BY DEF OnceInv, SessionInv
<1>3. GrantInv'
  BY <1>1 DEF OnceInv, GrantInv, Grant, At
<1>4. ApartInv'
  BY <1>1 DEF OnceInv, ApartInv, Apart, At
<1> QED BY <1>2, <1>3, <1>4 DEF OnceInv

\* GoTo, Done and Retreat are such steps of one handler.
LEMMA OnceMove ==
  ASSUME TypeOK, OnceInv, UNCHANGED <<due, burned, clearances>>,
         NEW h \in Handlers, NEW p \in Points,
         GoTo(h, p) \/ Done(h) \/ Retreat(h),
         p \in Checking => pc[h] \in Checking,
         p \in Solved => pc[h] \in Solved
  PROVE  OnceInv'
<1>1. CASE GoTo(h, p)
  BY <1>1, OnceKept DEF GoTo, TypeOK
<1>2. CASE Done(h)
  BY <1>2, OnceKept DEF Done, TypeOK, Checking, Solved
<1>3. CASE Retreat(h)
  <2>1. CASE Done(h)
    BY <2>1, OnceKept DEF Done, TypeOK, Checking, Solved
  <2>2. CASE GoTo(h, "issue")
    BY <2>2, OnceKept DEF GoTo, TypeOK, Checking, Solved
  <2> QED BY <1>3, <2>1, <2>2 DEF Retreat
<1> QED BY <1>1, <1>2, <1>3

\* A burn puts off the death of the key, so what was granted stays granted.
LEMMA BurnLonger ==
  ASSUME TypeOK, NEW h \in Handlers, Burn(h)
  PROVE  /\ burned' \in [Nonces -> Nat]
         /\ \A n \in Nonces : burned[n] <= burned'[n]
<1> DEFINE n == req[h].nonce
<1>1. n \in Nonces /\ now \in Nat /\ burned \in [Nonces -> Nat]
  BY DEF Burn, TypeOK
<1>2. \/ burned' = burned
      \/ First(n) /\ burned' = [burned EXCEPT ![n] = BurnedUntil(n)]
  BY DEF Burn
<1>3. First(n) => burned[n] <= BurnedUntil(n)
  BY <1>1, Bounds DEF First, Alive, BurnedUntil
<1>4. BurnedUntil(n) \in Nat
  BY <1>1, Bounds DEF BurnedUntil
<1> QED BY <1>1, <1>2, <1>3, <1>4

LEMMA GrantLonger ==
  ASSUME TypeOK, NEW n \in Nonces, NEW a \in Int, Grant(n, a), due' = due,
         burned' \in [Nonces -> Nat], burned[n] <= burned'[n]
  PROVE  Grant(n, a)'
BY Bounds DEF Grant, TypeOK

LEMMA GrantTimes ==
  ASSUME TypeOK
  PROVE  /\ \A h \in Handlers : req[h].at \in Nat
         /\ \A n \in Nonces : \A k \in DOMAIN clearances[n] : At(clearances[n][k]) \in Int
<1>1. \A h \in Handlers : req[h].at \in Nat
  BY DEF TypeOK, Request
<1>2. ASSUME NEW n \in Nonces, NEW k \in DOMAIN clearances[n]
      PROVE  At(clearances[n][k]) \in Int
  <2>1. clearances[n] \in Seq(Clearance)
    BY DEF TypeOK
  <2>2. clearances[n][k] \in Clearance
    BY <2>1, ElementOfSeq
  <2> QED BY <2>2, Bounds DEF At, Clearance
<1> QED BY <1>1, <1>2

\* Burn: what this handler grants is a lifetime after all that was granted.
LEMMA OnceBurn ==
  ASSUME TypeOK, OnceInv, NEW h \in Handlers, Burn(h) PROVE OnceInv'
<1> DEFINE n == req[h].nonce
<1>1. /\ pc[h] = "burn" /\ UNCHANGED <<due, clearances, now>>
  BY DEF Burn
<1>2. n \in Nonces /\ now \in req[h].since .. req[h].since + Latency
  BY <1>1 DEF TypeOK
<1>3. /\ req[h].since \in Nat /\ due[n] \in Nat /\ now \in Nat
      /\ due[n] # 0 /\ req[h].since < due[n]
  BY <1>1, <1>2 DEF TypeOK, Request, OnceInv, SessionInv, Checking
<1>4. \A m \in Nonces : \A k \in DOMAIN clearances[m] : Grant(m, At(clearances[m][k]))'
  BY <1>1, BurnLonger, GrantLonger, GrantTimes DEF OnceInv, GrantInv, At
<1>5. \A g \in Handlers : pc[g] \in Solved => Grant(req[g].nonce, req[g].at)'
                                              \/ req'[g] # req[g]
  <2> SUFFICES ASSUME NEW g \in Handlers, pc[g] \in Solved, req'[g] = req[g]
               PROVE  Grant(req[g].nonce, req[g].at)'
    OBVIOUS
  <2>1. req[g].nonce \in Nonces /\ req[g].at \in Int /\ Grant(req[g].nonce, req[g].at)
    BY GrantTimes DEF TypeOK, Solved, OnceInv, GrantInv
  <2> DEFINE m == req[g].nonce  a == req[g].at
  <2>2. burned[m] <= burned'[m] /\ burned' \in [Nonces -> Nat]
    BY <2>1, BurnLonger
  <2>3. m' = m /\ a' = a
    OBVIOUS
  <2>4. a + ChallengeTTL <= burned'[m] /\ a < due'[m] + Latency
    BY <1>1, <2>1, <2>2, Bounds DEF Grant, TypeOK
  <2> QED BY <2>3, <2>4 DEF Grant
<1>6. \A g \in Handlers : g # h => pc'[g] = pc[g] /\ req'[g] = req[g]
  BY DEF Burn, Retreat, GoTo, Done, TypeOK
<1>7. CASE Retreat(h)
  <2>1. /\ pc'[h] \notin Checking /\ pc'[h] \notin Solved
    BY <1>7 DEF Retreat, GoTo, Done, TypeOK, Checking, Solved
  <2>2. SessionInv'
    BY <1>1, <1>6, <2>1 DEF SessionInv, OnceInv
  <2>3. GrantInv'
    <3>1. ASSUME NEW g \in Handlers, pc'[g] \in Solved
          PROVE  Grant(req[g].nonce, req[g].at)'
      BY <1>5, <1>6, <2>1, <3>1
    <3> QED BY <1>1, <1>4, <3>1 DEF GrantInv
  <2>4. ApartInv'
    BY <1>1, <1>6, <2>1 DEF ApartInv, OnceInv, Apart, At
  <2> QED BY <2>2, <2>3, <2>4 DEF OnceInv
<1>8. CASE /\ First(n) /\ burned' = [burned EXCEPT ![n] = BurnedUntil(n)]
           /\ pc' = [pc EXCEPT ![h] = "count"] /\ req' = [req EXCEPT ![h] = Granted(h)]
  <2>1. /\ pc'[h] = "count" /\ req'[h].nonce = n /\ req'[h].since = req[h].since
        /\ req'[h].at = now
    BY <1>8 DEF Granted, TypeOK, Request
  <2>2. SessionInv'
    BY <1>1, <1>6, <2>1 DEF SessionInv, OnceInv, Checking
  <2>3. burned[n] <= now /\ burned'[n] = now + ChallengeTTL
    BY <1>2, <1>3, <1>8 DEF First, Alive, BurnedUntil, TypeOK
  <2>4. now + ChallengeTTL <= burned'[n] /\ now < due'[n] + Latency
    BY <1>1, <1>2, <1>3, <2>3, Bounds
  <2>5. GrantInv'
    <3>1. ASSUME NEW g \in Handlers, pc'[g] \in Solved
          PROVE  Grant(req[g].nonce, req[g].at)'
      <4>1. CASE g = h
        BY <2>1, <2>4, <4>1 DEF Grant
      <4>2. CASE g # h
        BY <1>5, <1>6, <3>1, <4>2
      <4> QED BY <4>1, <4>2
    <3> QED BY <1>1, <1>4, <3>1 DEF GrantInv
  <2>6. \A g \in Handlers : pc[g] \in Solved /\ req[g].nonce = n => Apart(req[g].at, now)
    <3> SUFFICES ASSUME NEW g \in Handlers, pc[g] \in Solved, req[g].nonce = n
                 PROVE  Apart(req[g].at, now)
      OBVIOUS
    <3>1. Grant(n, req[g].at)
      BY DEF OnceInv, GrantInv
    <3>2. req[g].at \in Nat /\ burned[n] \in Nat
      BY <1>2, GrantTimes DEF TypeOK
    <3>3. req[g].at + ChallengeTTL <= now
      BY <1>3, <2>3, <3>1, <3>2, Bounds DEF Grant
    <3> QED BY <3>3 DEF Apart
  <2>7. \A k \in DOMAIN clearances[n] : Apart(now, At(clearances[n][k]))
    <3> SUFFICES ASSUME NEW k \in DOMAIN clearances[n]
                 PROVE  Apart(now, At(clearances[n][k]))
      OBVIOUS
    <3>1. Grant(n, At(clearances[n][k]))
      BY <1>2 DEF OnceInv, GrantInv
    <3>2. At(clearances[n][k]) \in Int /\ burned[n] \in Nat
      BY <1>2, GrantTimes DEF TypeOK
    <3>3. At(clearances[n][k]) + ChallengeTTL <= now
      BY <1>3, <2>3, <3>1, <3>2, Bounds DEF Grant
    <3> QED BY <3>3 DEF Apart
  <2>8. ApartInv'
    <3>1. ASSUME NEW g \in Handlers, NEW k \in Handlers, g # k, pc'[g] \in Solved,
                 pc'[k] \in Solved, req'[g].nonce = req'[k].nonce
          PROVE  Apart(req'[g].at, req'[k].at)
      <4>1. CASE g = h
        BY <1>6, <2>1, <2>6, <3>1, <4>1 DEF Apart
      <4>2. CASE k = h
        BY <1>6, <2>1, <2>6, <3>1, <4>2 DEF Apart
      <4>3. CASE g # h /\ k # h
        BY <1>6, <3>1, <4>3 DEF OnceInv, ApartInv
      <4> QED BY <4>1, <4>2, <4>3
    <3>2. ASSUME NEW g \in Handlers, pc'[g] \in Solved,
                 NEW k \in DOMAIN clearances[req'[g].nonce]
          PROVE  Apart(req'[g].at, At(clearances[req'[g].nonce][k]))
      <4>1. CASE g = h
        BY <2>1, <2>7, <4>1
      <4>2. CASE g # h
        BY <1>6, <3>2, <4>2 DEF OnceInv, ApartInv
      <4> QED BY <4>1, <4>2
    <3> QED BY <1>1, <3>1, <3>2 DEF ApartInv, OnceInv, Apart, At
  <2> QED BY <2>2, <2>5, <2>8 DEF OnceInv
<1> QED BY <1>7, <1>8, ChallengeAssumption DEF Burn, Applied

\* Seal: the grant on its way becomes a clearance, and the handler is done.
LEMMA OnceSeal ==
  ASSUME TypeOK, OnceInv, NEW h \in Handlers, Seal(h) PROVE OnceInv'
<1> DEFINE n == req[h].nonce
           last == Len(clearances[n]) + 1
<1>1. pc[h] = "seal" /\ Done(h) /\ UNCHANGED <<due, burned, now>>
  BY DEF Seal, store
<1>2. n \in Nonces /\ clearances[n] \in Seq(Clearance) /\ pc[h] \in Solved
  BY <1>1 DEF TypeOK, Solved
<1>3. PICK c \in Clearance : /\ clearances' = [clearances EXCEPT ![n] = Append(@, c)]
                             /\ At(c) = req[h].at
  <2>1. PICK outcome \in Outcomes :
          clearances' = [clearances EXCEPT ![n] = Append(@,
            [fp |-> req[h].fp, expiry |-> req[h].at + ClearanceTTL,
             ban |-> req[h].ban, listed |-> Applied(outcome)])]
    BY DEF Seal
  <2>2. [fp |-> req[h].fp, expiry |-> req[h].at + ClearanceTTL,
         ban |-> req[h].ban, listed |-> Applied(outcome)] \in Clearance
    BY Bounds DEF Clearance, TypeOK, Request, Applied
  <2>3. ASSUME NEW r, r.expiry = req[h].at + ClearanceTTL PROVE At(r) = req[h].at
    BY <2>3, GrantTimes, Bounds DEF At
  <2>4. At([fp |-> req[h].fp, expiry |-> req[h].at + ClearanceTTL,
            ban |-> req[h].ban, listed |-> Applied(outcome)]) = req[h].at
    BY <2>3
  <2> QED BY <2>1, <2>2, <2>4
<1>4. /\ DOMAIN clearances'[n] = DOMAIN clearances[n] \cup {last}
      /\ last \notin DOMAIN clearances[n] /\ clearances'[n][last] = c
      /\ \A k \in DOMAIN clearances[n] : clearances'[n][k] = clearances[n][k]
      /\ \A m \in Nonces : m # n => clearances'[m] = clearances[m]
  <2>1. clearances'[n] = Append(clearances[n], c)
        /\ \A m \in Nonces : m # n => clearances'[m] = clearances[m]
    BY <1>2, <1>3 DEF TypeOK
  <2>2. Len(clearances[n]) \in Nat /\ DOMAIN clearances[n] = 1..Len(clearances[n])
    BY <1>2, LenProperties
  <2>3. /\ Len(Append(clearances[n], c)) = last
        /\ DOMAIN Append(clearances[n], c) = 1..last
        /\ Append(clearances[n], c)[last] = c
        /\ \A k \in 1..Len(clearances[n]) : Append(clearances[n], c)[k] = clearances[n][k]
    BY <1>2, AppendProperties
  <2>4. 1..last = 1..Len(clearances[n]) \cup {last} /\ last \notin 1..Len(clearances[n])
    <3>1. \A m \in Nat : 1..(m + 1) = 1..m \cup {m + 1} /\ m + 1 \notin 1..m
      OBVIOUS
    <3> QED BY <2>2, <3>1
  <2>5. /\ DOMAIN clearances'[n] = DOMAIN clearances[n] \cup {last}
        /\ last \notin DOMAIN clearances[n]
    BY <2>1, <2>2, <2>3, <2>4
  <2>6. /\ clearances'[n][last] = c
        /\ \A k \in DOMAIN clearances[n] : clearances'[n][k] = clearances[n][k]
    <3> HIDE DEF last
    <3> QED BY <2>1, <2>2, <2>3
  <2> QED BY <2>1, <2>5, <2>6
<1>5. \A g \in Handlers : /\ (pc'[g] \in Checking => g # h)
                         /\ (g # h => pc'[g] = pc[g] /\ req'[g] = req[g])
                         /\ (pc'[g] \in Solved => g # h)
  BY <1>1 DEF Done, TypeOK, Checking, Solved
<1>6. SessionInv'
  BY <1>1, <1>5 DEF OnceInv, SessionInv
<1>7. Grant(n, At(c)) /\ \A k \in DOMAIN clearances[n] : Apart(At(c), At(clearances[n][k]))
  BY <1>2, <1>3 DEF OnceInv, GrantInv, ApartInv
<1>8. ASSUME NEW m \in Nonces, NEW k \in DOMAIN clearances'[m]
      PROVE  /\ (m = n /\ k = last) \/ k \in DOMAIN clearances[m]
             /\ k \in DOMAIN clearances[m] => clearances'[m][k] = clearances[m][k]
  BY <1>4, <1>8
<1>9. GrantInv'
  <2>1. ASSUME NEW g \in Handlers, pc'[g] \in Solved
        PROVE  Grant(req'[g].nonce, req'[g].at)
    BY <1>5, <2>1 DEF OnceInv, GrantInv
  <2>2. ASSUME NEW m \in Nonces, NEW k \in DOMAIN clearances'[m]
        PROVE  Grant(m, At(clearances'[m][k]))
    BY <1>4, <1>7, <1>8, <2>2 DEF OnceInv, GrantInv
  <2> QED BY <1>1, <2>1, <2>2 DEF GrantInv, Grant, At
<1>10. ApartInv'
  <2>1. ASSUME NEW g \in Handlers, NEW k \in Handlers, g # k, pc'[g] \in Solved,
               pc'[k] \in Solved, req'[g].nonce = req'[k].nonce
        PROVE  Apart(req'[g].at, req'[k].at)
    BY <1>5, <2>1 DEF OnceInv, ApartInv
  <2>2. ASSUME NEW g \in Handlers, pc'[g] \in Solved,
               NEW k \in DOMAIN clearances'[req'[g].nonce]
        PROVE  Apart(req'[g].at, At(clearances'[req'[g].nonce][k]))
    <3>1. g # h /\ pc[g] \in Solved /\ req'[g] = req[g] /\ req[g].nonce \in Nonces
      BY <1>5, <2>2 DEF TypeOK, Solved
    <3>2. CASE req[g].nonce = n /\ k = last
      BY <1>2, <1>3, <1>4, <3>1, <3>2 DEF OnceInv, ApartInv
    <3>3. CASE k \in DOMAIN clearances[req[g].nonce]
      BY <1>4, <3>1, <3>3 DEF OnceInv, ApartInv
    <3> QED BY <1>8, <2>2, <3>1, <3>2, <3>3
  <2>3. ASSUME NEW m \in Nonces, NEW j \in DOMAIN clearances'[m],
               NEW k \in DOMAIN clearances'[m], j # k
        PROVE  Apart(At(clearances'[m][j]), At(clearances'[m][k]))
    <3>1. CASE j \in DOMAIN clearances[m] /\ k \in DOMAIN clearances[m]
      BY <1>8, <2>3, <3>1 DEF OnceInv, ApartInv
    <3>2. CASE m = n /\ j = last /\ k \in DOMAIN clearances[m]
      BY <1>4, <1>7, <3>2
    <3>3. CASE m = n /\ k = last /\ j \in DOMAIN clearances[m]
      BY <1>4, <1>7, <3>3 DEF Apart
    <3> QED BY <1>8, <2>3, <3>1, <3>2, <3>3
  <2> QED BY <2>1, <2>2, <2>3 DEF ApartInv, Apart, At
<1> QED BY <1>6, <1>9, <1>10 DEF OnceInv

LEMMA OnceServe ==
  ASSUME TypeOK, OnceInv, NEW h \in Handlers, Serve(h) PROVE OnceInv'
<1>1. CASE LimitIssue(h)
  BY <1>1, OnceMove DEF LimitIssue, Points, Checking, Solved
<1>2. CASE Put(h)
  BY <1>2, OnceMove DEF Put, Points, Checking, Solved
<1>3. CASE LimitVerify(h)
  BY <1>3, OnceMove DEF LimitVerify, Points, Checking, Solved
<1>4. CASE LookImage(h)
  BY <1>4, OnceMove DEF LookImage, Points, Checking, Solved, store
<1>5. CASE LookExternal(h)
  BY <1>5, OnceMove DEF LookExternal, Points, Checking, Solved, store
<1>6. CASE Drop(h)
  BY <1>6, OnceMove DEF Drop, Points, Checking, Solved
<1>7. CASE Burn(h)
  BY <1>7, OnceBurn
<1>8. CASE Count(h)
  BY <1>8, OnceMove DEF Count, Points, Checking, Solved
<1>9. CASE Ban(h)
  <2>1. UNCHANGED <<due, burned, clearances>>
    BY <1>9 DEF Ban
  <2>2. \A g \in Handlers : /\ req'[g].nonce = req[g].nonce
                           /\ req'[g].since = req[g].since
                           /\ req'[g].at = req[g].at
                           /\ (pc'[g] \in Checking => pc[g] \in Checking)
                           /\ (pc'[g] \in Solved => pc[g] \in Solved)
    BY <1>9 DEF Ban, TypeOK, Request, Checking, Solved
  <2> QED BY <2>1, <2>2, OnceKept
<1>10. CASE Seal(h)
  BY <1>10, OnceSeal
<1> QED BY <1>1, <1>2, <1>3, <1>4, <1>5, <1>6, <1>7, <1>8, <1>9, <1>10 DEF Serve

LEMMA OnceStep == TypeOK /\ OnceInv /\ [Next]_vars => OnceInv'
<1> SUFFICES ASSUME TypeOK, OnceInv, [Next]_vars PROVE OnceInv'
  OBVIOUS
<1>1. ASSUME NEW n \in Nonces, Issue(n) PROVE OnceInv'
  <2>1. /\ due[n] = 0 /\ UNCHANGED <<burned, pc, req, clearances>>
        /\ \A m \in Nonces : m # n => due'[m] = due[m]
        /\ due'[n] \in Nat /\ due[n] <= due'[n]
    BY <1>1, Bounds DEF Issue, store, TypeOK
  <2>2. \A h \in Handlers : pc[h] \in Checking => req[h].nonce \in Nonces /\ req[h].nonce # n
    BY <2>1 DEF OnceInv, SessionInv, TypeOK, Checking, Solved
  <2>3. SessionInv'
    BY <2>1, <2>2 DEF OnceInv, SessionInv
  <2>4. ASSUME NEW m \in Nonces, NEW a \in Int, Grant(m, a) PROVE a < due'[m] + Latency
    <3>1. due[m] \in Nat /\ due'[m] \in Nat /\ due[m] <= due'[m]
      <4>1. due[m] \in Nat
        BY DEF TypeOK
      <4>2. CASE m = n
        BY <2>1, <4>1, <4>2
      <4>3. CASE m # n
        BY <2>1, <4>1, <4>3
      <4> QED BY <4>2, <4>3
    <3>2. a < due[m] + Latency
      BY <2>4 DEF Grant
    <3> QED BY <3>1, <3>2, Bounds
  <2>5. GrantInv'
    <3>1. ASSUME NEW h \in Handlers, pc[h] \in Solved
          PROVE  Grant(req[h].nonce, req[h].at)'
      <4>1. req[h].nonce \in Nonces /\ req[h].at \in Int /\ Grant(req[h].nonce, req[h].at)
        BY <3>1, GrantTimes DEF TypeOK, Solved, OnceInv, GrantInv
      <4> QED BY <2>1, <2>4, <4>1 DEF Grant
    <3>2. ASSUME NEW m \in Nonces, NEW k \in DOMAIN clearances[m]
          PROVE  Grant(m, At(clearances[m][k]))'
      <4>1. At(clearances[m][k]) \in Int /\ Grant(m, At(clearances[m][k]))
        BY GrantTimes DEF OnceInv, GrantInv
      <4>2. At(clearances[m][k])' = At(clearances[m][k])
        BY <2>1 DEF At
      <4> QED BY <2>1, <2>4, <4>1, <4>2 DEF Grant
    <3> QED BY <2>1, <3>1, <3>2 DEF GrantInv
  <2>6. ApartInv'
    BY <2>1 DEF OnceInv, ApartInv, Apart, At
  <2> QED BY <2>3, <2>5, <2>6 DEF OnceInv
<1>2. ASSUME NEW h \in Handlers, NEW n \in Nonces, Visit(h, n) PROVE OnceInv'
  BY <1>2, OnceKept DEF Visit, store, TypeOK, Checking, Solved
<1>3. ASSUME NEW h \in Handlers, NEW n \in Nonces, NEW a \in Texts \cup Tokens,
             NEW f \in Prints, NEW api \in Apis, Answer(h, n, a, f, api)
      PROVE  OnceInv'
  <2>1. /\ UNCHANGED <<due, burned, clearances, now>>
        /\ pc'[h] = "limit" /\ req'[h].nonce = n /\ req'[h].since = now
        /\ due[n] # 0 /\ now < due[n]
    BY <1>3 DEF Answer, store, TypeOK, Blank, InSession
  <2>2. \A g \in Handlers : g # h => pc'[g] = pc[g] /\ req'[g] = req[g]
    BY <1>3 DEF Answer, TypeOK
  <2>3. SessionInv'
    BY <2>1, <2>2 DEF OnceInv, SessionInv
  <2>4. \A g \in Handlers : pc'[g] \in Solved =>
          pc[g] \in Solved /\ req'[g] = req[g]
    BY <2>1, <2>2 DEF Solved
  <2>5. GrantInv'
    BY <2>1, <2>4 DEF OnceInv, GrantInv, Grant, At
  <2>6. ApartInv'
    BY <2>1, <2>4 DEF OnceInv, ApartInv, Apart, At
  <2> QED BY <2>3, <2>5, <2>6 DEF OnceInv
<1>4. ASSUME NEW h \in Handlers, Serve(h) PROVE OnceInv'
  BY <1>4, OnceServe
<1>5. ASSUME NEW i \in Hosts, Trim(i) \/ Load(i) PROVE OnceInv'
  BY <1>5, OnceKept DEF Trim, Load, store
<1>6. ASSUME NEW i \in Hosts, Restart(i) PROVE OnceInv'
  BY <1>6, OnceKept DEF Restart, store, TypeOK, Checking, Solved
<1>7. CASE Tick
  BY <1>7, OnceKept DEF Tick, store
<1>8. CASE UNCHANGED vars
  BY <1>8, OnceKept DEF vars, store
<1> QED BY <1>1, <1>2, <1>3, <1>4, <1>5, <1>6, <1>7, <1>8 DEF Next

\* Two clearances of one ticket are a lifetime of the burn key apart, whatever
\* the handlers of any number of instances do at the same time and whichever of
\* their store calls fail (verify.go:397): so there is a second one only for a
\* request that was in service as the ticket expired, and only if the first was
\* granted within Latency of the issue.
THEOREM GrantsApart == Spec => []ClearancesApart
<1>1. TypeOK /\ OnceInv => ClearancesApart
  <2> SUFFICES ASSUME TypeOK, OnceInv, NEW n \in Nonces,
                      NEW j \in DOMAIN clearances[n], NEW k \in DOMAIN clearances[n],
                      j # k, At(clearances[n][j]) <= At(clearances[n][k])
               PROVE  /\ At(clearances[n][j]) + ChallengeTTL <= At(clearances[n][k])
                      /\ At(clearances[n][k]) < due[n] + Latency
    BY DEF ClearancesApart, At
  <2>1. At(clearances[n][j]) \in Int /\ At(clearances[n][k]) \in Int
    BY GrantTimes
  <2>2. /\ Grant(n, At(clearances[n][k]))
        /\ Apart(At(clearances[n][j]), At(clearances[n][k]))
    BY DEF OnceInv, GrantInv, ApartInv
  <2> QED BY <2>1, <2>2, Bounds DEF Grant, Apart
<1> QED BY <1>1, TypeInit, TypeStep, OnceInit, OnceStep, PTL DEF Spec
-----------------------------------------------------------------------------
(* A ticket stays usable.                                                  *)

Burning(h, n) == pc[h] = "burn" /\ req[h].nonce = n
Granting(h, n) == pc[h] \in Solved /\ req[h].nonce = n

\* The strengthening.  A burned nonce that no failure hit has its clearance, or
\* a handler on its way to one.  A ticket with a page has the text on it as long
\* as the session, or the one who took it is at Burn, or its nonce is burned.
BurnedFor ==
  \A n \in Nonces \ spoilt :
    burned[n] # 0 => clearances[n] # << >> \/ \E h \in Handlers : Granting(h, n)
Kept(n) == text[n].said = page[n] /\ text[n].until >= due[n]
TextStays ==
  \A n \in Nonces \ spoilt : page[n] # None =>
    Kept(n) \/ burned[n] # 0 \/ \E h \in Handlers : Burning(h, n)
IssuedInv ==
  /\ \A n \in Nonces : due[n] <= now + ChallengeTTL
  /\ \A n \in Nonces : page[n] # None => due[n] # 0
  /\ \A h \in Handlers : pc[h] # "idle" => due[req[h].nonce] # 0
UsableInv == BurnedFor /\ TextStays /\ IssuedInv

LEMMA UsableInit == Init => UsableInv
<1> SUFFICES ASSUME Init PROVE UsableInv
  OBVIOUS
<1>1. \A n \in Nonces : burned[n] = 0 /\ due[n] = 0
  BY DEF Init
<1>2. (\A n \in Nonces : page[n] = None) /\ now = 0 /\ \A h \in Handlers : pc[h] = "idle"
  BY DEF Init
<1> QED BY <1>1, <1>2, Bounds DEF UsableInv, BurnedFor, TextStays, IssuedInv

\* Handlers that win or hold a text go on; nobody starts on a ticket never issued.
Onward ==
  \A h \in Handlers :
    /\ pc[h] \in Solved => pc'[h] \in Solved /\ req'[h].nonce = req[h].nonce
    /\ pc[h] = "burn" => pc'[h] = "burn" /\ req'[h].nonce = req[h].nonce
    /\ pc'[h] # "idle" => due[req'[h].nonce] # 0

\* A step that leaves the ticket's keys, the clock and the history alone.
LEMMA UsableKept ==
  ASSUME TypeOK, UsableInv, UNCHANGED <<now, due, burned, clearances, text, history>>, Onward
  PROVE  UsableInv'
<1>1. \A n \in Nonces : \A h \in Handlers : /\ Granting(h, n) => Granting(h, n)'
                                            /\ Burning(h, n) => Burning(h, n)'
  BY DEF Onward, Granting, Burning
<1>2. page' = page /\ spoilt' = spoilt
  BY DEF history
<1>3. BurnedFor'
  BY <1>1, <1>2 DEF UsableInv, BurnedFor
<1>4. TextStays'
  BY <1>1, <1>2 DEF UsableInv, TextStays, Kept
<1>5. IssuedInv'
  BY <1>2 DEF UsableInv, IssuedInv, Onward
<1> QED BY <1>3, <1>4, <1>5 DEF UsableInv

\* GoTo, Done and Retreat of a handler that neither won nor is at Burn.
LEMMA Moves ==
  ASSUME TypeOK, UsableInv, UNCHANGED due, NEW h \in Handlers, NEW p \in Points,
         \/ GoTo(h, p) /\ (pc[h] \in Solved => p \in Solved)
         \/ (Done(h) \/ Retreat(h)) /\ pc[h] \notin Solved,
         pc[h] \notin {"idle", "burn"}
  PROVE  Onward
<1>1. \A g \in Handlers : pc[g] # "idle" => due[req[g].nonce] # 0
  BY DEF UsableInv, IssuedInv
<1>2. CASE GoTo(h, p) /\ (pc[h] \in Solved => p \in Solved)
  BY <1>1, <1>2 DEF GoTo, Onward, TypeOK
<1>3. CASE Done(h) /\ pc[h] \notin Solved
  BY <1>1, <1>3 DEF Done, Onward, TypeOK
<1>4. CASE Retreat(h) /\ pc[h] \notin Solved
  <2>1. CASE Done(h)
    BY <1>3, <1>4, <2>1
  <2>2. CASE GoTo(h, "issue")
    BY <1>1, <1>4, <2>2 DEF GoTo, Onward, TypeOK
  <2> QED BY <1>4, <2>1, <2>2 DEF Retreat
<1> QED BY <1>2, <1>3, <1>4

\* The page that goes out has the new text on it; a new text without its page
\* spoils the ticket.
LEMMA UsablePut ==
  ASSUME TypeOK, UsableInv, NEW h \in Handlers, Put(h) PROVE UsableInv'
<1>1. pc[h] = "put" /\ Done(h) /\ UNCHANGED <<now, due, burned, clearances>>
  BY DEF Put
<1>n. PICK n \in Nonces : n = req[h].nonce
  BY <1>1 DEF TypeOK
<1>2. now \in Nat /\ due[n] \in Nat /\ due[n] # 0 /\ due[n] <= now + ChallengeTTL
  BY <1>1, <1>n DEF TypeOK, UsableInv, IssuedInv
<1>3. Onward
  BY <1>1, Moves DEF Points, Solved
<1>4. /\ \A m \in Nonces : m # n => text'[m] = text[m] /\ page'[m] = page[m]
      /\ spoilt \subseteq spoilt'
      /\ \/ UNCHANGED <<text, page>>
         \/ n \in spoilt' /\ page' = page
         \/ text'[n].until = now + ChallengeTTL /\ text'[n].said = page'[n]
  <2>1. PICK outcome \in Outcomes, t \in Texts :
          /\ text' = IF Applied(outcome) THEN [text EXCEPT ![n] = NewText(n, t)] ELSE text
          /\ page' = IF outcome = "ok" THEN [page EXCEPT ![n] = t] ELSE page
          /\ spoilt' = IF Applied(outcome) /\ outcome # "ok" THEN spoilt \cup {n} ELSE spoilt
    BY <1>n DEF Put
  <2>2. NewText(n, t).until = now + ChallengeTTL /\ NewText(n, t).said = t
    BY DEF NewText, TextUntil
  <2>3. outcome = "ok" => Applied(outcome)
    BY DEF Applied
  <2> QED BY <2>1, <2>2, <2>3 DEF TypeOK
<1>5. \A m \in Nonces : \A g \in Handlers : /\ Granting(g, m) => Granting(g, m)'
                                            /\ Burning(g, m) => Burning(g, m)'
  BY <1>3 DEF Onward, Granting, Burning
<1>6. BurnedFor'
  BY <1>1, <1>4, <1>5 DEF UsableInv, BurnedFor
<1>7. TextStays'
  <2> SUFFICES ASSUME NEW m \in Nonces \ spoilt', page'[m] # None
               PROVE  Kept(m)' \/ burned[m] # 0 \/ \E g \in Handlers : Burning(g, m)'
    BY <1>1 DEF TextStays
  <2>1. CASE m = n /\ text'[n].until = now + ChallengeTTL /\ text'[n].said = page'[n]
    BY <1>1, <1>2, <2>1, Bounds DEF Kept
  <2>2. CASE text'[m] = text[m] /\ page'[m] = page[m]
    BY <1>1, <1>4, <1>5, <2>2 DEF UsableInv, TextStays, Kept
  <2> QED BY <1>4, <2>1, <2>2
<1>8. IssuedInv'
  <2>1. \A m \in Nonces : page'[m] # None => due[m] # 0
    BY <1>2, <1>4 DEF UsableInv, IssuedInv
  <2> QED BY <1>1, <1>3, <2>1 DEF UsableInv, IssuedInv, Onward
<1> QED BY <1>6, <1>7, <1>8 DEF UsableInv

\* Who takes the text away goes on to Burn.
LEMMA UsableDrop ==
  ASSUME TypeOK, UsableInv, NEW h \in Handlers, Drop(h) PROVE UsableInv'
<1>1. /\ pc[h] = "drop" /\ GoTo(h, "burn")
      /\ UNCHANGED <<now, due, burned, clearances, history>>
  BY DEF Drop
<1>2. PICK n \in Nonces : n = req[h].nonce
  BY <1>1 DEF TypeOK
<1>3. Onward
  BY <1>1, Moves DEF Points, Solved
<1>4. \A m \in Nonces : m # n => text'[m] = text[m]
  BY <1>2 DEF Drop, TypeOK
<1>5. \A m \in Nonces : \A g \in Handlers : /\ Granting(g, m) => Granting(g, m)'
                                            /\ Burning(g, m) => Burning(g, m)'
  BY <1>3 DEF Onward, Granting, Burning
<1>6. Burning(h, n)'
  BY <1>1, <1>2 DEF GoTo, Burning, TypeOK
<1>7. BurnedFor' /\ IssuedInv'
  BY <1>1, <1>3, <1>5 DEF UsableInv, BurnedFor, IssuedInv, Onward, history
<1>8. TextStays'
  <2> SUFFICES ASSUME NEW m \in Nonces \ spoilt, page[m] # None
               PROVE  Kept(m)' \/ burned[m] # 0 \/ \E g \in Handlers : Burning(g, m)'
    BY <1>1 DEF TextStays, history
  <2>1. page' = page /\ due' = due
    BY <1>1 DEF history
  <2>2. CASE m = n
    BY <1>6, <2>2
  <2>3. CASE m # n
    BY <1>4, <1>5, <2>1, <2>3 DEF UsableInv, TextStays, Kept
  <2> QED BY <2>2, <2>3
<1> QED BY <1>7, <1>8 DEF UsableInv

\* Burn: who is first goes on, who fails spoils the ticket, who comes late finds
\* the nonce burned.
LEMMA UsableBurn ==
  ASSUME TypeOK, UsableInv, NEW h \in Handlers, Burn(h) PROVE UsableInv'
<1>1. /\ pc[h] = "burn" /\ UNCHANGED <<now, due, text, clearances, page>>
  BY DEF Burn
<1>n. PICK n \in Nonces : n = req[h].nonce
  BY <1>1 DEF TypeOK
<1>2. n \in Nonces /\ now \in Nat /\ BurnedUntil(n) \in Nat \ {0}
  BY <1>1, Bounds DEF TypeOK, BurnedUntil
<1>3. \A m \in Nonces : /\ burned[m] # 0 => burned'[m] # 0
                        /\ m # n => burned'[m] = burned[m]
  BY <1>2, <1>n DEF Burn, TypeOK
<1>4. \A g \in Handlers : g # h => pc'[g] = pc[g] /\ req'[g] = req[g]
  BY DEF Burn, Retreat, GoTo, Done, TypeOK
<1>5. /\ spoilt \subseteq spoilt'
      /\ pc'[h] # "idle" => req'[h].nonce = n
      /\ \/ n \in spoilt'
         \/ burned'[n] # 0 /\ Granting(h, n)'
         \/ burned'[n] = burned[n] /\ burned[n] # 0
  <2>1. CASE First(n)
    <3>1. PICK outcome \in Outcomes :
            /\ burned' = IF Applied(outcome) THEN [burned EXCEPT ![n] = BurnedUntil(n)] ELSE burned
            /\ IF outcome = "ok" THEN /\ pc' = [pc EXCEPT ![h] = "count"]
                                      /\ req' = [req EXCEPT ![h] = Granted(h)]
                                 ELSE Retreat(h)
            /\ spoilt' = IF outcome # "ok" THEN spoilt \cup {n} ELSE spoilt
      BY <1>n, <2>1 DEF Burn
    <3>2. CASE outcome = "ok"
      BY <1>2, <1>n, <3>1, <3>2 DEF Applied, Granting, Solved, Granted, TypeOK, Request
    <3>3. CASE outcome # "ok"
      BY <1>n, <3>1, <3>3 DEF Retreat, GoTo, Done, TypeOK
    <3> QED BY <3>2, <3>3
  <2>2. CASE ~First(n)
    <3>1. Retreat(h) /\ spoilt' = spoilt /\ burned' = burned
      BY <1>n, <2>2 DEF Burn
    <3>2. burned[n] # 0
      BY <1>2, <2>2 DEF First, Alive, TypeOK
    <3> QED BY <1>n, <3>1, <3>2 DEF Retreat, GoTo, Done, TypeOK
  <2> QED BY <2>1, <2>2
<1>6. \A m \in Nonces : \A g \in Handlers : Granting(g, m) => Granting(g, m)' /\ g # h
  BY <1>1, <1>4 DEF Granting, Solved
<1>7. BurnedFor'
  <2> SUFFICES ASSUME NEW m \in Nonces \ spoilt', burned'[m] # 0
               PROVE  clearances[m] # << >> \/ \E g \in Handlers : Granting(g, m)'
    BY <1>1 DEF BurnedFor
  <2>1. CASE burned[m] # 0
    BY <1>5, <1>6, <2>1 DEF UsableInv, BurnedFor
  <2>2. CASE burned[m] = 0
    BY <1>3, <1>5, <2>2
  <2> QED BY <2>1, <2>2
<1>8. TextStays'
  <2> SUFFICES ASSUME NEW m \in Nonces \ spoilt', page[m] # None
               PROVE  Kept(m) \/ burned'[m] # 0 \/ \E g \in Handlers : Burning(g, m)'
    BY <1>1 DEF TextStays, Kept
  <2>1. CASE m = n
    BY <1>5, <2>1
  <2>2. CASE m # n
    <3>1. \A g \in Handlers : Burning(g, m) => Burning(g, m)'
      BY <1>4, <1>n, <2>2 DEF Burning
    <3> QED BY <1>2, <1>3, <1>5, <2>2, <3>1 DEF UsableInv, TextStays
  <2> QED BY <2>1, <2>2
<1>9. IssuedInv'
  <2>1. due[n] # 0
    BY <1>1, <1>n DEF UsableInv, IssuedInv
  <2> QED BY <1>1, <1>4, <1>5, <2>1 DEF UsableInv, IssuedInv
<1> QED BY <1>7, <1>8, <1>9 DEF UsableInv

LEMMA UsableSeal ==
  ASSUME TypeOK, UsableInv, NEW h \in Handlers, Seal(h) PROVE UsableInv'
<1> DEFINE n == req[h].nonce
<1>1. pc[h] = "seal" /\ Done(h) /\ UNCHANGED <<now, due, burned, text, history>>
  BY DEF Seal, store
<1>2. n \in Nonces
  BY <1>1 DEF TypeOK
<1>3. PICK c \in Clearance : clearances' = [clearances EXCEPT ![n] = Append(@, c)]
  <2>1. PICK outcome \in Outcomes :
          clearances' = [clearances EXCEPT ![n] = Append(@,
            [fp |-> req[h].fp, expiry |-> req[h].at + ClearanceTTL,
             ban |-> req[h].ban, listed |-> Applied(outcome)])]
    BY DEF Seal
  <2>2. [fp |-> req[h].fp, expiry |-> req[h].at + ClearanceTTL,
         ban |-> req[h].ban, listed |-> Applied(outcome)] \in Clearance
    BY Bounds DEF Clearance, TypeOK, Request, Applied
  <2> QED BY <2>1, <2>2
<1>4. /\ clearances'[n] # << >>
      /\ \A m \in Nonces : m # n => clearances'[m] = clearances[m]
  <2>1. clearances[n] \in Seq(Clearance)
    BY <1>2 DEF TypeOK
  <2>2. Append(clearances[n], c) # << >>
    BY <2>1, AppendProperties
  <2> QED BY <1>2, <1>3, <2>2 DEF TypeOK
<1>5. \A g \in Handlers : IF g = h THEN pc'[g] = "idle" ELSE pc'[g] = pc[g] /\ req'[g] = req[g]
  BY <1>1 DEF Done, TypeOK
<1>6. \A m \in Nonces : \A g \in Handlers : m # n /\ Granting(g, m) => Granting(g, m)'
  BY <1>5 DEF Granting
<1>7. \A m \in Nonces : \A g \in Handlers : Burning(g, m) => Burning(g, m)'
  BY <1>1, <1>5 DEF Burning
<1>8. BurnedFor'
  BY <1>1, <1>4, <1>6 DEF UsableInv, BurnedFor, history
<1>9. TextStays'
  BY <1>1, <1>7 DEF UsableInv, TextStays, Kept, history
<1>10. IssuedInv'
  BY <1>1, <1>5 DEF UsableInv, IssuedInv, history
<1> QED BY <1>8, <1>9, <1>10 DEF UsableInv

LEMMA UsableServe ==
  ASSUME TypeOK, UsableInv, NEW h \in Handlers, Serve(h) PROVE UsableInv'
<1>1. CASE LimitIssue(h)
  BY <1>1, Moves, UsableKept DEF LimitIssue, Points, Solved
<1>2. CASE Put(h)
  BY <1>2, UsablePut
<1>3. CASE LimitVerify(h)
  BY <1>3, Moves, UsableKept DEF LimitVerify, Points, Solved
<1>4. CASE LookImage(h)
  BY <1>4, Moves, UsableKept DEF LookImage, Points, Solved, store
<1>5. CASE LookExternal(h)
  BY <1>5, Moves, UsableKept DEF LookExternal, Points, Solved, store
<1>6. CASE Drop(h)
  BY <1>6, UsableDrop
<1>7. CASE Burn(h)
  BY <1>7, UsableBurn
<1>8. CASE Count(h)
  BY <1>8, Moves, UsableKept DEF Count, Points, Solved
<1>9. CASE Ban(h)
  <2>1. UNCHANGED <<now, due, burned, clearances, text, history>>
    BY <1>9 DEF Ban
  <2>2. \A g \in Handlers : /\ req'[g].nonce = req[g].nonce
                           /\ pc'[g] = IF g = h THEN "seal" ELSE pc[g]
    BY <1>9 DEF Ban, TypeOK, Request
  <2>3. Onward
    BY <1>9, <2>2 DEF Onward, UsableInv, IssuedInv, Ban, Solved
  <2> QED BY <2>1, <2>3, UsableKept
<1>10. CASE Seal(h)
  BY <1>10, UsableSeal
<1> QED BY <1>1, <1>2, <1>3, <1>4, <1>5, <1>6, <1>7, <1>8, <1>9, <1>10 DEF Serve

LEMMA UsableStep == TypeOK /\ UsableInv /\ [Next]_vars => UsableInv'
<1> SUFFICES ASSUME TypeOK, UsableInv, [Next]_vars PROVE UsableInv'
  OBVIOUS
<1>1. ASSUME NEW n \in Nonces, Issue(n) PROVE UsableInv'
  <2>1. /\ due[n] = 0 /\ UNCHANGED <<now, burned, text, pc, req, clearances, history>>
        /\ due'[n] = now + ChallengeTTL /\ now \in Nat
        /\ \A m \in Nonces : m # n => due'[m] = due[m]
    BY <1>1 DEF Issue, store, history, TypeOK
  <2>2. page[n] = None /\ \A h \in Handlers : pc[h] # "idle" => req[h].nonce # n /\ req[h].nonce \in Nonces
    BY <2>1 DEF UsableInv, IssuedInv, TypeOK
  <2>3. BurnedFor'
    BY <2>1 DEF UsableInv, BurnedFor, Granting, history
  <2>4. TextStays'
    BY <2>1, <2>2 DEF UsableInv, TextStays, Kept, Burning, history
  <2>5. IssuedInv'
    <3>1. \A m \in Nonces : due'[m] <= now + ChallengeTTL /\ (due[m] # 0 => due'[m] # 0)
      BY <2>1, Bounds DEF UsableInv, IssuedInv
    <3>2. \A m \in Nonces : page[m] # None => due'[m] # 0
      BY <2>1, <2>2, <3>1 DEF UsableInv, IssuedInv
    <3>3. \A h \in Handlers : pc[h] # "idle" => due'[req[h].nonce] # 0
      BY <2>1, <2>2, <3>1 DEF UsableInv, IssuedInv
    <3> QED BY <2>1, <3>1, <3>2, <3>3 DEF IssuedInv, history
  <2> QED BY <2>3, <2>4, <2>5 DEF UsableInv
<1>2. ASSUME NEW h \in Handlers, NEW n \in Nonces,
             \/ Visit(h, n)
             \/ \E a \in Texts \cup Tokens, f \in Prints, api \in Apis : Answer(h, n, a, f, api)
      PROVE  UsableInv'
  <2>1. /\ UNCHANGED <<now, due, burned, clearances, text, history>>
        /\ pc[h] = "idle" /\ due[n] # 0 /\ req'[h].nonce = n
        /\ \A g \in Handlers : g # h => pc'[g] = pc[g] /\ req'[g] = req[g]
    <3>1. pc \in [Handlers -> Points] /\ req \in [Handlers -> Request]
      BY DEF TypeOK
    <3>2. CASE Visit(h, n)
      BY <3>1, <3>2 DEF Visit, store, InSession, Blank
    <3>3. ASSUME NEW a \in Texts \cup Tokens, NEW f \in Prints, NEW api \in Apis,
                 Answer(h, n, a, f, api)
          PROVE  /\ UNCHANGED <<now, due, burned, clearances, text, history>>
                 /\ pc[h] = "idle" /\ due[n] # 0 /\ req'[h].nonce = n
                 /\ \A g \in Handlers : g # h => pc'[g] = pc[g] /\ req'[g] = req[g]
      BY <3>1, <3>3 DEF Answer, store, InSession, Blank
    <3> QED BY <1>2, <3>2, <3>3
  <2>2. Onward
    BY <2>1 DEF Onward, UsableInv, IssuedInv, Solved
  <2> QED BY <2>1, <2>2, UsableKept
<1>4. ASSUME NEW h \in Handlers, Serve(h) PROVE UsableInv'
  BY <1>4, UsableServe
<1>5. ASSUME NEW i \in Hosts, Trim(i) \/ Load(i) PROVE UsableInv'
  <2>1. UNCHANGED <<now, due, burned, clearances, text, history, pc, req>>
    BY <1>5 DEF Trim, Load, store
  <2> QED BY <2>1, UsableKept DEF Onward, UsableInv, IssuedInv
<1>6. ASSUME NEW i \in Hosts, Restart(i) PROVE UsableInv'
  <2>1. UNCHANGED <<now, due, burned, clearances, text, page>>
    BY <1>6 DEF Restart, store
  <2>2. \A h \in Handlers : HostOf[h] # i => pc'[h] = pc[h] /\ req'[h] = req[h]
    BY <1>6 DEF Restart
  <2>3. \A h \in Handlers : HostOf[h] = i => pc'[h] = "idle"
    BY <1>6 DEF Restart
  <2>4. spoilt \subseteq spoilt' /\
        \A h \in Handlers : HostOf[h] = i /\ pc[h] \in Solved \cup {"burn"} => req[h].nonce \in spoilt'
    BY <1>6 DEF Restart
  <2>5. \A n \in Nonces \ spoilt' : \A h \in Handlers :
          /\ Granting(h, n) => Granting(h, n)'
          /\ Burning(h, n) => Burning(h, n)'
    BY <2>2, <2>4 DEF Granting, Burning
  <2>6. BurnedFor'
    BY <2>1, <2>4, <2>5 DEF UsableInv, BurnedFor
  <2>7. TextStays'
    BY <2>1, <2>4, <2>5 DEF UsableInv, TextStays, Kept
  <2>8. IssuedInv'
    BY <2>1, <2>2, <2>3 DEF UsableInv, IssuedInv
  <2> QED BY <2>6, <2>7, <2>8 DEF UsableInv
<1>7. CASE Tick
  <2>1. /\ now' = now + 1 /\ now \in Nat
        /\ UNCHANGED <<due, burned, clearances, text, history, pc, req>>
    BY <1>7 DEF Tick, store, TypeOK
  <2>2. BurnedFor' /\ TextStays'
    BY <2>1 DEF UsableInv, BurnedFor, TextStays, Kept, Granting, Burning, history
  <2>3. IssuedInv'
    BY <2>1, Bounds DEF UsableInv, IssuedInv, history, TypeOK
  <2> QED BY <2>2, <2>3 DEF UsableInv
<1>8. CASE UNCHANGED vars
  <2>1. UNCHANGED <<now, due, burned, clearances, text, history, pc, req>>
    BY <1>8 DEF vars, store
  <2> QED BY <2>1, UsableKept DEF Onward, UsableInv, IssuedInv
<1> QED BY <1>1, <1>2, <1>4, <1>5, <1>6, <1>7, <1>8 DEF Next

\* The text on the last page of a ticket that met no failure is the one in the
\* store until the session ends, or a clearance is given out or on its way,
\* whatever other requests with the same ticket do (image.go:35, 79,
\* verify.go:397-409).
THEOREM UsableUntilExpiry == Spec => []TicketStaysUsable
<1>1. TypeOK /\ UsableInv => TicketStaysUsable
  <2> SUFFICES ASSUME TypeOK, UsableInv, NEW n \in Nonces \ spoilt, page[n] # None,
                      InSession(n), clearances[n] = << >>,
                      ~ \E h \in Handlers : req[h].nonce = n /\ pc[h] \in Solved \cup {"burn"}
               PROVE  Matches(n, page[n]) /\ burned[n] = 0
    BY DEF TicketStaysUsable
  <2>1. \A h \in Handlers : ~Granting(h, n) /\ ~Burning(h, n)
    BY DEF Granting, Burning
  <2>2. burned[n] = 0
    BY <2>1 DEF UsableInv, BurnedFor
  <2>3. text[n].said = page[n] /\ text[n].until >= due[n] /\ now < due[n]
    BY <2>1, <2>2 DEF UsableInv, TextStays, Kept, InSession
  <2>4. text[n].until \in Nat /\ due[n] \in Nat /\ now \in Nat
    BY DEF TypeOK
  <2> QED BY <2>2, <2>3, <2>4 DEF Alive, Matches
<1> QED BY <1>1, TypeInit, TypeStep, UsableInit, UsableStep, PTL DEF Spec
-----------------------------------------------------------------------------
(* A ban outlives the clearance.                                           *)

\* What ends then is banned as long, but for the time of one request.
Outlived(expiry, f) == expiry <= now + Latency \/ expiry <= rev[f] + Latency

\* The strengthening: it holds from Ban on, while the clearance is only on its
\* way, since who overwrites the score read the clock at most Latency ago.
PendingBan ==
  \A h \in Handlers :
    /\ pc[h] = "ban" => req[h].fp \in Fps
    /\ req[h].ban => /\ pc[h] = "seal" /\ req[h].fp \in Fps
                     /\ Outlived(req[h].at + ClearanceTTL, req[h].fp)
GrantedBan ==
  \A n \in Nonces : \A k \in DOMAIN clearances[n] :
    LET c == clearances[n][k] IN
    /\ c.expiry <= now + ClearanceTTL
    /\ c.ban => c.fp \in Fps /\ Outlived(c.expiry, c.fp)
BanInv == PendingBan /\ GrantedBan

LEMMA BanInit == Init => BanInv
<1> SUFFICES ASSUME Init PROVE BanInv
  OBVIOUS
<1>1. \A h \in Handlers : pc[h] = "idle" /\ ~req[h].ban
  BY DEF Init, Blank
<1>2. \A n \in Nonces : DOMAIN clearances[n] = {}
  BY DEF Init
<1> QED BY <1>1, <1>2 DEF BanInv, PendingBan, GrantedBan

LEMMA ClearanceTypes ==
  ASSUME TypeOK, NEW n \in Nonces, NEW k \in DOMAIN clearances[n]
  PROVE  clearances[n][k] \in Clearance /\ clearances[n][k].expiry \in Nat
<1>1. clearances[n] \in Seq(Clearance) /\ k \in 1..Len(clearances[n])
  BY LenProperties DEF TypeOK
<1>2. clearances[n][k] \in Clearance
  BY <1>1, ElementOfSeq
<1> QED BY <1>2 DEF Clearance

\* Bans and clock as they are, and each handler goes on with its ban or drops it.
LEMMA BanKept ==
  ASSUME BanInv, UNCHANGED <<now, rev, clearances>>,
         \A h \in Handlers :
           /\ pc'[h] = "ban" => req'[h].fp \in Fps
           /\ req'[h].ban => req'[h] = req[h] /\ pc'[h] = pc[h]
  PROVE  BanInv'
<1>1. PendingBan'
  BY DEF BanInv, PendingBan, Outlived
<1>2. GrantedBan'
  BY DEF BanInv, GrantedBan, Outlived
<1> QED BY <1>1, <1>2 DEF BanInv

\* Handlers without a ban that go elsewhere.
LEMMA BanMoves ==
  ASSUME TypeOK, BanInv, UNCHANGED <<now, rev, clearances>>,
         NEW h \in Handlers, NEW p \in Points \ {"ban"}, pc[h] \notin {"ban", "seal"},
         GoTo(h, p) \/ Done(h) \/ Retreat(h)
  PROVE  BanInv'
<1>1. ~req[h].ban
  BY DEF BanInv, PendingBan
<1>2. GoTo(h, p) \/ GoTo(h, "issue") \/ Done(h)
  BY DEF Retreat
<1>3. \A g \in Handlers : g # h => pc'[g] = pc[g] /\ req'[g] = req[g]
  BY <1>2 DEF GoTo, Done, TypeOK
<1>4. pc'[h] # "ban" /\ ~req'[h].ban
  BY <1>1, <1>2 DEF GoTo, Done, Blank, TypeOK
<1> QED BY <1>3, <1>4, BanKept DEF BanInv, PendingBan

\* Count goes to Ban with a fingerprint only.
LEMMA BanCount ==
  ASSUME TypeOK, BanInv, NEW h \in Handlers, Count(h) PROVE BanInv'
<1>1. /\ pc[h] = "count" /\ UNCHANGED <<now, rev, clearances, req>>
      /\ \A g \in Handlers : g # h => pc'[g] = pc[g]
  BY DEF Count, GoTo, TypeOK
<1>2. ~req[h].ban
  BY <1>1 DEF BanInv, PendingBan
<1>3. pc'[h] = "ban" => req[h].fp \in Fps
  <2>1. CASE req[h].fp = None \/ FarmAt = 0
    BY <2>1 DEF Count, GoTo, TypeOK
  <2>2. CASE req[h].fp # None
    BY <2>2 DEF TypeOK, Request
  <2> QED BY <2>1, <2>2
<1> QED BY <1>1, <1>2, <1>3, BanKept DEF BanInv, PendingBan

\* Ban: the last score wins, and is at most Latency behind any other one.
LEMMA BanBan ==
  ASSUME TypeOK, BanInv, NEW h \in Handlers, Ban(h) PROVE BanInv'
<1>1. PICK f \in Fps : f = req[h].fp
  BY DEF Ban, BanInv, PendingBan
<1>2. /\ pc[h] = "ban" /\ UNCHANGED <<now, clearances>>
      /\ pc' = [pc EXCEPT ![h] = "seal"]
  BY DEF Ban
<1>3. /\ now \in Nat /\ req[h].at \in Nat /\ req[h].since \in Nat
      /\ now <= req[h].at + Latency /\ req[h].at <= now
  <2>1. now \in Nat /\ req[h] \in Request /\ pc[h] \in Solved /\ pc[h] # "idle"
    BY <1>2 DEF TypeOK, Solved
  <2>2. now \in req[h].since .. req[h].since + Latency /\ req[h].at \in req[h].since .. now
    BY <2>1 DEF TypeOK
  <2>3. req[h].at \in Nat /\ req[h].since \in Nat
    BY <2>1 DEF Request
  <2> QED BY <2>1, <2>2, <2>3, Bounds
<1>4. PICK applied \in BOOLEAN :
        /\ rev' = IF applied THEN [rev EXCEPT ![f] = req[h].at + ClearanceTTL] ELSE rev
        /\ req' = [req EXCEPT ![h].ban = applied]
  BY <1>1 DEF Ban, Applied, BannedUntil
<1>5. \A g \in Handlers : /\ req'[g].at = req[g].at /\ req'[g].fp = req[g].fp
                          /\ req[g].at \in Nat
                          /\ g # h => pc'[g] = pc[g] /\ req'[g] = req[g]
                          /\ pc[g] = "seal" => req[g].at <= now
  <2>1. \A g \in Handlers : req[g] \in Request
    BY DEF TypeOK
  <2>2. \A g \in Handlers : pc[g] = "seal" => req[g].at \in req[g].since .. now
    BY DEF TypeOK, Solved
  <2> QED BY <1>2, <1>3, <1>4, <2>1, <2>2 DEF TypeOK, Request
\* Whatever ended no later than ClearanceTTL from now stays outlived.
<1>6. ASSUME NEW e \in Nat, NEW x \in Fps, e <= now + ClearanceTTL, Outlived(e, x)
      PROVE  Outlived(e, x)'
  <2>1. CASE rev'[x] = rev[x]
    BY <1>2, <1>6, <2>1 DEF Outlived
  <2>2. CASE rev'[x] # rev[x]
    <3>1. rev'[x] = req[h].at + ClearanceTTL
      BY <1>4, <2>2 DEF TypeOK
    <3>2. e <= rev'[x] + Latency
      BY <1>3, <1>6, <3>1, Bounds
    <3> QED BY <3>2 DEF Outlived
  <2> QED BY <2>1, <2>2
<1>7. PendingBan'
  <2>1. \A g \in Handlers : pc'[g] = "ban" => req'[g].fp \in Fps
    BY <1>2, <1>5 DEF BanInv, PendingBan, TypeOK
  <2>2. ASSUME NEW g \in Handlers, req'[g].ban
        PROVE  /\ pc'[g] = "seal" /\ req'[g].fp \in Fps
               /\ Outlived(req[g].at + ClearanceTTL, req[g].fp)'
    <3>1. CASE g = h
      <4>1. applied /\ rev'[f] = req[h].at + ClearanceTTL
        BY <1>2, <1>4, <2>2, <3>1 DEF TypeOK, BanInv, PendingBan
      <4>2. req'[h].at + ClearanceTTL <= rev'[f] + Latency
        BY <1>3, <1>5, <4>1, Bounds
      <4>3. pc'[g] = "seal" /\ req'[g].fp = f
        BY <1>1, <1>2, <1>5, <3>1 DEF TypeOK
      <4> QED BY <1>1, <1>5, <3>1, <4>2, <4>3 DEF Outlived
    <3>2. CASE g # h
      <4>1. /\ pc[g] = "seal" /\ pc'[g] = "seal" /\ req'[g] = req[g] /\ req[g].fp \in Fps
            /\ Outlived(req[g].at + ClearanceTTL, req[g].fp)
        BY <1>5, <2>2, <3>2 DEF BanInv, PendingBan
      <4>2. PICK e \in Nat : e = req[g].at + ClearanceTTL
        BY <1>5, Bounds
      <4>3. PICK x \in Fps : x = req[g].fp
        BY <4>1
      <4>4. e <= now + ClearanceTTL
        BY <1>3, <1>5, <4>1, <4>2, Bounds
      <4>5. Outlived(e, x)'
        BY <1>6, <4>1, <4>2, <4>3, <4>4
      <4> QED BY <4>1, <4>2, <4>3, <4>5 DEF Outlived
    <3> QED BY <3>1, <3>2
  <2> QED BY <2>1, <2>2 DEF PendingBan, Outlived
<1>8. GrantedBan'
  <2> SUFFICES ASSUME NEW n \in Nonces, NEW k \in DOMAIN clearances[n]
               PROVE  /\ clearances[n][k].expiry <= now + ClearanceTTL
                      /\ clearances[n][k].ban =>
                           /\ clearances[n][k].fp \in Fps
                           /\ Outlived(clearances[n][k].expiry, clearances[n][k].fp)'
    BY <1>2 DEF GrantedBan, Outlived
  <2>1. PICK c \in Clearance : c = clearances[n][k] /\ c.expiry \in Nat
    BY ClearanceTypes
  <2>2. c.expiry <= now + ClearanceTTL
    BY <2>1 DEF BanInv, GrantedBan
  <2>3. ASSUME c.ban PROVE c.fp \in Fps /\ Outlived(c.expiry, c.fp)'
    <3>1. c.fp \in Fps /\ Outlived(c.expiry, c.fp)
      BY <2>1, <2>3 DEF BanInv, GrantedBan
    <3> QED BY <1>6, <2>1, <2>2, <3>1
  <2> QED BY <1>2, <2>1, <2>2, <2>3 DEF Outlived
<1> QED BY <1>7, <1>8 DEF BanInv

\* Seal: the clearance that goes out is younger than ClearanceTTL, and what Ban
\* left for it holds.
LEMMA BanSeal ==
  ASSUME TypeOK, BanInv, NEW h \in Handlers, Seal(h) PROVE BanInv'
<1>1. pc[h] = "seal" /\ Done(h) /\ UNCHANGED <<now, rev>>
  BY DEF Seal, store
<1>2. PICK n \in Nonces : n = req[h].nonce
  BY <1>1 DEF TypeOK
<1>3. PICK c : /\ c.fp = req[h].fp /\ c.expiry = req[h].at + ClearanceTTL /\ c.ban = req[h].ban
               /\ clearances' = [clearances EXCEPT ![n] = Append(@, c)]
  BY <1>2 DEF Seal
<1>4. /\ c.expiry <= now + ClearanceTTL
      /\ c.ban => c.fp \in Fps /\ Outlived(c.expiry, c.fp)
  <2>1. now \in Nat /\ req[h] \in Request /\ req[h].at \in req[h].since .. now
    BY <1>1 DEF TypeOK, Solved
  <2>2. req[h].at \in Nat /\ req[h].since \in Nat
    BY <2>1 DEF Request
  <2>3. c.expiry <= now + ClearanceTTL
    BY <1>3, <2>1, <2>2, Bounds
  <2> QED BY <1>3, <2>3 DEF BanInv, PendingBan
<1>5. \A g \in Handlers : \/ pc'[g] = "idle" /\ ~req'[g].ban
                          \/ pc'[g] = pc[g] /\ req'[g] = req[g]
  BY <1>1 DEF Done, Blank, TypeOK
<1>6. PendingBan'
  BY <1>1, <1>5 DEF BanInv, PendingBan, Outlived
<1>7. GrantedBan'
  <2> SUFFICES ASSUME NEW m \in Nonces, NEW k \in DOMAIN clearances'[m]
               PROVE  /\ clearances'[m][k].expiry <= now + ClearanceTTL
                      /\ clearances'[m][k].ban =>
                           /\ clearances'[m][k].fp \in Fps
                           /\ Outlived(clearances'[m][k].expiry, clearances'[m][k].fp)
    BY <1>1 DEF GrantedBan, Outlived
  <2>1. CASE m # n
    <3>1. clearances'[m] = clearances[m]
      BY <1>3, <2>1 DEF TypeOK
    <3> QED BY <3>1 DEF BanInv, GrantedBan
  <2>2. CASE m = n
    <3>1. PICK s \in Seq(Clearance) : s = clearances[n]
      BY DEF TypeOK
    <3>2. clearances'[n] = Append(s, c)
      BY <1>3, <3>1 DEF TypeOK
    <3>3. k = Len(s) + 1 \/ k \in DOMAIN s
      BY <2>2, <3>1, <3>2, LenProperties
    <3>4. CASE k = Len(s) + 1
      BY <1>4, <2>2, <3>1, <3>2, <3>4
    <3>5. CASE k \in DOMAIN s
      <4>1. k \in 1..Len(s)
        BY <3>1, <3>5, LenProperties
      <4>2. clearances'[m][k] = clearances[n][k]
        BY <2>2, <3>1, <3>2, <4>1
      <4> QED BY <3>1, <3>5, <4>2 DEF BanInv, GrantedBan
    <3> QED BY <3>3, <3>4, <3>5
  <2> QED BY <2>1, <2>2
<1> QED BY <1>6, <1>7 DEF BanInv

LEMMA BanServe ==
  ASSUME TypeOK, BanInv, NEW h \in Handlers, Serve(h) PROVE BanInv'
<1>1. CASE LimitIssue(h)
  BY <1>1, BanMoves DEF LimitIssue, Points
<1>2. CASE Put(h)
  BY <1>2, BanMoves DEF Put, Points
<1>3. CASE LimitVerify(h)
  BY <1>3, BanMoves DEF LimitVerify, Points
<1>4. CASE LookImage(h)
  BY <1>4, BanMoves DEF LookImage, Points, store
<1>5. CASE LookExternal(h)
  BY <1>5, BanMoves DEF LookExternal, Points, store
<1>6. CASE Drop(h)
  BY <1>6, BanMoves DEF Drop, Points
<1>7. CASE Burn(h)
  <2>1. /\ UNCHANGED <<now, rev, clearances>> /\ pc[h] = "burn"
        /\ Retreat(h) \/ (/\ pc' = [pc EXCEPT ![h] = "count"]
                         /\ req' = [req EXCEPT ![h] = Granted(h)])
    BY <1>7 DEF Burn
  <2>2. CASE Retreat(h)
    BY <2>1, <2>2, BanMoves DEF Points
  <2>3. CASE pc' = [pc EXCEPT ![h] = "count"] /\ req' = [req EXCEPT ![h] = Granted(h)]
    <3>1. \A g \in Handlers : g # h => pc'[g] = pc[g] /\ req'[g] = req[g]
      BY <2>3 DEF TypeOK
    <3>2. pc'[h] = "count" /\ req'[h].ban = req[h].ban
      BY <2>3 DEF TypeOK, Granted, Request
    <3> QED BY <2>1, <3>1, <3>2, BanKept DEF BanInv, PendingBan
  <2> QED BY <2>1, <2>2, <2>3
<1>8. CASE Count(h)
  BY <1>8, BanCount
<1>9. CASE Ban(h)
  BY <1>9, BanBan
<1>10. CASE Seal(h)
  BY <1>10, BanSeal
<1> QED BY <1>1, <1>2, <1>3, <1>4, <1>5, <1>6, <1>7, <1>8, <1>9, <1>10 DEF Serve

\* A step of the clock, or of a Refresh, that takes no ban away before its end.
LEMMA BanAges ==
  ASSUME TypeOK, BanInv, now' \in Nat, now <= now', UNCHANGED <<pc, req, clearances>>,
         \A f \in Fps : rev'[f] = rev[f] \/ rev[f] <= now
  PROVE  BanInv'
<1>1. now \in Nat /\ \A f \in Fps : rev[f] \in Nat
  BY DEF TypeOK
<1>2. ASSUME NEW e \in Nat, NEW x \in Fps, Outlived(e, x) PROVE Outlived(e, x)'
  <2>1. PICK t \in Nat : t = now'
    OBVIOUS
  <2>2. PICK r : r = rev'[x]
    OBVIOUS
  <2>3. now <= t /\ (r = rev[x] \/ rev[x] <= now)
    BY <2>1, <2>2
  <2>4. e <= now + Latency \/ e <= rev[x] + Latency
    BY <1>2 DEF Outlived
  <2>5. e <= t + Latency \/ e <= r + Latency
    BY <1>1, <2>3, <2>4, Bounds
  <2> QED BY <2>1, <2>2, <2>5 DEF Outlived
<1>3. PendingBan'
  <2>1. ASSUME NEW g \in Handlers, req[g].ban
        PROVE  Outlived(req[g].at + ClearanceTTL, req[g].fp)'
    <3>1. req[g].fp \in Fps /\ Outlived(req[g].at + ClearanceTTL, req[g].fp)
      BY <2>1 DEF BanInv, PendingBan
    <3>2. req[g].at + ClearanceTTL \in Nat
      BY Bounds DEF TypeOK, Request
    <3>3. PICK e \in Nat, x \in Fps : e = req[g].at + ClearanceTTL /\ x = req[g].fp
      BY <3>1, <3>2
    <3>4. Outlived(e, x)'
      BY <1>2, <3>1, <3>3
    <3> QED BY <3>3, <3>4 DEF Outlived
  <2> QED BY <2>1 DEF BanInv, PendingBan, Outlived
<1>4. GrantedBan'
  <2> SUFFICES ASSUME NEW n \in Nonces, NEW k \in DOMAIN clearances[n]
               PROVE  /\ clearances[n][k].expiry <= now' + ClearanceTTL
                      /\ clearances[n][k].ban =>
                           /\ clearances[n][k].fp \in Fps
                           /\ Outlived(clearances[n][k].expiry, clearances[n][k].fp)'
    BY DEF GrantedBan, Outlived
  <2>1. PICK c \in Clearance : c = clearances[n][k] /\ c.expiry \in Nat
    BY ClearanceTypes
  <2>2. c.expiry <= now + ClearanceTTL
    BY <2>1 DEF BanInv, GrantedBan
  <2>3. c.expiry <= now' + ClearanceTTL
    BY <1>1, <2>1, <2>2, Bounds
  <2>4. ASSUME c.ban PROVE c.fp \in Fps /\ Outlived(c.expiry, c.fp)'
    <3>1. c.fp \in Fps /\ Outlived(c.expiry, c.fp)
      BY <2>1, <2>4 DEF BanInv, GrantedBan
    <3> QED BY <1>2, <2>1, <3>1
  <2> QED BY <2>1, <2>3, <2>4 DEF Outlived
<1> QED BY <1>3, <1>4 DEF BanInv

LEMMA BanStep == TypeOK /\ BanInv /\ [Next]_vars => BanInv'
<1> SUFFICES ASSUME TypeOK, BanInv, [Next]_vars PROVE BanInv'
  OBVIOUS
<1>1. ASSUME NEW n \in Nonces, Issue(n) PROVE BanInv'
  BY <1>1, BanKept DEF Issue, store, BanInv, PendingBan
<1>2. ASSUME NEW h \in Handlers, NEW n \in Nonces,
             \/ Visit(h, n)
             \/ \E a \in Texts \cup Tokens, f \in Prints, api \in Apis : Answer(h, n, a, f, api)
      PROVE  BanInv'
  <2>1. UNCHANGED <<now, rev, clearances>>
    BY <1>2 DEF Visit, Answer, store
  <2>2. \A g \in Handlers : g # h => pc'[g] = pc[g] /\ req'[g] = req[g]
    BY <1>2 DEF Visit, Answer, TypeOK
  <2>3. pc'[h] # "ban" /\ ~req'[h].ban
    <3>1. CASE Visit(h, n)
      BY <3>1 DEF Visit, TypeOK, Blank
    <3>2. CASE \E a \in Texts \cup Tokens, f \in Prints, api \in Apis : Answer(h, n, a, f, api)
      <4>1. PICK a \in Texts \cup Tokens, f \in Prints, api \in Apis : Answer(h, n, a, f, api)
        BY <3>2
      <4> QED BY <4>1 DEF Answer, TypeOK, Blank
    <3> QED BY <1>2, <3>1, <3>2
  <2> QED BY <2>1, <2>2, <2>3, BanKept DEF BanInv, PendingBan
<1>3. ASSUME NEW h \in Handlers, Serve(h) PROVE BanInv'
  BY <1>3, BanServe
<1>4. ASSUME NEW i \in Hosts, Trim(i) PROVE BanInv'
  <2>1. UNCHANGED <<now, pc, req, clearances>> /\ now \in Nat
    BY <1>4 DEF Trim, TypeOK
  <2>2. \A f \in Fps : rev'[f] = rev[f] \/ rev[f] <= now
    BY <1>4 DEF Trim, Lapsed
  <2> QED BY <2>1, <2>2, BanAges
<1>5. ASSUME NEW i \in Hosts, Load(i) PROVE BanInv'
  BY <1>5, BanKept DEF Load, store, BanInv, PendingBan
<1>6. ASSUME NEW i \in Hosts, Restart(i) PROVE BanInv'
  <2>1. UNCHANGED <<now, rev, clearances>>
    BY <1>6 DEF Restart, store
  <2>2. \A h \in Handlers : \/ pc'[h] = pc[h] /\ req'[h] = req[h]
                            \/ pc'[h] = "idle" /\ ~req'[h].ban
    BY <1>6 DEF Restart, Blank
  <2> QED BY <2>1, <2>2, BanKept DEF BanInv, PendingBan
<1>7. CASE Tick
  <2>1. now' \in Nat /\ now <= now' /\ UNCHANGED <<pc, req, clearances, rev>>
    BY <1>7 DEF Tick, store, TypeOK
  <2> QED BY <2>1, BanAges
<1>8. CASE UNCHANGED vars
  BY <1>8, BanKept DEF vars, store, BanInv, PendingBan
<1> QED BY <1>1, <1>2, <1>3, <1>4, <1>5, <1>6, <1>7, <1>8 DEF Next

\* The clearance that a farm solved for itself does not outlive its ban but for
\* the time of one request, in whatever order bans of one fingerprint land and
\* whatever Refresh trims (verify.go:469-475, roster.go:117-138).
THEOREM BanLastsAsLong == Spec => []BanOutlivesClearance
<1>1. BanInv => BanOutlivesClearance
  BY DEF BanInv, GrantedBan, Outlived, BanOutlivesClearance
<1> QED BY <1>1, TypeInit, TypeStep, BanInit, BanStep, PTL DEF Spec
=============================================================================
