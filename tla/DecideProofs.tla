---------------------------- MODULE DecideProofs ----------------------------
(***************************************************************************)
(* What holds of the gate's decision for every profile that passes         *)
(* Validate and every request: who may weaken it, when it blocks, and what *)
(* an answer of "OK" means.                                                *)
(***************************************************************************)
EXTENDS Decide, FiniteSetTheorems, WellFoundedInduction, TLAPS

\* An advice the profile takes from just anybody ("*") can only ask for a
\* challenge (profile.go:673-708, decide.go:472-496).
THEOREM StrangersOnlyStrengthen ==
  ASSUME NEW p, NEW prior,
         \A i \in DOMAIN p.prior : ValidPrior(p.prior[i]),
         NEW x \in Taken(prior, p), p.prior[x[3]].from = "*"
  PROVE  prior[x[1]].actions[x[2]].do = "challenge"
<1> DEFINE rule == p.prior[x[3]]
           act == prior[x[1]].actions[x[2]]
<1>1. x[3] \in DOMAIN p.prior /\ Accepts(rule, prior[x[1]].from, act)
  <2>1. PICK i \in DOMAIN prior :
          x \in {i} \X (DOMAIN prior[i].actions) \X (DOMAIN p.prior)
    BY DEF Taken
  <2>2. x[3] \in DOMAIN p.prior
    BY <2>1
  <2> QED BY <2>2 DEF Taken
<1>2. rule.accept = {"challenge"}
  BY <1>1 DEF ValidPrior
<1>3. {act.do, "*"} \cap {"challenge"} # {}
  BY <1>1, <1>2 DEF Accepts
<1> QED BY <1>3

\* Only an inspector that the profile names can make the gate skip a challenge,
\* or charge a bucket.
THEOREM OnlyNamedWeaken ==
  ASSUME NEW p, NEW prior,
         \A i \in DOMAIN p.prior : ValidPrior(p.prior[i])
  PROVE  LET named == {x \in Taken(prior, p) : p.prior[x[3]].from = prior[x[1]].from}
         IN /\ PriorAsk(prior, p).skip =>
                 \E x \in named : prior[x[1]].actions[x[2]].do = "skip"
            /\ \A k \in DOMAIN PriorAsk(prior, p).notes :
                 \E x \in named : k \in NoteKinds(prior[x[1]].actions[x[2]], p)
<1> DEFINE Act(x) == prior[x[1]].actions[x[2]]
<1>1. ASSUME NEW x \in Taken(prior, p), Act(x).do # "challenge"
      PROVE  p.prior[x[3]].from = prior[x[1]].from
  <2>1. Accepts(p.prior[x[3]], prior[x[1]].from, Act(x))
    BY DEF Taken
  <2>2. p.prior[x[3]].from # "*"
    BY <1>1, StrangersOnlyStrengthen
  <2> QED BY <2>1, <2>2 DEF Accepts
<1>2. ASSUME PriorAsk(prior, p).skip
      PROVE  \E x \in Taken(prior, p) : Act(x).do = "skip"
  BY <1>2 DEF PriorAsk
<1>3. ASSUME NEW k \in DOMAIN PriorAsk(prior, p).notes
      PROVE  \E x \in Taken(prior, p) : Act(x).do = "note" /\ k \in NoteKinds(Act(x), p)
  BY <1>3 DEF PriorAsk
<1> QED BY <1>1, <1>2, <1>3

\* Of a profile that only observes, or is off, Check denies and redirects nobody;
\* what it does not let pass is the error of a clearance list it cannot read
\* (decide.go:119-255).  So "the inspector always answers allow" (README.md:33)
\* is not what Check does, and the inspector around it has three errors more:
\* store, buckets and geo (handler.go:134-141, 166-176, 225-234).
THEOREM ObserveNeverBlocks ==
  ASSUME NEW in, in.profile # None, in.profile.mode \in {"observe", "off"}
  PROVE  \/ Check(in).verdict = "allow"
         \/ Check(in).verdict = "error" /\ Check(in).code = "LIST_UNAVAILABLE"
BY DEF Check, Result

\* A clearance that opens is the one that was shown, any other code means none.
LEMMA OpenCases ==
  ASSUME NEW p, NEW q, NEW h, NEW now, NEW world
  PROVE  LET o == Open(p, q, h, now, world) IN
         \/ h.clearance # None /\ o = Opened(h.clearance, "OK")
         \/ \E code \in {"REQUIRED", "CLEARANCE_BAD", "CLEARANCE_EXPIRED", "CLEARANCE_BIND",
                          "CLEARANCE_REVOKED", "LIST_UNAVAILABLE"} : o = Opened(None, code)
BY DEF Open

\* Every path to "OK": a clearance that opened, with its session bucket below
\* the threshold (decide.go:175-191).
THEOREM OkMeansCleared ==
  ASSUME NEW in, NEW p, NEW q, NEW h, NEW now, NEW world,
         in.opened = Open(p, q, h, now, world), Check(in).code = "OK"
  PROVE  /\ in.opened.clearance = h.clearance /\ h.clearance # None
         /\ Check(in).clearance = h.clearance
         /\ ~Full(in, "sess")
<1>1. in.opened.clearance # None => in.opened.clearance = h.clearance
  BY OpenCases DEF Opened
<1>2. in.opened.clearance = None => in.opened.code # "OK"
  BY OpenCases DEF Opened
<1>3. in.opened.clearance # None
  BY <1>2 DEF Check, Challenged, Result
<1>4. ~Full(in, "sess")
  BY <1>3 DEF Check, Challenged, Result
<1> QED BY <1>1, <1>3, <1>4 DEF Check, Challenged, Result

\* A rule that lists the id of a clearance only fires where there is one: the
\* list never gets an empty value (profile.go:348-352, subjects.go:274-277).
THEOREM CidIsKnown ==
  ASSUME NEW in, NEW r, ValidRule(r), r.list # "", r.write = "cid",
         Selected(r, EventOf(in, Check(in)), "", NextOf(Check(in)))
  PROVE  Check(in).clearance # None
<1>1. r.on \in {"pass", "cleared"}
  BY DEF ValidRule, ValidList
<1>2. EventOf(in, Check(in)) = r.on
  BY DEF Selected
<1> QED BY <1>1, <1>2 DEF EventOf

-----------------------------------------------------------------------------
(* What is added up: the notes of an advice, the charges of event rules.    *)
(* The fold of the library is a recursive function, so that there is one    *)
(* (AddsExists) and that its value is a number (SumIsInt) take inductions,  *)
(* made with the smallest size of a set for which they fail.                *)

LEMMA Smallest ==
  ASSUME NEW T, T \subseteq Nat, T # {}
  PROVE  \E n \in T : \A m \in T : n <= m
<1> DEFINE R == OpToRel(<, Nat)
<1>1. IsWellFoundedOn(R, Nat)
  BY NatLessThanWellFounded
<1>2. \A x, y \in Nat : x < y => <<x, y>> \in R
  BY DEF OpToRel
<1> HIDE DEF R
<1>3. PICK n \in T : \A m \in T : ~(<<m, n>> \in R)
  BY <1>1, WFMin
<1>4. ASSUME NEW m \in T PROVE n <= m
  <2>1. m \in Nat /\ n \in Nat /\ ~(m < n)
    BY <1>2, <1>3
  <2> QED BY <2>1
<1> QED BY <1>4

\* One element of a set, as the fold picks it.
One(s) == CHOOSE x \in s : TRUE

\* h adds up f over the members of F.
Adds(h, f, F) ==
  h = [s \in F |-> IF s = {} THEN 0 ELSE f[One(s)] + h[s \ {One(s)}]]

UpTo(S, n) == {s \in SUBSET S : Cardinality(s) <= n}

LEMMA OneLess ==
  ASSUME NEW S, IsFiniteSet(S), NEW s \in SUBSET S, s # {}
  PROVE  /\ One(s) \in s /\ s \ {One(s)} \in SUBSET S
         /\ Cardinality(s) \in Nat /\ Cardinality(s \ {One(s)}) = Cardinality(s) - 1
<1>1. One(s) \in s
  BY DEF One
<1>2. IsFiniteSet(s)
  BY FS_Subset
<1> QED BY <1>1, <1>2, FS_RemoveElement, FS_CardinalityType

LEMMA AddsOneMore ==
  ASSUME NEW S, IsFiniteSet(S), NEW f, NEW n \in Nat, NEW h, Adds(h, f, UpTo(S, n))
  PROVE  \E g : Adds(g, f, UpTo(S, n + 1))
<1> DEFINE F == UpTo(S, n)
           G == UpTo(S, n + 1)
           g == [s \in G |-> IF s = {} THEN 0 ELSE f[One(s)] + h[s \ {One(s)}]]
<1>1. \A s \in G : s # {} => s \ {One(s)} \in F
  <2> SUFFICES ASSUME NEW s \in G, s # {} PROVE s \ {One(s)} \in F
    OBVIOUS
  <2>1. s \in SUBSET S /\ Cardinality(s) <= n + 1
    BY DEF UpTo
  <2> QED BY <2>1, OneLess DEF UpTo
<1>2. F \subseteq G
  <2> SUFFICES ASSUME NEW s \in F PROVE s \in G
    OBVIOUS
  <2>1. s \in SUBSET S /\ Cardinality(s) <= n /\ IsFiniteSet(s)
    BY FS_Subset DEF UpTo
  <2>2. Cardinality(s) \in Nat
    BY <2>1, FS_CardinalityType
  <2> QED BY <2>1, <2>2 DEF UpTo
<1>3. h = [s \in F |-> IF s = {} THEN 0 ELSE f[One(s)] + h[s \ {One(s)}]]
  BY DEF Adds
<1> HIDE DEF F, G
<1>4. \A s \in F : g[s] = h[s]
  BY <1>2, <1>3
<1>5. \A s \in G : g[s] = IF s = {} THEN 0 ELSE f[One(s)] + g[s \ {One(s)}]
  BY <1>1, <1>4
<1>6. g = [s \in G |-> IF s = {} THEN 0 ELSE f[One(s)] + g[s \ {One(s)}]]
  BY <1>5
<1> QED BY <1>6 DEF Adds, G

LEMMA AddsExists ==
  ASSUME NEW S, IsFiniteSet(S), NEW f
  PROVE  \E h : Adds(h, f, SUBSET S)
<1> DEFINE T == {n \in Nat : ~ \E h : Adds(h, f, UpTo(S, n))}
<1>1. T = {}
  <2> SUFFICES ASSUME T # {} PROVE FALSE
    OBVIOUS
  <2>1. PICK n \in T : \A m \in T : n <= m
    BY Smallest
  <2>2. CASE n = 0
    <3> DEFINE h == [s \in UpTo(S, 0) |-> 0]
    <3>1. \A s \in UpTo(S, 0) : s = {}
      <4> SUFFICES ASSUME NEW s \in UpTo(S, 0) PROVE s = {}
        OBVIOUS
      <4>1. IsFiniteSet(s) /\ Cardinality(s) <= 0
        BY FS_Subset DEF UpTo
      <4> QED BY <4>1, FS_CardinalityType, FS_EmptySet
    <3>2. Adds(h, f, UpTo(S, 0))
      BY <3>1 DEF Adds
    <3> QED BY <2>1, <2>2, <3>2
  <2>3. CASE n # 0
    <3>1. n - 1 \in Nat /\ n - 1 \notin T /\ (n - 1) + 1 = n
      BY <2>1, <2>3
    <3>2. PICK h : Adds(h, f, UpTo(S, n - 1))
      BY <3>1
    <3>3. \E g : Adds(g, f, UpTo(S, (n - 1) + 1))
      BY <3>1, <3>2, AddsOneMore
    <3> QED BY <2>1, <3>1, <3>3
  <2> QED BY <2>2, <2>3
<1>2. \A n \in Nat : \E h : Adds(h, f, UpTo(S, n))
  BY <1>1
<1>3. Cardinality(S) \in Nat /\ UpTo(S, Cardinality(S)) = SUBSET S
  BY FS_Subset, FS_CardinalityType DEF UpTo
<1>4. \E h : Adds(h, f, UpTo(S, Cardinality(S)))
  BY <1>2, <1>3
<1> QED BY <1>3, <1>4

LEMMA SumIs ==
  ASSUME NEW S, IsFiniteSet(S), NEW f
  PROVE  \E h : Adds(h, f, SUBSET S) /\ SumFunctionOnSet(f, S) = h[S]
<1>1. SumFunctionOnSet(f, S) = (CHOOSE h : Adds(h, f, SUBSET S))[S]
  BY DEF SumFunctionOnSet, FoldFunctionOnSet, MapThenFoldSet, Adds, One
<1> QED BY <1>1, AddsExists

LEMMA SumIsInt ==
  ASSUME NEW S, IsFiniteSet(S), NEW f, \A x \in S : f[x] \in Int
  PROVE  SumFunctionOnSet(f, S) \in Int
<1>1. PICK h : Adds(h, f, SUBSET S) /\ SumFunctionOnSet(f, S) = h[S]
  BY SumIs
<1> DEFINE T == {n \in Nat : \E s \in SUBSET S : Cardinality(s) = n /\ h[s] \notin Int}
<1>2. T = {}
  <2> SUFFICES ASSUME T # {} PROVE FALSE
    OBVIOUS
  <2>1. PICK n \in T : \A m \in T : n <= m
    BY Smallest
  <2>2. PICK s \in SUBSET S : Cardinality(s) = n /\ h[s] \notin Int
    BY <2>1
  <2>3. h[s] = IF s = {} THEN 0 ELSE f[One(s)] + h[s \ {One(s)}]
    BY <1>1 DEF Adds
  <2>4. s # {}
    BY <2>2, <2>3
  <2> DEFINE u == s \ {One(s)}
  <2>5. One(s) \in S /\ u \in SUBSET S /\ Cardinality(u) = n - 1 /\ n \in Nat /\ n # 0
    BY <2>2, <2>4, OneLess, FS_Subset, FS_CardinalityType
  <2> HIDE DEF u
  <2>6. h[u] \in Int
    BY <2>1, <2>5
  <2> QED BY <2>2, <2>3, <2>4, <2>5, <2>6 DEF u
<1>3. Cardinality(S) \in Nat
  BY FS_CardinalityType
<1> QED BY <1>1, <1>2, <1>3

\* Of the triples of three finite sets there are finitely many.
LEMMA TriplesAreFinite ==
  ASSUME NEW A, NEW B, NEW C, IsFiniteSet(A), IsFiniteSet(B), IsFiniteSet(C)
  PROVE  IsFiniteSet(A \X B \X C)
<1> DEFINE D == (A \X B) \X C
           f == [y \in D |-> <<y[1][1], y[1][2], y[2]>>]
<1>1. IsFiniteSet(D)
  <2>1. IsFiniteSet(A \X B)
    BY FS_Product
  <2> QED BY <2>1, FS_Product
<1>2. f \in [D -> A \X B \X C]
  OBVIOUS
<1>3. ASSUME NEW z \in A \X B \X C PROVE \E y \in D : f[y] = z
  <2> DEFINE y == <<<<z[1], z[2]>>, z[3]>>
  <2>1. y \in D /\ f[y] = z
    OBVIOUS
  <2> QED BY <2>1
<1> HIDE DEF f, D
<1>4. f \in Surjection(D, A \X B \X C)
  BY <1>2, <1>3 DEF Surjection
<1> QED BY <1>1, <1>4, FS_Surjection

\* Places in advice, of which there are finitely many.
LEMMA TakenIsFinite ==
  ASSUME NEW prior, NEW p, IsFiniteSet(DOMAIN prior), IsFiniteSet(DOMAIN p.prior),
         \A i \in DOMAIN prior : IsFiniteSet(DOMAIN prior[i].actions)
  PROVE  IsFiniteSet(Taken(prior, p))
<1> DEFINE Of(i) == {i} \X (DOMAIN prior[i].actions) \X (DOMAIN p.prior)
           all == {Of(i) : i \in DOMAIN prior}
           f == [i \in DOMAIN prior |-> Of(i)]
<1>1. ASSUME NEW i \in DOMAIN prior PROVE IsFiniteSet(Of(i))
  BY FS_Singleton, TriplesAreFinite
<1>2. Taken(prior, p) \subseteq UNION all
  BY DEF Taken
<1> HIDE DEF Of
<1>3. f \in Surjection(DOMAIN prior, all)
  BY DEF Surjection
<1>4. IsFiniteSet(all)
  BY <1>3, FS_Surjection
<1>5. IsFiniteSet(UNION all)
  BY <1>1, <1>4, FS_UNION
<1> QED BY <1>2, <1>5, FS_Subset

\* What notes add to a bucket is a number.
LEMMA NotesAreNumbers ==
  ASSUME NEW prior, NEW p, IsFiniteSet(DOMAIN prior), IsFiniteSet(DOMAIN p.prior),
         \A i \in DOMAIN prior :
           /\ IsFiniteSet(DOMAIN prior[i].actions)
           /\ \A j \in DOMAIN prior[i].actions : prior[i].actions[j].value \in Int,
         NEW k \in DOMAIN PriorAsk(prior, p).notes
  PROVE  k \in Kinds /\ PriorAsk(prior, p).notes[k] \in Int
<1> DEFINE taken == Taken(prior, p)
           noted == {x \in taken : prior[x[1]].actions[x[2]].do = "note"}
           on == {x \in noted : k \in NoteKinds(prior[x[1]].actions[x[2]], p)}
           f == [x \in noted |-> prior[x[1]].actions[x[2]].value]
<1>1. k \in Kinds /\ PriorAsk(prior, p).notes[k] = SumFunctionOnSet(f, on)
  BY DEF PriorAsk
<1>2. IsFiniteSet(on)
  BY TakenIsFinite, FS_Subset
<1>3. \A x \in on : f[x] \in Int
  <2> SUFFICES ASSUME NEW x \in on PROVE f[x] \in Int
    OBVIOUS
  <2>1. PICK i \in DOMAIN prior :
          x \in {i} \X (DOMAIN prior[i].actions) \X (DOMAIN p.prior)
    BY DEF Taken
  <2>2. x[1] = i /\ x[2] \in DOMAIN prior[i].actions /\ x \in noted
    BY <2>1
  <2> QED BY <2>2
<1> HIDE DEF on, f
<1> QED BY <1>1, <1>2, <1>3, SumIsInt
=============================================================================
