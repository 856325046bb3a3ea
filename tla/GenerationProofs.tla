-------------------------- MODULE GenerationProofs --------------------------
(***************************************************************************)
(* Profiles through crashes and failures: for any generations, names and   *)
(* edits, no directory mixes two generations, a rejected one costs the     *)
(* accepted one only where a crash or a failed rename hits the swap, and   *)
(* a snapshot read from a directory that stood still is that directory.    *)
(* The types come last: they rest on where Apply and the reads are.        *)
(***************************************************************************)
EXTENDS Generation, TLAPS

DirNames == {"boot", "live", "next", "prev"}

\* Where the good tree is at each point of Apply.
GoodAt ==
  ~cut /\ good # None =>
    /\ pc \in {"down", "wait", "stage", "write", "park", "reload", "reloading"} =>
         dirs.live = good
    /\ pc \in InSwap => dirs.prev = good /\ lived

Uniform(tree) == \A p, q \in DOMAIN tree : tree[p].stamp = tree[q].stamp
OneStamp(tree) == tree # None => Uniform(tree)
StampedAt(tree, s) == \A p \in DOMAIN tree : tree[p].stamp = s

\* What is written is stamped at one time, after what was there is gone.
Stamps ==
  /\ OneStamp(dirs.live) /\ OneStamp(dirs.next) /\ OneStamp(dirs.prev)
  /\ pc = "write" => StampedAt(dirs.next, stamp)
  /\ pc \in {"park", "promote"} => Uniform(dirs.next)
  /\ pc \in {"load", "loading", "discard"} => Uniform(dirs.live)

\* Every file is one of a profile.
InPaths(tree) == tree # None => DOMAIN tree \subseteq Paths

Located ==
  /\ DOMAIN dirs.boot \subseteq Paths
  /\ InPaths(dirs.live) /\ InPaths(dirs.next) /\ InPaths(dirs.prev)
  /\ pc \in {"write", "park", "promote"} => DOMAIN dirs.next \subseteq Paths
  /\ pc \in {"load", "loading", "discard"} => DOMAIN dirs.live \subseteq Paths
  /\ pc \notin {"down", "wait"} => job \in Generations

DInv ==
  /\ dirs = [d \in DirNames |-> dirs[d]]
  /\ pc \in {"down", "wait", "stage", "write", "park", "reload", "reloading"} \cup InSwap
  /\ GoodAt /\ Stamps /\ Located

LEMMA JobPaths ==
  ASSUME NEW g \in Generations
  PROVE  DOMAIN g.files \subseteq Paths
BY GenerationAssumption DEF Parsed, TextsOver

LEMMA NoneIsFine == OneStamp(None) /\ InPaths(None)
BY DEF OneStamp, InPaths

LEMMA ShippedPaths == DOMAIN Shipped \subseteq Paths
BY GenerationAssumption DEF TextsOver

LEMMA DirsStart == Init => DInv
<1> SUFFICES ASSUME Init
             PROVE  DInv
  OBVIOUS
<1>1. /\ dirs.boot = Stamped(Shipped, 0) /\ dirs.live = None /\ dirs.next = None
      /\ dirs.prev = None /\ dirs = [d \in DirNames |-> dirs[d]]
  BY DEF Init, DirNames
<1>2. DOMAIN dirs.boot \subseteq Paths
  BY <1>1, ShippedPaths DEF Stamped
<1> QED BY <1>1, <1>2 DEF Init, DInv, GoodAt, Stamps, Located, OneStamp, InPaths

\* Steps that leave the directories alone.
LEMMA DirsElsewhere ==
  ASSUME DInv,
         \/ \E e \in Generations \cup {Skipped} : Publish(e)
         \/ \E r \in Reloaders : Reload(r)
         \/ \E r \in Readers : Read(r)
         \/ UNCHANGED vars
  PROVE  DInv'
<1>1. UNCHANGED <<dirs, stamp, pc, job, lived, good, cut>>
  BY DEF Publish, Reload, Read, List, ReadProfile, AttachPage, Fingerprint, Store,
         reads, swap, vars
<1> QED BY <1>1 DEF DInv, GoodAt, Stamps, Located

LEMMA DirsOnHold ==
  ASSUME DInv,
         Start \/ Crash \/ Receive \/ ReloadFrom \/ NotUsable \/ PutBack
  PROVE  DInv'
<1> USE DEF DInv, GoodAt, Stamps, Located, InSwap
<1>1. CASE Start
  BY <1>1 DEF Start, store, swap
<1>2. CASE Crash
  BY <1>2 DEF Crash
<1>3. CASE Receive
  BY <1>3 DEF Receive
<1>4. CASE ReloadFrom
  BY <1>4 DEF ReloadFrom
<1>5. CASE NotUsable
  BY <1>5 DEF NotUsable
<1>6. CASE PutBack
  BY <1>6 DEF PutBack, Rejected, Return
<1> QED BY <1>1, <1>2, <1>3, <1>4, <1>5, <1>6

LEMMA EditKeeps ==
  ASSUME DInv, NEW path, NEW text, Edit(path, text)
  PROVE  DInv'
<1>1. /\ dirs'.live = dirs.live /\ dirs'.next = dirs.next /\ dirs'.prev = dirs.prev
      /\ dirs' = [d \in DirNames |-> dirs'[d]]
      /\ DOMAIN dirs'.boot = DOMAIN dirs.boot
  BY DEF Edit, DInv, DirNames
<1>2. UNCHANGED <<stamp, pc, job, lived, good, cut>>
  BY DEF Edit, swap
<1>3. GoodAt'
  BY <1>1, <1>2 DEF DInv, GoodAt
<1>4. Stamps'
  BY <1>1, <1>2 DEF DInv, Stamps
<1>5. Located'
  BY <1>1, <1>2 DEF DInv, Located
<1> QED BY <1>1, <1>2, <1>3, <1>4, <1>5 DEF DInv

-----------------------------------------------------------------------------
(* Apply.  Each step says what becomes of the directories. *)

LEMMA StageKeeps ==
  ASSUME DInv, Stage
  PROVE  DInv'
<1>1. /\ dirs' = [d \in DirNames |-> dirs'[d]]
      /\ dirs'.boot = dirs.boot /\ dirs'.live = dirs.live /\ dirs'.prev = dirs.prev
      /\ dirs'.next = NoFiles
  BY DEF Stage, DInv, DirNames
<1>2. DOMAIN NoFiles = {} /\ OneStamp(NoFiles) /\ StampedAt(NoFiles, stamp')
      /\ InPaths(NoFiles)
  BY DEF NoFiles, OneStamp, Uniform, StampedAt, InPaths
<1>3. pc = "stage" /\ pc' = "write" /\ UNCHANGED <<job, lived, good, cut>>
  BY DEF Stage, quiet, locals
<1>4. GoodAt'
  BY <1>1, <1>3 DEF DInv, GoodAt, InSwap
<1>5. Stamps'
  BY <1>1, <1>2, <1>3 DEF DInv, Stamps
<1>6. Located'
  BY <1>1, <1>2, <1>3 DEF DInv, Located
<1> QED BY <1>1, <1>3, <1>4, <1>5, <1>6 DEF DInv

LEMMA WriteKeeps ==
  ASSUME DInv, Write
  PROVE  DInv'
<1>1. pc = "write" /\ UNCHANGED <<good, cut, stamp>>
  BY DEF Write, quiet
<1>2. ASSUME NEW p \in (DOMAIN job.files) \ (DOMAIN dirs.next),
             dirs' = [dirs EXCEPT !.next = With(@, Only(Stamped(job.files, stamp), {p}))],
             UNCHANGED <<pc, locals, lived, applied, faults>>
      PROVE  DInv'
  <2> DEFINE one == Only(Stamped(job.files, stamp), {p})
             tree == With(dirs.next, one)
  <2>1. /\ dirs' = [d \in DirNames |-> dirs'[d]]
        /\ dirs'.boot = dirs.boot /\ dirs'.live = dirs.live /\ dirs'.prev = dirs.prev
        /\ dirs'.next = tree
    BY <1>2 DEF DInv, DirNames
  <2>2. DOMAIN one = {p} /\ one[p].stamp = stamp
    BY DEF Only, Stamped
  <2>3. DOMAIN tree = DOMAIN dirs.next \cup {p} /\ StampedAt(tree, stamp)
    <3> HIDE DEF one
    <3> QED BY <1>1, <2>2 DEF With, DInv, Stamps, StampedAt
  <2>4. p \in Paths
    BY <1>1, JobPaths DEF DInv, Located
  <2> HIDE DEF tree, one
  <2>5. OneStamp(tree) /\ (DOMAIN tree \subseteq Paths => InPaths(tree))
    BY <2>3 DEF OneStamp, Uniform, StampedAt, InPaths
  <2>6. GoodAt'
    BY <1>1, <1>2, <2>1 DEF DInv, GoodAt, locals
  <2>7. Stamps'
    BY <1>1, <1>2, <2>1, <2>3, <2>5 DEF DInv, Stamps, locals
  <2>8. Located'
    BY <1>1, <1>2, <2>1, <2>3, <2>4, <2>5 DEF DInv, Located, locals
  <2> QED BY <1>1, <1>2, <2>1, <2>6, <2>7, <2>8 DEF DInv
<1>3. ASSUME dirs' = [dirs EXCEPT !.prev = None], pc' = "park",
             UNCHANGED <<locals, lived, applied, faults>>
      PROVE  DInv'
  <2>1. /\ dirs' = [d \in DirNames |-> dirs'[d]]
        /\ dirs'.boot = dirs.boot /\ dirs'.live = dirs.live /\ dirs'.next = dirs.next
        /\ dirs'.prev = None
    BY <1>3 DEF DInv, DirNames
  <2>2. GoodAt'
    BY <1>1, <1>3, <2>1 DEF DInv, GoodAt, InSwap
  <2>3. Stamps'
    BY <1>1, <1>3, <2>1, NoneIsFine DEF DInv, Stamps, StampedAt, Uniform
  <2>4. Located'
    BY <1>1, NoneIsFine, <1>3, <2>1 DEF DInv, Located, locals
  <2> QED BY <1>3, <2>1, <2>2, <2>3, <2>4 DEF DInv
<1>4. ASSUME dirs' = [dirs EXCEPT !.next = None], Rejected
      PROVE  DInv'
  <2>1. /\ dirs' = [d \in DirNames |-> dirs'[d]]
        /\ dirs'.boot = dirs.boot /\ dirs'.live = dirs.live /\ dirs'.prev = dirs.prev
        /\ dirs'.next = None
    BY <1>4 DEF DInv, DirNames
  <2>2. pc' = "wait"
    BY <1>4 DEF Rejected, Return
  <2>3. GoodAt'
    BY <1>1, <2>1, <2>2 DEF DInv, GoodAt, InSwap
  <2>4. Stamps'
    BY NoneIsFine, <2>1, <2>2 DEF DInv, Stamps
  <2>5. Located'
    BY NoneIsFine, <2>1, <2>2 DEF DInv, Located
  <2> QED BY <2>1, <2>2, <2>3, <2>4, <2>5 DEF DInv
<1> QED BY <1>2, <1>3, <1>4 DEF Write

\* A step that ends Apply with a failure, the good tree in its place.
LEMMA RejectedKeeps ==
  ASSUME DInv, Rejected, dirs' = [d \in DirNames |-> dirs'[d]], dirs'.boot = dirs.boot,
         OneStamp(dirs'.live), OneStamp(dirs'.next), OneStamp(dirs'.prev),
         InPaths(dirs'.live), InPaths(dirs'.next), InPaths(dirs'.prev),
         good' = good, ~cut' /\ good # None => dirs'.live = good
  PROVE  DInv'
<1>1. pc' = "wait"
  BY DEF Rejected, Return
<1>2. GoodAt'
  BY <1>1 DEF GoodAt, InSwap
<1>3. Stamps'
  BY <1>1 DEF Stamps
<1>4. Located'
  BY <1>1 DEF DInv, Located
<1> QED BY <1>1, <1>2, <1>3, <1>4 DEF DInv

LEMMA ParkKeeps ==
  ASSUME DInv, Park
  PROVE  DInv'
<1>1. pc = "park" /\ good' = good /\ cut' = cut
  BY DEF Park, quiet
<1>2. ASSUME dirs' = [dirs EXCEPT !.prev = dirs.live, !.live = None],
             lived' = (dirs.live # None), pc' = "promote", UNCHANGED <<locals, applied, faults>>
      PROVE  DInv'
  <2>1. /\ dirs' = [d \in DirNames |-> dirs'[d]]
        /\ dirs'.boot = dirs.boot /\ dirs'.next = dirs.next
        /\ dirs'.live = None /\ dirs'.prev = dirs.live
    BY <1>2 DEF DInv, DirNames
  <2>2. GoodAt'
    BY <1>1, <1>2, <2>1 DEF DInv, GoodAt, InSwap
  <2>3. Stamps'
    BY <1>1, <1>2, <2>1, NoneIsFine DEF DInv, Stamps
  <2>4. Located'
    BY <1>1, <1>2, <2>1, NoneIsFine DEF DInv, Located, locals
  <2> QED BY <1>2, <2>1, <2>2, <2>3, <2>4 DEF DInv, InSwap
<1>3. ASSUME dirs' = [dirs EXCEPT !.next = None], Rejected
      PROVE  DInv'
  <2>1. /\ dirs' = [d \in DirNames |-> dirs'[d]]
        /\ dirs'.boot = dirs.boot /\ dirs'.live = dirs.live /\ dirs'.prev = dirs.prev
        /\ dirs'.next = None
    BY <1>3 DEF DInv, DirNames
  <2> QED BY <1>1, <1>3, <2>1, NoneIsFine, RejectedKeeps DEF DInv, GoodAt, Stamps, Located
<1> QED BY <1>2, <1>3 DEF Park

LEMMA PromoteKeeps ==
  ASSUME DInv, Promote
  PROVE  DInv'
<1>1. pc = "promote" /\ good' = good
  BY DEF Promote, quiet
<1>2. ASSUME dirs' = [dirs EXCEPT !.live = dirs.next, !.next = None], pc' = "load",
             UNCHANGED <<locals, lived, applied, faults, cut>>
      PROVE  DInv'
  <2>1. /\ dirs' = [d \in DirNames |-> dirs'[d]]
        /\ dirs'.boot = dirs.boot /\ dirs'.prev = dirs.prev
        /\ dirs'.live = dirs.next /\ dirs'.next = None
    BY <1>2 DEF DInv, DirNames
  <2>2. GoodAt'
    BY <1>1, <1>2, <2>1 DEF DInv, GoodAt, InSwap
  <2>3. Stamps'
    BY <1>1, <1>2, <2>1, NoneIsFine DEF DInv, Stamps
  <2>4. Located'
    BY <1>1, <1>2, <2>1, NoneIsFine DEF DInv, Located, locals
  <2> QED BY <1>2, <2>1, <2>2, <2>3, <2>4 DEF DInv, InSwap
<1>3. ASSUME dirs' = [dirs EXCEPT !.next = None, !.live = dirs.prev, !.prev = None],
             Rejected, cut' = cut
      PROVE  DInv'
  <2>1. /\ dirs' = [d \in DirNames |-> dirs'[d]]
        /\ dirs'.boot = dirs.boot /\ dirs'.live = dirs.prev
        /\ dirs'.next = None /\ dirs'.prev = None
    BY <1>3 DEF DInv, DirNames
  <2> QED BY <1>1, <1>3, <2>1, NoneIsFine, RejectedKeeps DEF DInv, GoodAt, Stamps, Located, InSwap
<1>4. ASSUME dirs' = [dirs EXCEPT !.next = None], Rejected, cut' = TRUE
      PROVE  DInv'
  <2>1. /\ dirs' = [d \in DirNames |-> dirs'[d]]
        /\ dirs'.boot = dirs.boot /\ dirs'.live = dirs.live /\ dirs'.prev = dirs.prev
        /\ dirs'.next = None
    BY <1>4 DEF DInv, DirNames
  <2> QED BY <1>1, <1>4, <2>1, NoneIsFine, RejectedKeeps DEF DInv, Stamps, Located
<1> QED BY <1>2, <1>3, <1>4 DEF Promote

LEMMA VerifiedKeeps ==
  ASSUME DInv, Verified
  PROVE  DInv'
<1>1. /\ dirs' = [d \in DirNames |-> dirs'[d]]
      /\ dirs'.boot = dirs.boot /\ dirs'.live = dirs.live /\ dirs'.next = dirs.next
      /\ dirs'.prev = None
  BY DEF Verified, DInv, DirNames
<1>2. pc' = "wait" /\ good' = dirs.live
  BY DEF Verified, Return
<1>3. GoodAt'
  BY <1>1, <1>2 DEF GoodAt, InSwap
<1>4. Stamps'
  BY <1>1, <1>2, NoneIsFine DEF DInv, Stamps
<1>5. Located'
  BY <1>1, <1>2, NoneIsFine DEF DInv, Located
<1> QED BY <1>1, <1>2, <1>3, <1>4, <1>5 DEF DInv

LEMMA DiscardKeeps ==
  ASSUME DInv, Discard
  PROVE  DInv'
<1>1. pc = "discard" /\ UNCHANGED <<good, cut, job, lived>>
  BY DEF Discard, quiet, locals
<1>2. ASSUME NEW p, dirs' = [dirs EXCEPT !.live = Only(@, (DOMAIN dirs.live) \ {p})], pc' = pc
      PROVE  DInv'
  <2> DEFINE tree == Only(dirs.live, (DOMAIN dirs.live) \ {p})
  <2>1. /\ dirs' = [d \in DirNames |-> dirs'[d]]
        /\ dirs'.boot = dirs.boot /\ dirs'.prev = dirs.prev /\ dirs'.next = dirs.next
        /\ dirs'.live = tree
    BY <1>2 DEF DInv, DirNames
  <2>2. /\ DOMAIN tree \subseteq DOMAIN dirs.live
        /\ \A q \in DOMAIN tree : tree[q] = dirs.live[q]
    BY DEF Only
  <2> HIDE DEF tree
  <2>3. Uniform(tree) /\ OneStamp(tree) /\ DOMAIN tree \subseteq Paths /\ InPaths(tree)
    BY <1>1, <2>2 DEF DInv, Stamps, Located, OneStamp, Uniform, InPaths
  <2>4. GoodAt'
    BY <1>1, <1>2, <2>1 DEF DInv, GoodAt, InSwap
  <2>5. Stamps'
    BY <1>1, <1>2, <2>1, <2>3 DEF DInv, Stamps
  <2>6. Located'
    BY <1>1, <1>2, <2>1, <2>3 DEF DInv, Located
  <2> QED BY <1>2, <2>1, <2>4, <2>5, <2>6 DEF DInv
<1>3. ASSUME dirs' = [dirs EXCEPT !.live = None], pc' = "restore"
      PROVE  DInv'
  <2>1. /\ dirs' = [d \in DirNames |-> dirs'[d]]
        /\ dirs'.boot = dirs.boot /\ dirs'.prev = dirs.prev /\ dirs'.next = dirs.next
        /\ dirs'.live = None
    BY <1>3 DEF DInv, DirNames
  <2>2. GoodAt'
    BY <1>1, <1>3, <2>1 DEF DInv, GoodAt, InSwap
  <2>3. Stamps'
    BY <1>3, <2>1, NoneIsFine DEF DInv, Stamps
  <2>4. Located'
    BY <1>1, <1>3, <2>1, NoneIsFine DEF DInv, Located
  <2> QED BY <1>3, <2>1, <2>2, <2>3, <2>4 DEF DInv, InSwap
<1> QED BY <1>2, <1>3 DEF Discard

LEMMA RestoreKeeps ==
  ASSUME DInv, Restore
  PROVE  DInv'
<1>1. pc = "restore" /\ good' = good
  BY DEF Restore, quiet
<1>2. ASSUME dirs' = [dirs EXCEPT !.live = dirs.prev, !.prev = None], pc' = "reload",
             UNCHANGED <<locals, lived, applied, faults, cut>>
      PROVE  DInv'
  <2>1. /\ dirs' = [d \in DirNames |-> dirs'[d]]
        /\ dirs'.boot = dirs.boot /\ dirs'.next = dirs.next
        /\ dirs'.live = dirs.prev /\ dirs'.prev = None
    BY <1>2 DEF DInv, DirNames
  <2>2. GoodAt'
    BY <1>1, <1>2, <2>1 DEF DInv, GoodAt, InSwap
  <2>3. Stamps'
    BY <1>1, <1>2, <2>1, NoneIsFine DEF DInv, Stamps
  <2>4. Located'
    BY <1>1, <1>2, <2>1, NoneIsFine DEF DInv, Located, locals
  <2> QED BY <1>2, <2>1, <2>2, <2>3, <2>4 DEF DInv
<1>3. ASSUME dirs' = dirs, Rejected, cut' \/ (~lived /\ cut' = cut)
      PROVE  DInv'
  BY <1>1, <1>3, RejectedKeeps DEF DInv, GoodAt, Stamps, Located, InSwap
<1> QED BY <1>2, <1>3 DEF Restore

LEMMA DirsInvariant == Spec => []DInv
<1>1. DInv /\ [Next]_vars => DInv'
  BY DirsElsewhere, DirsOnHold, EditKeeps, StageKeeps, WriteKeeps, ParkKeeps, PromoteKeeps,
     VerifiedKeeps, DiscardKeeps, RestoreKeeps DEF Next, Apply
<1> QED BY <1>1, DirsStart, PTL DEF Spec

\* No directory of generations ever mixes two, whatever a crash or a failed
\* call leaves for the next Apply (desired.go, Apply and write).
THEOREM NeverMixed == Spec => []NoMixedTree
<1>1. DInv => NoMixedTree
  <2> SUFFICES ASSUME DInv, NEW d \in {"live", "next", "prev"}
               PROVE  OneStamp(dirs[d])
    BY DEF NoMixedTree, OneStamp, Uniform
  <2> QED BY DEF DInv, Stamps
<1> QED BY <1>1, DirsInvariant, PTL

\* The accepted tree is live, or beside the tree that is tried, unless a crash
\* or a failed rename hit the swap (desired.go, Apply).
THEOREM AcceptedIsKept == Spec => []AcceptedOnDisk
<1>1. DInv => AcceptedOnDisk
  <2> SUFFICES ASSUME DInv, ~cut, good # None
               PROVE  /\ \E d \in {"live", "prev"} : dirs[d] = good
                      /\ pc = "wait" => dirs.live = good
    BY DEF AcceptedOnDisk
  <2> QED BY DEF DInv, GoodAt
<1> QED BY <1>1, DirsInvariant, PTL

-----------------------------------------------------------------------------
(* Reading a tree that stands still. *)

\* What has been read of a tree once only names are left.
ReadBut(tree, names) == {p \in DOMAIN tree : p[1] \notin names /\ p[1] \in Profiles(tree)}

LEMMA NothingRead ==
  ASSUME NEW tree
  PROVE  Only(tree, ReadBut(tree, {p[1] : p \in DOMAIN tree})) = NoFiles
BY DEF Only, ReadBut, NoFiles

LEMMA ReadMore ==
  ASSUME NEW tree, NEW A, NEW B
  PROVE  With(Only(tree, A), Only(tree, B)) = Only(tree, A \cup B)
BY DEF With, Only

LEMMA OnlyInside ==
  ASSUME NEW tree, NEW A, NEW B, (DOMAIN tree) \cap A = (DOMAIN tree) \cap B
  PROVE  Only(tree, A) = Only(tree, B)
BY DEF Only

LEMMA NoProfile ==
  ASSUME NEW tree, NEW names, NEW n, <<n, "profile.yaml">> \notin DOMAIN tree
  PROVE  ReadBut(tree, names \ {n}) = ReadBut(tree, names)
BY DEF ReadBut, Profiles

LEMMA WholeProfile ==
  ASSUME NEW tree, DOMAIN tree \subseteq Paths, NEW names, NEW n,
         <<n, "profile.yaml">> \in DOMAIN tree
  PROVE  Only(tree, ReadBut(tree, names) \cup {<<n, "profile.yaml">>} \cup {<<n, "captcha.html">>})
         = Only(tree, ReadBut(tree, names \ {n}))
<1> DEFINE A == ReadBut(tree, names) \cup {<<n, "profile.yaml">>} \cup {<<n, "captcha.html">>}
           B == ReadBut(tree, names \ {n})
<1>1. n \in Profiles(tree)
  BY DEF Profiles, Paths
<1>2. ASSUME NEW p \in DOMAIN tree
      PROVE  p \in A <=> p \in B
  <2>1. p = <<p[1], p[2]>> /\ p[2] \in {"profile.yaml", "captcha.html"}
    BY DEF Paths
  <2>2. p[1] = n <=> p \in {<<n, "profile.yaml">>, <<n, "captcha.html">>}
    BY <2>1
  <2> QED BY <1>1, <2>2 DEF ReadBut
<1>3. (DOMAIN tree) \cap A = (DOMAIN tree) \cap B
  BY <1>2
<1> QED BY <1>3, OnlyInside

LEMMA AllRead ==
  ASSUME NEW tree, DOMAIN tree \subseteq Paths
  PROVE  Only(tree, ReadBut(tree, {})) = Loaded(tree)
<1> DEFINE A == ReadBut(tree, {})
           B == Profiles(tree) \X {"profile.yaml", "captcha.html"}
<1>1. ASSUME NEW p \in DOMAIN tree
      PROVE  p \in A <=> p \in B
  <2>1. p = <<p[1], p[2]>> /\ p[2] \in {"profile.yaml", "captcha.html"}
    BY DEF Paths
  <2> QED BY <2>1 DEF ReadBut
<1>2. (DOMAIN tree) \cap A = (DOMAIN tree) \cap B
  BY <1>1
<1> QED BY <1>2, OnlyInside DEF Loaded

LEMMA LoadedIsEnough ==
  ASSUME NEW tree, Usable(Loaded(tree))
  PROVE  Usable(tree)
<1> DEFINE part == Loaded(tree)
<1>1. /\ DOMAIN part = (DOMAIN tree) \cap (Profiles(tree) \X {"profile.yaml", "captcha.html"})
      /\ \A p \in DOMAIN part : part[p] = tree[p]
  BY DEF Loaded, Only
<1> HIDE DEF part
<1>2. \A n \in Names : <<n, "profile.yaml">> \in DOMAIN part <=> <<n, "profile.yaml">> \in DOMAIN tree
  BY <1>1 DEF Profiles
<1>3. Profiles(part) = Profiles(tree)
  BY <1>2 DEF Profiles
<1>4. DOMAIN Loaded(part) = DOMAIN part
  BY <1>1, <1>3 DEF Loaded, Only
<1>5. Usable(part)
  BY DEF part
<1>6. \A n \in Profiles(tree) : part[<<n, "profile.yaml">>] = tree[<<n, "profile.yaml">>]
  BY <1>1, <1>2 DEF Profiles
<1>7. DOMAIN Loaded(tree) = DOMAIN part
  BY DEF part
<1>8. \A p \in DOMAIN Loaded(tree) : tree[p].text # Bad
  BY <1>1, <1>4, <1>5, <1>7 DEF Usable
<1>9. Default \in Profiles(tree)
  BY <1>3, <1>5 DEF Usable
<1>10. \A n \in Profiles(tree) :
         tree[<<n, "profile.yaml">>].text = tree[<<Default, "profile.yaml">>].text
  BY <1>3, <1>5, <1>6, <1>9 DEF Usable
<1> QED BY <1>8, <1>9, <1>10 DEF Usable

-----------------------------------------------------------------------------
(* The reads. *)

ReadFields == {"step", "dir", "names", "got", "fp", "still"}

\* x is a read under way, tree what it reads.
Partial(x, tree) ==
  /\ x.step \in {"profile", "page"} => tree # None
  /\ x.step = "profile" => x.got = Only(tree, ReadBut(tree, x.names))
  /\ x.step = "page" =>
       /\ <<Min(x.names), "profile.yaml">> \in DOMAIN tree
       /\ x.got = Only(tree, ReadBut(tree, x.names) \cup {<<Min(x.names), "profile.yaml">>})

SoundRead(x) ==
  /\ x = [f \in ReadFields |-> x[f]]
  /\ x.dir \in {"boot", "live"}
  /\ x.still => Partial(x, dirs[x.dir])
  /\ x.still /\ x.step = "store" => x.got = Loaded(x.fp) /\ Usable(x.fp)

RInv ==
  /\ rd = [r \in Readers |-> rd[r]]
  /\ \A r \in Readers : SoundRead(rd[r])
  /\ dir \in {"boot", "live"} /\ prevDir \in {"boot", "live"}
  /\ StillReadIsWhole

LEMMA IdleIsSound == SoundRead(Idle) /\ SoundRead(Idle)'
BY DEF SoundRead, Partial, Idle, ReadFields

\* One read goes on, in directories that stay.
LEMMA OneReads ==
  ASSUME RInv, NEW r \in Readers, NEW x, SoundRead(x), rd' = [rd EXCEPT ![r] = x],
         dirs'.boot = dirs.boot, dirs'.live = dirs.live, dir' \in {"boot", "live"}, prevDir' \in {"boot", "live"},
         StillReadIsWhole'
  PROVE  RInv'
<1>1. rd' = [q \in Readers |-> IF q = r THEN x ELSE rd[q]]
  BY DEF RInv
<1>2. ASSUME NEW q \in Readers
      PROVE  SoundRead(rd[q])'
  <2>1. SoundRead(rd'[q])
    BY <1>1 DEF RInv
  <2>2. dirs'[rd'[q].dir] = dirs[rd'[q].dir]
    BY <2>1 DEF SoundRead
  <2> QED BY <2>1, <2>2 DEF SoundRead, Partial
<1> QED BY <1>1, <1>2 DEF RInv

\* An idle, finished or failed read, and one that is about to start.
LEMMA AtRest ==
  ASSUME NEW x, x = [f \in ReadFields |-> x[f]], x.dir \in {"boot", "live"},
         x.step \in {"idle", "list", "done", "failed"}
  PROVE  SoundRead(x)
BY DEF SoundRead, Partial

LEMMA IdleAt ==
  ASSUME NEW step
  PROVE  LET x == [Idle EXCEPT !.step = step] IN
         x = [f \in ReadFields |-> x[f]] /\ x.dir = "boot" /\ x.step = step
BY DEF Idle, ReadFields

LEMMA ReadFailsKeeps ==
  ASSUME RInv, NEW r \in Readers, ReadFails(r), UNCHANGED <<dirs, dir, cur, pc, prevDir>>
  PROVE  RInv'
<1> DEFINE step == IF r = Watcher THEN "failed" ELSE "idle"
           x == [Idle EXCEPT !.step = step]
<1>1. rd' = [rd EXCEPT ![r] = x]
  BY DEF ReadFails
<1>2. SoundRead(x)
  <2> HIDE DEF step
  <2>1. step \in {"failed", "idle"}
    BY DEF step
  <2> QED BY <2>1, IdleAt, AtRest
<1>3. StillReadIsWhole'
  BY DEF RInv, StillReadIsWhole
<1> QED BY <1>1, <1>2, <1>3, OneReads DEF RInv

LEMMA ListKeeps ==
  ASSUME RInv, NEW r \in Readers, List(r)
  PROVE  RInv'
<1>1. UNCHANGED <<dirs, dir, cur, pc, prevDir>>
  BY DEF List, reads, store, swap
<1>2. CASE dirs[dir] # None
  <2> DEFINE tree == dirs[dir]
             names == {p[1] : p \in DOMAIN tree}
             x == [Idle EXCEPT !.step = "profile", !.dir = dir, !.names = names]
  <2>1. rd' = [rd EXCEPT ![r] = x]
    BY <1>2 DEF List
  <2>2. /\ x = [f \in ReadFields |-> x[f]] /\ x.dir = dir /\ x.step = "profile"
        /\ x.names = names /\ x.got = NoFiles
    <3> HIDE DEF names
    <3> QED BY DEF Idle, ReadFields
  <2>3. Partial(x, tree)
    <3> HIDE DEF x
    <3> QED BY <1>2, <2>2, NothingRead DEF Partial
  <2>4. SoundRead(x)
    <3> HIDE DEF x
    <3> QED BY <2>2, <2>3 DEF SoundRead, RInv
  <2>5. StillReadIsWhole'
    BY <1>1 DEF RInv, StillReadIsWhole
  <2> HIDE DEF x
  <2> QED BY <1>1, <2>1, <2>4, <2>5, OneReads DEF RInv
<1>3. CASE dirs[dir] = None
  BY <1>1, <1>3, ReadFailsKeeps DEF List
<1> QED BY <1>2, <1>3

\* What Got reads of a tree that is there.
LEMMA GotOf ==
  ASSUME NEW r, NEW path, Tree(r) # None
  PROVE  /\ Got(r, path) = Only(Tree(r), {path})
         /\ DOMAIN Got(r, path) = {} <=> path \notin DOMAIN Tree(r)
BY DEF Got, Only, NoFiles

LEMMA ReadProfileKeeps ==
  ASSUME RInv, NEW r \in Readers, ReadProfile(r)
  PROVE  RInv'
<1> DEFINE y == rd[r]
           n == Min(y.names)
           path == <<n, "profile.yaml">>
           new == Got(r, path)
           tree == Tree(r)
<1>1. UNCHANGED <<dirs, dir, cur, pc, prevDir>> /\ y.step = "profile"
  BY DEF ReadProfile, reads, store, swap, At
<1>2. SoundRead(y) /\ rd = [q \in Readers |-> rd[q]] /\ StillReadIsWhole'
  BY <1>1 DEF RInv, StillReadIsWhole
<1>3. y.still => tree # None /\ y.got = Only(tree, ReadBut(tree, y.names))
  BY <1>1, <1>2 DEF SoundRead, Partial, Tree
<1>4. ASSUME NEW x, SoundRead(x), rd' = [rd EXCEPT ![r] = x]
      PROVE  RInv'
  BY <1>1, <1>2, <1>4, OneReads DEF RInv
<1>5. ASSUME DOMAIN new # {}, rd' = [rd EXCEPT ![r].got = With(@, new), ![r].step = "page"]
      PROVE  RInv'
  <2> DEFINE got == With(y.got, new)
             x == [y EXCEPT !.got = got, !.step = "page"]
  <2>1. rd' = [rd EXCEPT ![r] = x]
    BY <1>2, <1>5
  <2>2. /\ x = [f \in ReadFields |-> x[f]] /\ x.dir = y.dir /\ x.step = "page"
        /\ x.names = y.names /\ x.got = got /\ x.still = y.still
    <3> HIDE DEF got, y
    <3> QED BY <1>2 DEF SoundRead, ReadFields
  <2>3. y.still => path \in DOMAIN tree
                   /\ got = Only(tree, ReadBut(tree, y.names) \cup {path})
    <3> SUFFICES ASSUME y.still
                 PROVE  /\ path \in DOMAIN tree
                        /\ got = Only(tree, ReadBut(tree, y.names) \cup {path})
      OBVIOUS
    <3>1. new = Only(tree, {path}) /\ path \in DOMAIN tree
      BY <1>3, <1>5, GotOf
    <3>2. got = With(Only(tree, ReadBut(tree, y.names)), Only(tree, {path}))
      BY <1>3, <3>1
    <3> QED BY <3>1, <3>2, ReadMore
  <2>4. x.still => Partial(x, tree)
    <3> HIDE DEF x, tree, got
    <3> QED BY <1>3, <2>2, <2>3 DEF Partial
  <2>5. SoundRead(x)
    <3> HIDE DEF x
    <3> QED BY <1>2, <2>2, <2>4 DEF SoundRead, Tree
  <2> HIDE DEF x
  <2> QED BY <1>4, <2>1, <2>5
<1>6. ASSUME DOMAIN new = {}, rd' = [rd EXCEPT ![r].names = @ \ {n}]
      PROVE  RInv'
  <2> DEFINE names == y.names \ {n}
             x == [y EXCEPT !.names = names]
  <2>1. rd' = [rd EXCEPT ![r] = x]
    BY <1>2, <1>6
  <2>2. /\ x = [f \in ReadFields |-> x[f]] /\ x.dir = y.dir /\ x.step = "profile"
        /\ x.names = names /\ x.got = y.got /\ x.still = y.still
    <3> HIDE DEF names, y
    <3> QED BY <1>1, <1>2 DEF SoundRead, ReadFields
  <2>3. y.still => y.got = Only(tree, ReadBut(tree, names))
    BY <1>3, <1>6, GotOf, NoProfile
  <2>4. x.still => Partial(x, tree)
    <3> HIDE DEF x, tree, names
    <3> QED BY <1>3, <2>2, <2>3 DEF Partial
  <2>5. SoundRead(x)
    <3> HIDE DEF x
    <3> QED BY <1>2, <2>2, <2>4 DEF SoundRead, Tree
  <2> HIDE DEF x
  <2> QED BY <1>4, <2>1, <2>5
<1>7. ASSUME ReadFails(r)
      PROVE  RInv'
  BY <1>1, <1>7, ReadFailsKeeps
<1> QED BY <1>5, <1>6, <1>7 DEF ReadProfile

LEMMA AttachPageKeeps ==
  ASSUME RInv, DInv, NEW r \in Readers, AttachPage(r)
  PROVE  RInv'
<1> DEFINE y == rd[r]
           n == Min(y.names)
           path == <<n, "captcha.html">>
           yaml == <<n, "profile.yaml">>
           new == Got(r, path)
           tree == Tree(r)
           got == With(y.got, new)
           names == y.names \ {n}
           x == [y EXCEPT !.got = got, !.step = "profile", !.names = names]
<1>1. UNCHANGED <<dirs, dir, cur, pc, prevDir>> /\ y.step = "page"
  BY DEF AttachPage, reads, store, swap, At
<1>2. SoundRead(y) /\ rd = [q \in Readers |-> rd[q]] /\ StillReadIsWhole'
  BY <1>1 DEF RInv, StillReadIsWhole
<1>3. y.still => /\ tree # None /\ yaml \in DOMAIN tree
                 /\ y.got = Only(tree, ReadBut(tree, y.names) \cup {yaml})
  BY <1>1, <1>2 DEF SoundRead, Partial, Tree
<1>4. CASE rd' = [rd EXCEPT ![r].got = With(@, new), ![r].step = "profile",
                            ![r].names = @ \ {n}]
  <2>1. rd' = [rd EXCEPT ![r] = x]
    BY <1>2, <1>4
  <2>2. /\ x = [f \in ReadFields |-> x[f]] /\ x.dir = y.dir /\ x.step = "profile"
        /\ x.names = names /\ x.got = got /\ x.still = y.still
    <3> HIDE DEF got, names, y
    <3> QED BY <1>2 DEF SoundRead, ReadFields
  <2>3. tree # None => DOMAIN tree \subseteq Paths
    BY <1>2 DEF SoundRead, Tree, DInv, Located, InPaths
  <2>4. y.still => got = Only(tree, ReadBut(tree, names))
    <3> SUFFICES ASSUME y.still
                 PROVE  got = Only(tree, ReadBut(tree, names))
      OBVIOUS
    <3>1. new = Only(tree, {path})
      BY <1>3, GotOf
    <3>2. got = With(Only(tree, ReadBut(tree, y.names) \cup {yaml}), Only(tree, {path}))
      BY <1>3, <3>1
    <3>3. got = Only(tree, ReadBut(tree, y.names) \cup {yaml} \cup {path})
      BY <3>2, ReadMore
    <3> QED BY <1>3, <2>3, <3>3, WholeProfile
  <2>5. x.still => Partial(x, tree)
    <3> HIDE DEF x, tree, names, got
    <3> QED BY <1>3, <2>2, <2>4 DEF Partial
  <2>6. SoundRead(x)
    <3> HIDE DEF x
    <3> QED BY <1>2, <2>2, <2>5 DEF SoundRead, Tree
  <2> HIDE DEF x
  <2> QED BY <1>1, <1>2, <2>1, <2>6, OneReads DEF RInv
<1>5. CASE ReadFails(r)
  BY <1>1, <1>5, ReadFailsKeeps
<1> QED BY <1>4, <1>5 DEF AttachPage

LEMMA FingerprintKeeps ==
  ASSUME RInv, DInv, NEW r \in Readers, Fingerprint(r)
  PROVE  RInv'
<1> DEFINE y == rd[r]
           tree == Tree(r)
           x == [y EXCEPT !.step = "store", !.fp = tree]
<1>1. UNCHANGED <<dirs, dir, cur, pc, prevDir>> /\ y.step = "profile" /\ y.names = {}
  BY DEF Fingerprint, reads, store, swap, At
<1>2. SoundRead(y) /\ rd = [q \in Readers |-> rd[q]] /\ StillReadIsWhole'
  BY <1>1 DEF RInv, StillReadIsWhole
<1>3. CASE Usable(y.got) /\ tree # None
  <2>1. rd' = [rd EXCEPT ![r] = x]
    BY <1>2, <1>3 DEF Fingerprint
  <2>2. /\ x = [f \in ReadFields |-> x[f]] /\ x.dir = y.dir /\ x.step = "store"
        /\ x.got = y.got /\ x.fp = tree /\ x.still = y.still
    <3> HIDE DEF tree, y
    <3> QED BY <1>2 DEF SoundRead, ReadFields
  <2>3. DOMAIN tree \subseteq Paths
    BY <1>2, <1>3 DEF SoundRead, Tree, DInv, Located, InPaths
  <2>4. y.still => y.got = Loaded(tree)
    BY <1>1, <1>2, <2>3, AllRead DEF SoundRead, Partial, Tree
  <2>5. y.still => Usable(tree)
    BY <1>3, <2>4, LoadedIsEnough
  <2>6. SoundRead(x)
    <3> HIDE DEF x
    <3> QED BY <1>2, <2>2, <2>4, <2>5 DEF SoundRead, Partial
  <2> HIDE DEF x
  <2> QED BY <1>1, <1>2, <2>1, <2>6, OneReads DEF RInv
<1>4. CASE ReadFails(r)
  BY <1>1, <1>4, ReadFailsKeeps
<1> QED BY <1>3, <1>4 DEF Fingerprint

LEMMA StoreKeeps ==
  ASSUME RInv, NEW r \in Readers, Store(r)
  PROVE  RInv'
<1> DEFINE step == IF r = Watcher THEN "done" ELSE "idle"
           x == [Idle EXCEPT !.step = step]
<1>1. UNCHANGED <<dirs, dir, pc, prevDir>> /\ rd[r].step = "store" /\ rd' = [rd EXCEPT ![r] = x]
  BY DEF Store, reads, swap, At
<1>2. cur'.files = rd[r].got /\ cur'.fp = rd[r].fp /\ cur'.still = rd[r].still
  BY DEF Store
<1>3. StillReadIsWhole'
  BY <1>1, <1>2 DEF RInv, SoundRead, StillReadIsWhole
<1>4. SoundRead(x)
  <2> HIDE DEF step
  <2>1. step \in {"done", "idle"}
    BY DEF step
  <2> QED BY <2>1, IdleAt, AtRest
<1> HIDE DEF x
<1> QED BY <1>1, <1>3, <1>4, OneReads DEF RInv

-----------------------------------------------------------------------------
(* What happens to the directories under the reads. *)

\* Only d changes of the two that are read, and the reads in it know.
LEMMA DisturbedKeeps ==
  ASSUME RInv, NEW d, rd' = Disturbed(d), \A e \in {"boot", "live"} \ {d} : dirs'[e] = dirs[e],
         dir' \in {"boot", "live"}, prevDir' \in {"boot", "live"}, StillReadIsWhole'
  PROVE  RInv'
<1>1. ASSUME NEW r \in Readers
      PROVE  SoundRead(rd[r])'
  <2> DEFINE y == rd[r]
  <2>1. SoundRead(y)
    BY DEF RInv
  <2>2. CASE y.step \in {"profile", "page"} /\ y.dir = d
    <3> DEFINE x == [y EXCEPT !.still = FALSE]
    <3>1. rd'[r] = x
      BY <2>2 DEF Disturbed
    <3>2. x = [f \in ReadFields |-> x[f]] /\ x.dir = y.dir /\ ~x.still
      <4> HIDE DEF y
      <4> QED BY <2>1 DEF SoundRead, ReadFields
    <3> HIDE DEF x
    <3> QED BY <2>1, <3>1, <3>2 DEF SoundRead
  <2>3. CASE ~ (y.step \in {"profile", "page"} /\ y.dir = d)
    <3>1. rd'[r] = y
      BY <2>3 DEF Disturbed
    <3>2. y.step \in {"profile", "page"} => dirs'[y.dir] = dirs[y.dir]
      BY <2>1, <2>3 DEF SoundRead
    <3> HIDE DEF y
    <3> QED BY <2>1, <3>1, <3>2 DEF SoundRead, Partial
  <2> QED BY <2>2, <2>3
<1>2. rd' = [r \in Readers |-> rd'[r]]
  BY DEF Disturbed
<1> QED BY <1>1, <1>2 DEF RInv

\* The read directories stay, and the reads.
LEMMA UndisturbedKeeps ==
  ASSUME RInv, rd' = rd, dirs'.boot = dirs.boot, dirs'.live = dirs.live,
         dir' \in {"boot", "live"}, prevDir' \in {"boot", "live"}, StillReadIsWhole'
  PROVE  RInv'
<1>1. ASSUME NEW r \in Readers
      PROVE  SoundRead(rd[r])'
  <2>1. SoundRead(rd[r])
    BY DEF RInv
  <2>2. dirs'[rd[r].dir] = dirs[rd[r].dir]
    BY <2>1 DEF SoundRead
  <2> QED BY <2>1, <2>2 DEF SoundRead, Partial
<1> QED BY <1>1 DEF RInv

LEMMA SnapshotIsWhole ==
  ASSUME NEW tree, Usable(tree), cur' = Snapshot(tree)
  PROVE  StillReadIsWhole'
BY DEF Snapshot, StillReadIsWhole

LEMMA OutsideKeeps ==
  ASSUME RInv, DInv,
         \/ \E e \in Generations \cup {Skipped} : Publish(e)
         \/ \E e \in Edits : Edit(e[1], e[2])
         \/ Start \/ Crash \/ Receive \/ \E r \in Reloaders : Reload(r)
         \/ UNCHANGED vars
  PROVE  RInv'
<1>1. CASE (\E e \in Generations \cup {Skipped} : Publish(e)) \/ Receive \/ UNCHANGED vars
  <2>1. UNCHANGED <<dirs, dir, cur, rd>> /\ (pc = "down" <=> pc' = "down")
        /\ prevDir' = prevDir
    BY <1>1 DEF Publish, Receive, store, swap, vars
  <2>2. StillReadIsWhole'
    BY <2>1 DEF RInv, StillReadIsWhole
  <2> QED BY <2>1, <2>2, UndisturbedKeeps DEF RInv
<1>2. ASSUME NEW e \in Edits, Edit(e[1], e[2])
      PROVE  RInv'
  <2>1. UNCHANGED <<dir, cur, pc, prevDir>> /\ rd' = Disturbed("boot")
    BY <1>2 DEF Edit, store, swap
  <2>2. dirs'.live = dirs.live
    BY <1>2 DEF Edit, DInv, DirNames
  <2>3. StillReadIsWhole'
    BY <2>1 DEF RInv, StillReadIsWhole
  <2> QED BY <2>1, <2>2, <2>3, DisturbedKeeps DEF RInv
<1>3. CASE Start
  <2>1. UNCHANGED <<dirs, rd, prevDir>> /\ dir' \in {"boot", "live"}
    BY <1>3 DEF Start
  <2>2. StillReadIsWhole'
    BY <1>3, SnapshotIsWhole DEF Start
  <2> QED BY <2>1, <2>2, UndisturbedKeeps DEF RInv
<1>4. CASE Crash
  BY <1>4, IdleIsSound DEF Crash, Nobody, RInv, StillReadIsWhole
<1>5. ASSUME NEW r \in Reloaders, Reload(r)
      PROVE  RInv'
  <2> DEFINE y == rd[r]
             x == [y EXCEPT !.step = "list"]
  <2>1. UNCHANGED <<dirs, dir, cur, pc, prevDir>> /\ r \in Readers
    BY <1>5 DEF Reload, reads, store, swap, Readers
  <2>2. SoundRead(y) /\ StillReadIsWhole'
    BY <2>1 DEF RInv, StillReadIsWhole
  <2>3. x = [f \in ReadFields |-> x[f]] /\ x.step = "list" /\ x.dir = y.dir
    <3> HIDE DEF y
    <3> QED BY <2>2 DEF SoundRead, ReadFields
  <2>4. rd' = [rd EXCEPT ![r] = x]
    BY <1>5 DEF Reload
  <2>5. SoundRead(x)
    <3> HIDE DEF x
    <3> QED BY <2>2, <2>3, AtRest DEF SoundRead
  <2> HIDE DEF x
  <2> QED BY <2>1, <2>2, <2>4, <2>5, OneReads DEF RInv
<1> QED BY <1>1, <1>2, <1>3, <1>4, <1>5

LEMMA ApplyKeeps ==
  ASSUME RInv, DInv, Apply
  PROVE  RInv'
<1>1. pc # "down" /\ pc' # "down" /\ cur' = cur
  BY DEF Apply, Stage, Write, Park, Promote, ReloadFrom, Verified, NotUsable, Discard, Restore,
         PutBack, quiet, store, Rejected, Return
<1>2. StillReadIsWhole'
  BY <1>1 DEF RInv, StillReadIsWhole
<1>3. prevDir' \in {"boot", "live"} /\ dir' \in {"boot", "live"}
  BY DEF Apply, Stage, Write, Park, Promote, ReloadFrom, Verified, NotUsable, Discard, Restore,
         PutBack, quiet, store, locals, Rejected, Return, RInv
<1>4. dirs'.boot = dirs.boot
  BY DEF Apply, Stage, Write, Park, Promote, ReloadFrom, Verified, NotUsable, Discard, Restore,
         PutBack, DInv, DirNames
<1>5. CASE Moved
  BY <1>2, <1>3, <1>4, <1>5, DisturbedKeeps DEF Moved
<1>6. CASE rd' = rd /\ dirs'.live = dirs.live
  BY <1>2, <1>3, <1>4, <1>6, UndisturbedKeeps
<1>7. CASE rd' = [rd EXCEPT ![Watcher] = Idle] /\ dirs'.live = dirs.live
  BY <1>2, <1>3, <1>4, <1>7, IdleIsSound, OneReads DEF Readers
<1>8. CASE ReloadFrom
  <2> DEFINE y == rd[Watcher]
             x == [y EXCEPT !.step = "list"]
  <2>1. dirs' = dirs /\ rd' = [rd EXCEPT ![Watcher] = x]
    BY <1>8 DEF ReloadFrom
  <2>2. SoundRead(y)
    BY DEF RInv, Readers
  <2>3. x = [f \in ReadFields |-> x[f]] /\ x.step = "list" /\ x.dir = y.dir
    <3> HIDE DEF y
    <3> QED BY <2>2 DEF SoundRead, ReadFields
  <2>4. SoundRead(x)
    <3> HIDE DEF x
    <3> QED BY <2>2, <2>3, AtRest DEF SoundRead
  <2> HIDE DEF x
  <2> QED BY <1>2, <1>3, <2>1, <2>4, OneReads DEF Readers
<1>9. Stage \/ Write => rd' = rd /\ dirs'.live = dirs.live
  BY DEF Stage, Write, DInv, DirNames
<1>10. Park \/ Restore => Moved \/ (rd' = rd /\ dirs'.live = dirs.live)
  BY DEF Park, Restore, DInv, DirNames
<1>11. Promote \/ Discard => Moved
  BY DEF Promote, Discard
<1>12. Verified \/ NotUsable \/ PutBack =>
         rd' = [rd EXCEPT ![Watcher] = Idle] /\ dirs'.live = dirs.live
  BY DEF Verified, NotUsable, PutBack, Ended, DInv, DirNames
<1> QED BY <1>5, <1>6, <1>7, <1>8, <1>9, <1>10, <1>11, <1>12 DEF Apply

LEMMA ReadsInvariant == Spec => []RInv
<1>1. Init => RInv
  BY IdleIsSound DEF Init, Nobody, RInv, StillReadIsWhole
<1>2. RInv /\ DInv /\ [Next]_vars => RInv'
  BY OutsideKeeps, ApplyKeeps, ListKeeps, ReadProfileKeeps, AttachPageKeeps, FingerprintKeeps,
     StoreKeeps DEF Next, Read
<1> QED BY <1>1, <1>2, DirsInvariant, PTL DEF Spec

\* A snapshot whose directory stood still under its read is the whole of that
\* usable tree, for any other reads, swaps and edits (profiles.go, read).
THEOREM SnapshotsAreWhole == Spec => []StillReadIsWhole
BY ReadsInvariant, PTL DEF RInv

-----------------------------------------------------------------------------
(* The types. *)

TreeOrNone(t) == t = None \/ IsTree(t)

\* A directory is a tree or missing; Apply works on directories that are there.
TreesOK ==
  /\ IsTree(dirs.boot)
  /\ TreeOrNone(dirs.live) /\ TreeOrNone(dirs.next) /\ TreeOrNone(dirs.prev)
  /\ TreeOrNone(good)
  /\ pc \in {"write", "park", "promote"} => dirs.next # None
  /\ pc \in {"load", "loading", "discard"} => dirs.live # None

ReadOK(x) ==
  /\ x.step \in {"idle", "list", "profile", "page", "store", "done", "failed"}
  /\ x.names \subseteq Names /\ x.still \in BOOLEAN
  /\ IsTree(x.got) /\ IsTree(x.fp)

ReadsOK == \A r \in Readers : ReadOK(rd[r])

SnapshotOK(s) ==
  /\ s = [files |-> s.files, fp |-> s.fp, still |-> s.still]
  /\ IsTree(s.files) /\ IsTree(s.fp) /\ s.still \in BOOLEAN

RestOK ==
  /\ kv \in Seq(Generations \cup {Skipped}) /\ at \in Nat \ {0} /\ stamp \in Nat
  /\ job \in Generations \cup {None}
  /\ pc \notin {"down", "wait"} => job # None
  /\ lived \in BOOLEAN /\ cut \in BOOLEAN
  /\ applied \in [gen : Generations \cup {None}, apply : {"", "ok", "apply_failed"}]
  /\ level \in Levels
  /\ crashes \in Nat /\ faults \in Nat /\ edits \in Nat

TInv == TreesOK /\ ReadsOK /\ SnapshotOK(cur) /\ RestOK

LEMMA NoFilesIsTree == IsTree(NoFiles)
BY DEF NoFiles, IsTree

LEMMA TreeIsThere ==
  ASSUME NEW t, IsTree(t)
  PROVE  t # None
<1>1. DOMAIN t \in SUBSET Paths /\ t \in [DOMAIN t -> Files]
  BY DEF IsTree
<1> QED BY <1>1, GenerationAssumption

LEMMA PartIsTree ==
  ASSUME NEW t, IsTree(t), NEW S
  PROVE  IsTree(Only(t, S))
<1>1. /\ DOMAIN Only(t, S) = (DOMAIN t) \cap S
      /\ Only(t, S) \in [(DOMAIN t) \cap S -> Files]
  BY DEF Only, IsTree
<1> QED BY <1>1 DEF IsTree

LEMMA JoinedIsTree ==
  ASSUME NEW t, IsTree(t), NEW u, IsTree(u)
  PROVE  IsTree(With(t, u))
<1>1. /\ DOMAIN With(t, u) = (DOMAIN t) \cup (DOMAIN u)
      /\ With(t, u) \in [(DOMAIN t) \cup (DOMAIN u) -> Files]
  BY DEF With, IsTree
<1> QED BY <1>1 DEF IsTree

LEMMA StampedIsTree ==
  ASSUME NEW texts \in TextsOver(Paths), NEW s \in Int
  PROVE  IsTree(Stamped(texts, s))
<1>1. DOMAIN texts \subseteq Paths /\ \A p \in DOMAIN texts : texts[p] \in Texts
  BY DEF TextsOver
<1>2. DOMAIN Stamped(texts, s) = DOMAIN texts
      /\ Stamped(texts, s) \in [DOMAIN texts -> Files]
  BY <1>1 DEF Stamped, Files
<1> QED BY <1>1, <1>2 DEF IsTree

LEMMA EditedIsTree ==
  ASSUME NEW t, IsTree(t), NEW path, NEW f \in Files
  PROVE  IsTree([t EXCEPT ![path] = f])
<1>1. /\ DOMAIN [t EXCEPT ![path] = f] = DOMAIN t
      /\ [t EXCEPT ![path] = f] \in [DOMAIN t -> Files]
  BY DEF IsTree
<1> QED BY <1>1 DEF IsTree

LEMMA IdleIsOK == ReadOK(Idle)
BY NoFilesIsTree DEF Idle, ReadOK

LEMMA TypesStart == Init => TInv
<1> SUFFICES ASSUME Init
             PROVE  TInv
  OBVIOUS
<1>1. TreesOK
  BY StampedIsTree, GenerationAssumption DEF Init, TreesOK, TreeOrNone
<1>2. ReadsOK
  BY IdleIsOK DEF Init, Nobody, ReadsOK
<1>3. SnapshotOK(cur)
  BY NoFilesIsTree DEF Init, NoSnapshot, SnapshotOK
<1>4. RestOK
  <2>1. kv \in Seq(Generations \cup {Skipped}) /\ LevelOfConfig \in Levels
    BY GenerationAssumption DEF Init
  <2>2. applied \in [gen : Generations \cup {None}, apply : {"", "ok", "apply_failed"}]
    BY DEF Init, NothingApplied
  <2>3. at = 1 /\ stamp = 0 /\ crashes = 0 /\ faults = 0 /\ edits = 0
        /\ lived = FALSE /\ cut = FALSE /\ job = None /\ pc = "down"
        /\ level = LevelOfConfig
    BY DEF Init
  <2>4. lived \in BOOLEAN /\ cut \in BOOLEAN
    BY ZenonT(60), <2>3
  <2>5. at \in Nat \ {0} /\ stamp \in Nat /\ crashes \in Nat /\ faults \in Nat /\ edits \in Nat
    BY <2>3
  <2> QED BY <2>1, <2>2, <2>3, <2>4, <2>5, ZenonT(60) DEF RestOK
<1> QED BY <1>1, <1>2, <1>3, <1>4 DEF TInv

-----------------------------------------------------------------------------
\* Steps that leave the trees alone.
LEMMA TreesElsewhere ==
  ASSUME TInv, dirs' = dirs, good' = good, pc' = pc
  PROVE  TreesOK'
BY DEF TInv, TreesOK, TreeOrNone

LEMMA EditTrees ==
  ASSUME TInv, DInv, NEW e \in Edits, Edit(e[1], e[2])
  PROVE  TreesOK'
<1> DEFINE file == [text |-> e[2], stamp |-> -edits']
<1>1. /\ dirs'.boot = [dirs.boot EXCEPT ![e[1]] = file]
      /\ dirs'.live = dirs.live /\ dirs'.next = dirs.next /\ dirs'.prev = dirs.prev
      /\ good' = good /\ pc' = pc
  BY DEF Edit, DInv, DirNames, swap
<1>2. file \in Files
  <2>1. e[2] \in Texts
    BY GenerationAssumption
  <2>2. edits' \in Nat
    <3>1. edits \in Nat /\ edits' = edits + 1
      BY DEF Edit, TInv, RestOK
    <3> QED BY <3>1
  <2> QED BY <2>1, <2>2 DEF Files
<1> HIDE DEF file
<1>3. IsTree(dirs'.boot)
  <2>1. IsTree(dirs.boot)
    BY DEF TInv, TreesOK
  <2>2. IsTree([dirs.boot EXCEPT ![e[1]] = file])
    BY <1>2, <2>1, EditedIsTree
  <2> QED BY <1>1, <2>2
<1> QED BY <1>1, <1>3 DEF TInv, TreesOK, TreeOrNone

LEMMA SettledTrees ==
  ASSUME TInv, Start \/ Crash \/ Receive \/ ReloadFrom \/ Verified \/ NotUsable \/ PutBack, DInv
  PROVE  TreesOK'
<1> USE DEF TInv, TreesOK, TreeOrNone
<1>1. CASE Start
  BY <1>1 DEF Start
<1>2. CASE Crash
  BY <1>2 DEF Crash
<1>3. CASE Receive
  BY <1>3 DEF Receive
<1>4. CASE ReloadFrom
  BY <1>4 DEF ReloadFrom
<1>5. CASE Verified
  BY <1>5 DEF Verified, Return, DInv, DirNames
<1>6. CASE NotUsable
  BY <1>6 DEF NotUsable
<1>7. CASE PutBack
  BY <1>7 DEF PutBack, Rejected, Return
<1> QED BY <1>1, <1>2, <1>3, <1>4, <1>5, <1>6, <1>7

LEMMA SwapTrees ==
  ASSUME TInv, DInv, Stage \/ Write \/ Park \/ Promote \/ Discard \/ Restore
  PROVE  TreesOK'
<1> USE DEF TreesOK, TreeOrNone
<1> TreesOK /\ dirs = [d \in DirNames |-> dirs[d]]
  BY DEF TInv, DInv
<1>1. CASE Stage
  BY <1>1, NoFilesIsTree, TreeIsThere DEF Stage, quiet, DirNames
<1>2. CASE Write
  <2>1. pc = "write" /\ good' = good /\ stamp \in Nat /\ job \in Generations
    BY <1>2 DEF Write, quiet, TInv, RestOK, DInv, Located
  <2>2. ASSUME NEW p, dirs' = [dirs EXCEPT !.next = With(@, Only(Stamped(job.files, stamp), {p}))],
               pc' = pc
        PROVE  TreesOK'
    <3>1. job.files \in TextsOver(Paths)
      BY <2>1, GenerationAssumption DEF Parsed
    <3>2. IsTree(With(dirs.next, Only(Stamped(job.files, stamp), {p})))
      BY <2>1, <3>1, StampedIsTree, PartIsTree, JoinedIsTree
    <3> QED BY <2>1, <2>2, <3>2, TreeIsThere DEF DirNames
  <2>3. CASE dirs' = [dirs EXCEPT !.prev = None] /\ pc' = "park"
    BY <2>1, <2>3 DEF DirNames
  <2>4. CASE dirs' = [dirs EXCEPT !.next = None] /\ pc' = "wait"
    BY <2>1, <2>4 DEF DirNames
  <2> QED BY <1>2, <2>2, <2>3, <2>4 DEF Write, Rejected, Return
<1>3. CASE Park
  <2>1. pc = "park" /\ good' = good
    BY <1>3 DEF Park, quiet
  <2>2. CASE dirs' = [dirs EXCEPT !.prev = dirs.live, !.live = None] /\ pc' = "promote"
    BY <2>1, <2>2 DEF DirNames
  <2>3. CASE dirs' = [dirs EXCEPT !.next = None] /\ pc' = "wait"
    BY <2>1, <2>3 DEF DirNames
  <2> QED BY <1>3, <2>2, <2>3 DEF Park, Rejected, Return
<1>4. CASE Promote
  <2>1. pc = "promote" /\ good' = good
    BY <1>4 DEF Promote, quiet
  <2>2. CASE dirs' = [dirs EXCEPT !.live = dirs.next, !.next = None] /\ pc' = "load"
    BY <2>1, <2>2 DEF DirNames
  <2>3. CASE dirs' = [dirs EXCEPT !.next = None, !.live = dirs.prev, !.prev = None] /\ pc' = "wait"
    BY <2>1, <2>3 DEF DirNames
  <2>4. CASE dirs' = [dirs EXCEPT !.next = None] /\ pc' = "wait"
    BY <2>1, <2>4 DEF DirNames
  <2> QED BY <1>4, <2>2, <2>3, <2>4 DEF Promote, Rejected, Return
<1>5. CASE Discard
  <2>1. pc = "discard" /\ good' = good
    BY <1>5 DEF Discard, quiet
  <2>2. ASSUME NEW p, dirs' = [dirs EXCEPT !.live = Only(@, (DOMAIN dirs.live) \ {p})], pc' = pc
        PROVE  TreesOK'
    <3>1. IsTree(Only(dirs.live, (DOMAIN dirs.live) \ {p}))
      BY <2>1, PartIsTree
    <3> QED BY <2>1, <2>2, <3>1, TreeIsThere DEF DirNames
  <2>3. CASE dirs' = [dirs EXCEPT !.live = None] /\ pc' = "restore"
    BY <2>1, <2>3 DEF DirNames
  <2> QED BY <1>5, <2>2, <2>3 DEF Discard
<1>6. CASE Restore
  <2>1. pc = "restore" /\ good' = good
    BY <1>6 DEF Restore, quiet
  <2>2. CASE dirs' = [dirs EXCEPT !.live = dirs.prev, !.prev = None] /\ pc' = "reload"
    BY <2>1, <2>2 DEF DirNames
  <2>3. CASE dirs' = dirs /\ pc' = "wait"
    BY <2>1, <2>3
  <2> QED BY <1>6, <2>2, <2>3 DEF Restore, Rejected, Return
<1> QED BY <1>1, <1>2, <1>3, <1>4, <1>5, <1>6

-----------------------------------------------------------------------------
\* The reads.
LEMMA OneReadOK ==
  ASSUME TInv, RInv, NEW r \in Readers, NEW x, ReadOK(x), rd' = [rd EXCEPT ![r] = x]
  PROVE  ReadsOK'
<1>1. \A s \in Readers : rd'[s] = IF s = r THEN x ELSE rd[s]
  BY DEF RInv
<1> QED BY <1>1 DEF TInv, ReadsOK

LEMMA ReadFailsOK ==
  ASSUME TInv, RInv, NEW r \in Readers, ReadFails(r)
  PROVE  ReadsOK'
<1> DEFINE x == [Idle EXCEPT !.step = IF r = Watcher THEN "failed" ELSE "idle"]
<1>1. ReadOK(x)
  BY NoFilesIsTree DEF Idle, ReadOK
<1> HIDE DEF x
<1>2. rd' = [rd EXCEPT ![r] = x]
  BY DEF ReadFails, x
<1> QED BY <1>1, <1>2, OneReadOK

\* What is found in a directory.
LEMMA GotIsTree ==
  ASSUME TInv, RInv, NEW r \in Readers, NEW path
  PROVE  /\ TreeOrNone(Tree(r))
         /\ IsTree(Got(r, path))
<1>1. rd[r].dir \in {"boot", "live"}
  BY DEF RInv, SoundRead
<1>2. TreeOrNone(Tree(r))
  BY <1>1 DEF Tree, TInv, TreesOK, TreeOrNone
<1> QED BY <1>2, NoFilesIsTree, PartIsTree DEF Got, TreeOrNone

LEMMA ListOK ==
  ASSUME TInv, RInv, NEW r \in Readers, List(r)
  PROVE  ReadsOK'
<1>1. CASE dirs[dir] = None
  BY <1>1, ReadFailsOK DEF List
<1>2. CASE dirs[dir] # None
  <2> DEFINE names == {p[1] : p \in DOMAIN dirs[dir]}
             x == [Idle EXCEPT !.step = "profile", !.dir = dir, !.names = names]
  <2>1. IsTree(dirs[dir])
    BY <1>2 DEF RInv, TInv, TreesOK, TreeOrNone
  <2>2. names \subseteq Names
    BY <2>1 DEF IsTree, Paths
  <2>3. ReadOK(x)
    <3> HIDE DEF names
    <3> QED BY <2>2, NoFilesIsTree DEF Idle, ReadOK
  <2>4. rd' = [rd EXCEPT ![r] = x]
    BY <1>2 DEF List
  <2> HIDE DEF x
  <2> QED BY <2>3, <2>4, OneReadOK
<1> QED BY <1>1, <1>2

LEMMA ReadProfileOK ==
  ASSUME TInv, RInv, NEW r \in Readers, ReadProfile(r)
  PROVE  ReadsOK'
<1> DEFINE y == rd[r]
           n == Min(y.names)
           new == Got(r, <<n, "profile.yaml">>)
           got == With(y.got, new)
           tail == y.names \ {n}
<1>1. ReadOK(y) /\ y = [f \in ReadFields |-> y[f]] /\ rd = [s \in Readers |-> rd[s]]
  BY DEF TInv, ReadsOK, RInv, SoundRead
<1>2. IsTree(got)
  BY <1>1, GotIsTree, JoinedIsTree DEF ReadOK
<1>3. \/ ReadFails(r)
      \/ rd' = [rd EXCEPT ![r].got = got, ![r].step = "page"]
      \/ rd' = [rd EXCEPT ![r].names = tail]
  BY DEF ReadProfile
<1> HIDE DEF y, got, tail
<1>4. CASE ReadFails(r)
  BY <1>4, ReadFailsOK
<1>5. CASE rd' = [rd EXCEPT ![r].got = got, ![r].step = "page"]
  <2> DEFINE x == [y EXCEPT !.got = got, !.step = "page"]
  <2>1. ReadOK(x)
    BY <1>1, <1>2 DEF ReadOK, ReadFields
  <2>2. rd' = [rd EXCEPT ![r] = x]
    BY <1>1, <1>5 DEF y
  <2> HIDE DEF x
  <2> QED BY <2>1, <2>2, OneReadOK
<1>6. CASE rd' = [rd EXCEPT ![r].names = tail]
  <2> DEFINE x == [y EXCEPT !.names = tail]
  <2>1. ReadOK(x)
    BY <1>1 DEF ReadOK, ReadFields, tail
  <2>2. rd' = [rd EXCEPT ![r] = x]
    BY <1>1, <1>6 DEF y
  <2> HIDE DEF x
  <2> QED BY <2>1, <2>2, OneReadOK
<1> QED BY <1>3, <1>4, <1>5, <1>6

LEMMA AttachPageOK ==
  ASSUME TInv, RInv, NEW r \in Readers, AttachPage(r)
  PROVE  ReadsOK'
<1> DEFINE y == rd[r]
           n == Min(y.names)
           new == Got(r, <<n, "captcha.html">>)
           got == With(y.got, new)
           tail == y.names \ {n}
<1>1. ReadOK(y) /\ y = [f \in ReadFields |-> y[f]] /\ rd = [s \in Readers |-> rd[s]]
  BY DEF TInv, ReadsOK, RInv, SoundRead
<1>2. IsTree(got)
  BY <1>1, GotIsTree, JoinedIsTree DEF ReadOK
<1>3. \/ ReadFails(r)
      \/ rd' = [rd EXCEPT ![r].got = got, ![r].step = "profile", ![r].names = tail]
  BY DEF AttachPage
<1> HIDE DEF y, got, tail
<1>4. CASE ReadFails(r)
  BY <1>4, ReadFailsOK
<1>5. CASE rd' = [rd EXCEPT ![r].got = got, ![r].step = "profile", ![r].names = tail]
  <2> DEFINE x == [y EXCEPT !.got = got, !.step = "profile", !.names = tail]
  <2>1. ReadOK(x)
    BY <1>1, <1>2 DEF ReadOK, ReadFields, tail
  <2>2. rd' = [rd EXCEPT ![r] = x]
    BY <1>1, <1>5 DEF y
  <2> HIDE DEF x
  <2> QED BY <2>1, <2>2, OneReadOK
<1> QED BY <1>3, <1>4, <1>5

LEMMA FingerprintOK ==
  ASSUME TInv, RInv, NEW r \in Readers, Fingerprint(r)
  PROVE  ReadsOK'
<1> DEFINE y == rd[r]
           tree == Tree(r)
           x == [y EXCEPT !.step = "store", !.fp = tree]
<1>1. ReadOK(y) /\ y = [f \in ReadFields |-> y[f]] /\ rd = [s \in Readers |-> rd[s]]
  BY DEF TInv, ReadsOK, RInv, SoundRead
<1>2. TreeOrNone(tree)
  BY GotIsTree
<1>3. \/ ReadFails(r)
      \/ tree # None /\ rd' = [rd EXCEPT ![r].step = "store", ![r].fp = tree]
  BY DEF Fingerprint
<1> HIDE DEF y, tree
<1>4. ASSUME tree # None, rd' = [rd EXCEPT ![r].step = "store", ![r].fp = tree]
      PROVE  ReadsOK'
  <2>1. ReadOK(x)
    BY <1>1, <1>2, <1>4 DEF ReadOK, ReadFields, TreeOrNone
  <2>2. rd' = [rd EXCEPT ![r] = x]
    BY <1>1, <1>4 DEF y
  <2> HIDE DEF x
  <2> QED BY <2>1, <2>2, OneReadOK
<1> QED BY <1>3, <1>4, ReadFailsOK

LEMMA StoreOK ==
  ASSUME TInv, RInv, NEW r \in Readers, Store(r)
  PROVE  ReadsOK' /\ SnapshotOK(cur')
<1> DEFINE x == [Idle EXCEPT !.step = IF r = Watcher THEN "done" ELSE "idle"]
<1>1. ReadOK(x)
  BY NoFilesIsTree DEF Idle, ReadOK
<1>2. rd' = [rd EXCEPT ![r] = x]
  BY DEF Store
<1>3. ReadsOK'
  <2> HIDE DEF x
  <2> QED BY <1>1, <1>2, OneReadOK
<1>4. ReadOK(rd[r])
  BY DEF TInv, ReadsOK
<1>5. SnapshotOK(cur')
  BY <1>4 DEF Store, SnapshotOK, ReadOK
<1> QED BY <1>3, <1>5

LEMMA DisturbedOK ==
  ASSUME TInv, RInv, NEW d, rd' = Disturbed(d)
  PROVE  ReadsOK'
<1> SUFFICES ASSUME NEW r \in Readers
             PROVE  ReadOK(rd'[r])
  BY DEF ReadsOK
<1> DEFINE y == rd[r]
<1>1. ReadOK(y) /\ y = [f \in ReadFields |-> y[f]]
  BY DEF TInv, ReadsOK, RInv, SoundRead
<1>2. rd'[r] = y \/ rd'[r] = [y EXCEPT !.still = FALSE]
  BY DEF Disturbed
<1> HIDE DEF y
<1>3. ReadOK([y EXCEPT !.still = FALSE])
  BY <1>1 DEF ReadOK, ReadFields
<1> QED BY <1>1, <1>2, <1>3

LEMMA ApplyReads ==
  ASSUME TInv, RInv, Apply
  PROVE  ReadsOK' /\ cur' = cur
<1>1. cur' = cur
  BY DEF Apply, Stage, Write, Park, Promote, ReloadFrom, Verified, NotUsable, Discard, Restore,
         PutBack, quiet, store
<1>2. CASE Moved
  BY <1>1, <1>2, DisturbedOK DEF Moved
<1>3. CASE rd' = rd
  BY <1>1, <1>3 DEF TInv, ReadsOK
<1>4. CASE rd' = [rd EXCEPT ![Watcher] = Idle]
  BY <1>1, <1>4, IdleIsOK, OneReadOK DEF Readers
<1>5. CASE ReloadFrom
  <2> DEFINE y == rd[Watcher]
             x == [y EXCEPT !.step = "list"]
  <2>1. ReadOK(y) /\ y = [f \in ReadFields |-> y[f]] /\ rd = [s \in Readers |-> rd[s]]
    BY DEF TInv, ReadsOK, RInv, SoundRead, Readers
  <2>2. rd' = [rd EXCEPT ![Watcher] = x]
    BY <1>5 DEF ReloadFrom
  <2>3. ReadOK(x)
    <3> HIDE DEF y
    <3> QED BY <2>1 DEF ReadOK, ReadFields
  <2> HIDE DEF x
  <2> QED BY <1>1, <2>2, <2>3, OneReadOK DEF Readers
<1>6. Stage \/ Write => rd' = rd
  BY DEF Stage, Write
<1>7. Park \/ Promote \/ Discard \/ Restore => Moved \/ rd' = rd
  BY DEF Park, Promote, Discard, Restore
<1>8. Verified \/ NotUsable \/ PutBack => rd' = [rd EXCEPT ![Watcher] = Idle]
  BY DEF Verified, NotUsable, PutBack, Ended
<1> QED BY <1>1, <1>2, <1>3, <1>4, <1>5, <1>6, <1>7, <1>8 DEF Apply

-----------------------------------------------------------------------------
\* The log of the controller, the watcher's locals, the counters.
LEMMA Numbers ==
  ASSUME TInv
  PROVE  /\ kv \in Seq(Generations \cup {Skipped}) /\ at \in Nat \ {0} /\ stamp \in Nat
         /\ crashes \in Nat /\ faults \in Nat /\ edits \in Nat
BY DEF TInv, RestOK

LEMMA FaultCounts ==
  ASSUME TInv, Fault \/ UNCHANGED faults
  PROVE  faults' \in Nat
BY Numbers DEF Fault

LEMMA PublishRest ==
  ASSUME TInv, NEW e \in Generations \cup {Skipped}, Publish(e)
  PROVE  RestOK'
<1>1. kv' \in Seq(Generations \cup {Skipped})
  BY Numbers DEF Publish
<1>2. UNCHANGED <<at, stamp, swap, applied, level, cut, bounds>>
  BY DEF Publish
<1> QED BY <1>1, <1>2 DEF TInv, RestOK, swap, bounds

LEMMA EditRest ==
  ASSUME TInv, NEW path, NEW text, Edit(path, text)
  PROVE  RestOK'
<1>1. edits' \in Nat
  BY Numbers DEF Edit
<1>2. UNCHANGED <<kv, at, stamp, swap, applied, level, cut, crashes, faults>>
  BY DEF Edit
<1> QED BY <1>1, <1>2 DEF TInv, RestOK, swap

LEMMA ReadsRest ==
  ASSUME TInv, UNCHANGED reads, Fault \/ UNCHANGED faults
  PROVE  RestOK'
<1>1. UNCHANGED <<kv, at, stamp, pc, job, lived, applied, level, cut, crashes, edits>>
  BY DEF reads, swap
<1> QED BY <1>1, FaultCounts DEF TInv, RestOK

LEMMA StartRest ==
  ASSUME TInv, Start
  PROVE  RestOK'
<1>1. /\ UNCHANGED <<kv, stamp, job, lived, applied, level, cut, crashes, edits>>
      /\ pc' = "wait" /\ (Fault \/ UNCHANGED faults)
  BY DEF Start
<1>2. at' \in Nat \ {0}
  <2>1. kv \in Seq(Generations \cup {Skipped}) /\ at' = IF kv = << >> THEN 1 ELSE Len(kv)
    BY DEF Start, TInv, RestOK
  <2> QED BY <2>1
<1> QED BY <1>1, <1>2, FaultCounts DEF TInv, RestOK

LEMMA CrashRest ==
  ASSUME TInv, Crash
  PROVE  RestOK'
<1>1. UNCHANGED <<kv, at, stamp, faults, edits>>
  BY DEF Crash
<1>2. crashes' \in Nat
  BY Numbers DEF Crash
<1>3. job' = None /\ pc' = "down" /\ level' \in Levels
  BY GenerationAssumption DEF Crash
<1>4. lived' \in BOOLEAN /\ cut' \in BOOLEAN
  BY ZenonT(60) DEF Crash, TInv, RestOK
<1>5. applied' \in [gen : Generations \cup {None}, apply : {"", "ok", "apply_failed"}]
  BY DEF Crash, NothingApplied
<1> QED BY <1>1, <1>2, <1>3, <1>4, <1>5 DEF TInv, RestOK

LEMMA ReceiveRest ==
  ASSUME TInv, Receive
  PROVE  RestOK'
<1>1. UNCHANGED <<kv, stamp, lived, applied, level, cut, bounds>>
  BY DEF Receive
<1>2. at' \in Nat \ {0}
  BY Numbers DEF Receive
<1>3. job' \in Generations \cup {None} /\ (pc' \notin {"down", "wait"} => job' # None)
  BY GenerationAssumption DEF Receive, TInv, RestOK
<1> QED BY <1>1, <1>2, <1>3 DEF TInv, RestOK, bounds

\* A step that ends Apply, with a failure or not.
LEMMA RejectedRest ==
  ASSUME TInv, Rejected
  PROVE  /\ job' = None /\ pc' = "wait" /\ lived' \in BOOLEAN
         /\ applied' \in [gen : Generations \cup {None}, apply : {"", "ok", "apply_failed"}]
<1>1. applied \in [gen : Generations \cup {None}, apply : {"", "ok", "apply_failed"}]
  BY DEF TInv, RestOK
<1>2. lived' \in BOOLEAN
  BY ZenonT(60) DEF Rejected, Return
<1> QED BY <1>1, <1>2 DEF Rejected, Return

LEMMA ApplyRest ==
  ASSUME TInv, DInv, Apply
  PROVE  RestOK'
<1>1. UNCHANGED <<kv, at, crashes, edits>>
  BY DEF Apply, Stage, Write, Park, Promote, ReloadFrom, Verified, NotUsable, Discard, Restore,
         PutBack, quiet, bounds
<1>2. faults' \in Nat
  BY FaultCounts
  DEF Apply, Stage, Write, Park, Promote, ReloadFrom, Verified, NotUsable, Discard, Restore,
      PutBack, bounds
<1>3. stamp' \in Nat
  BY Numbers
  DEF Apply, Stage, Write, Park, Promote, ReloadFrom, Verified, NotUsable, Discard, Restore,
      PutBack
<1>4. cut' \in BOOLEAN
  <2>1. cut' = cut \/ cut' = TRUE
    BY DEF Apply, Stage, Write, Park, Promote, ReloadFrom, Verified, NotUsable, Discard, Restore,
           PutBack
  <2> QED BY ZenonT(60), <2>1 DEF TInv, RestOK
<1>5. level' \in Levels
  <2>1. CASE Verified
    <3>1. job \in Generations
      BY <2>1 DEF Verified, DInv, Located
    <3> QED BY <2>1, <3>1, GenerationAssumption DEF Verified, LevelOf, Parsed, TInv, RestOK
  <2>2. CASE ~Verified
    BY <2>2 DEF Apply, Stage, Write, Park, Promote, ReloadFrom, NotUsable, Discard, Restore,
           PutBack, quiet, TInv, RestOK
  <2> QED BY <2>1, <2>2
<1>6. ASSUME job' = job, applied' = applied, lived' \in BOOLEAN, pc \notin {"down", "wait"}
      PROVE  RestOK'
  BY <1>1, <1>2, <1>3, <1>4, <1>5, <1>6 DEF TInv, RestOK
<1>7. CASE Rejected
  BY <1>1, <1>2, <1>3, <1>4, <1>5, <1>7, RejectedRest DEF TInv, RestOK
<1>8. CASE Verified
  <2>1. job \in Generations
    BY <1>8 DEF Verified, DInv, Located
  <2>2. applied' \in [gen : Generations \cup {None}, apply : {"", "ok", "apply_failed"}]
    BY <1>8, <2>1 DEF Verified
  <2>3. job' = None /\ pc' = "wait"
    BY <1>8 DEF Verified, Return
  <2>4. lived' \in BOOLEAN
    BY ZenonT(60), <1>8 DEF Verified, Return
  <2> QED BY <1>1, <1>2, <1>3, <1>4, <1>5, <2>2, <2>3, <2>4 DEF TInv, RestOK
<1>9. Stage \/ Write \/ Park \/ Promote \/ ReloadFrom \/ NotUsable \/ Discard \/ Restore \/ PutBack =>
        pc \notin {"down", "wait"}
  BY DEF Stage, Write, Park, Promote, ReloadFrom, NotUsable, Discard, Restore, PutBack
<1>10. Stage \/ Write \/ Promote \/ ReloadFrom \/ NotUsable \/ Discard \/ Restore \/ PutBack =>
         Rejected \/ UNCHANGED <<job, applied, lived>>
  BY DEF Stage, Write, Promote, ReloadFrom, NotUsable, Discard, Restore, PutBack, locals
<1>11. Park => Rejected \/ (UNCHANGED <<job, applied>> /\ lived' = (dirs.live # None))
  BY DEF Park, locals
<1>12. lived \in BOOLEAN /\ (dirs.live # None) \in BOOLEAN
  BY ZenonT(60) DEF TInv, RestOK
<1> QED BY <1>6, <1>7, <1>8, <1>9, <1>10, <1>11, <1>12, ZenonT(60) DEF Apply

-----------------------------------------------------------------------------
\* Everything that is not a step of Apply.
LEMMA ReadTypes ==
  ASSUME TInv, RInv, NEW r \in Readers, Read(r)
  PROVE  TInv'
<1>1. UNCHANGED reads /\ (Fault \/ UNCHANGED faults)
  BY DEF Read, List, ReadProfile, AttachPage, Fingerprint, Store
<1>2. RestOK'
  BY <1>1, ReadsRest
<1>3. TreesOK'
  BY <1>1, TreesElsewhere DEF reads, swap
<1>4. ReadsOK'
  BY ListOK, ReadProfileOK, AttachPageOK, FingerprintOK, StoreOK DEF Read
<1>5. SnapshotOK(cur')
  <2>1. Store(r) \/ cur' = cur
    BY DEF Read, List, ReadProfile, AttachPage, Fingerprint, store
  <2> QED BY <2>1, StoreOK DEF TInv
<1> QED BY <1>2, <1>3, <1>4, <1>5 DEF TInv

LEMMA ReloadTypes ==
  ASSUME TInv, RInv, NEW r \in Reloaders, Reload(r)
  PROVE  TInv'
<1>1. UNCHANGED <<reads, faults>> /\ cur' = cur
  BY DEF Reload, store
<1>2. RestOK' /\ TreesOK'
  BY <1>1, ReadsRest, TreesElsewhere DEF reads, swap
<1>3. ReadsOK'
  <2> DEFINE y == rd[r]
             x == [y EXCEPT !.step = "list"]
  <2>1. ReadOK(y) /\ y = [f \in ReadFields |-> y[f]] /\ rd = [s \in Readers |-> rd[s]]
    BY DEF TInv, ReadsOK, RInv, SoundRead, Readers
  <2>2. rd' = [rd EXCEPT ![r] = x]
    BY DEF Reload
  <2>3. ReadOK(x)
    <3> HIDE DEF y
    <3> QED BY <2>1 DEF ReadOK, ReadFields
  <2> HIDE DEF x
  <2> QED BY <2>2, <2>3, OneReadOK DEF Readers
<1> QED BY <1>1, <1>2, <1>3 DEF TInv

LEMMA StartSnapshot ==
  ASSUME TInv, Start
  PROVE  SnapshotOK(cur') /\ ReadsOK'
<1>1. PICK tree \in {dirs.boot, dirs.live} : IsTree(tree) /\ cur' = Snapshot(tree)
  BY DEF Start, TInv, TreesOK, TreeOrNone
<1>2. SnapshotOK(cur')
  BY <1>1, PartIsTree DEF Snapshot, Loaded, SnapshotOK
<1>3. rd' = rd
  BY DEF Start
<1> QED BY <1>2, <1>3 DEF TInv, ReadsOK

LEMMA CrashSnapshot ==
  ASSUME Crash
  PROVE  SnapshotOK(cur') /\ ReadsOK'
<1>1. cur' = NoSnapshot /\ rd' = Nobody
  BY DEF Crash
<1> QED BY <1>1, NoFilesIsTree, IdleIsOK DEF NoSnapshot, SnapshotOK, Nobody, ReadsOK

LEMMA TypesStep == TInv /\ DInv /\ RInv /\ [Next]_vars => TInv'
<1> SUFFICES ASSUME TInv, DInv, RInv, [Next]_vars
             PROVE  TInv'
  OBVIOUS
<1> USE DEF TInv
<1>1. ASSUME NEW e \in Generations \cup {Skipped}, Publish(e) PROVE TInv'
  <2>1. cur' = cur /\ rd' = rd /\ dirs' = dirs /\ good' = good /\ pc' = pc
    BY <1>1 DEF Publish, store, swap
  <2> QED BY <1>1, <2>1, PublishRest, TreesElsewhere DEF ReadsOK
<1>2. ASSUME NEW e \in Edits, Edit(e[1], e[2]) PROVE TInv'
  <2>1. cur' = cur /\ rd' = Disturbed("boot")
    BY <1>2 DEF Edit, store
  <2> QED BY <1>2, <2>1, EditTrees, EditRest, DisturbedOK
<1>3. CASE Start
  BY <1>3, SettledTrees, StartRest, StartSnapshot
<1>4. CASE Crash
  BY <1>4, SettledTrees, CrashRest, CrashSnapshot
<1>5. CASE Receive
  <2>1. cur' = cur /\ rd' = rd
    BY <1>5 DEF Receive, store
  <2> QED BY <1>5, <2>1, SettledTrees, ReceiveRest DEF ReadsOK
<1>6. CASE Apply
  <2>1. TreesOK'
    BY <1>6, SettledTrees, SwapTrees DEF Apply
  <2> QED BY <1>6, <2>1, ApplyReads, ApplyRest
<1>7. ASSUME NEW r \in Reloaders, Reload(r) PROVE TInv'
  BY <1>7, ReloadTypes
<1>8. ASSUME NEW r \in Readers, Read(r) PROVE TInv'
  BY <1>8, ReadTypes
<1>9. CASE UNCHANGED vars
  <2>1. UNCHANGED <<reads, faults>> /\ cur' = cur /\ rd' = rd
    BY <1>9 DEF vars, reads, store, bounds
  <2>2. RestOK' /\ TreesOK'
    BY <2>1, ReadsRest, TreesElsewhere DEF reads, swap
  <2> QED BY <2>1, <2>2 DEF ReadsOK
<1> QED BY <1>1, <1>2, <1>3, <1>4, <1>5, <1>6, <1>7, <1>8, <1>9 DEF Next

LEMMA DirsAreFour ==
  ASSUME dirs = [d \in DirNames |-> dirs[d]]
  PROVE  dirs = [boot |-> dirs.boot, live |-> dirs.live, next |-> dirs.next, prev |-> dirs.prev]
BY DEF DirNames

LEMMA ReadIsTyped ==
  ASSUME NEW x, ReadOK(x), SoundRead(x)
  PROVE  IsRead(x)
<1>1. x = [step |-> x.step, dir |-> x.dir, names |-> x.names, got |-> x.got, fp |-> x.fp,
           still |-> x.still]
  BY DEF SoundRead, ReadFields
<1> QED BY <1>1 DEF ReadOK, SoundRead, IsRead

\* The state is well typed, and Apply works on directories that are there
\* (desired.go, Apply), for any generations, names, edits, crashes and failures.
THEOREM TypeCorrect == Spec => []TypeOK
<1>1. TInv /\ DInv /\ RInv => TypeOK
  <2> SUFFICES ASSUME TInv, DInv, RInv
               PROVE  TypeOK
    OBVIOUS
  <2>1. rd \in [Readers -> {rd[r] : r \in Readers}] /\ \A r \in Readers : IsRead(rd[r])
    BY ReadIsTyped DEF TInv, ReadsOK, RInv
  <2>2. cur \in [files : {cur.files}, fp : {cur.fp}, still : BOOLEAN]
        /\ IsTree(cur.files) /\ IsTree(cur.fp)
    BY DEF TInv, SnapshotOK
  <2>3. \A d \in {"live", "next", "prev"} : dirs[d] = None \/ IsTree(dirs[d])
    BY DEF TInv, TreesOK, TreeOrNone
  <2>4. dirs = [boot |-> dirs.boot, live |-> dirs.live, next |-> dirs.next, prev |-> dirs.prev]
    BY DirsAreFour DEF DInv
  <2>5. IsTree(dirs.boot) /\ (good = None \/ IsTree(good))
        /\ (pc \in {"write", "park", "promote"} => dirs.next # None)
        /\ (pc \in {"load", "loading", "discard"} => dirs.live # None)
    BY DEF TInv, TreesOK, TreeOrNone
  <2>6. dir \in {"boot", "live"} /\ prevDir \in {"boot", "live"}
    BY DEF RInv
  <2>7. pc \in {"down", "wait", "stage", "write", "park", "reload", "reloading"} \cup InSwap
    BY DEF DInv
  <2>8. RestOK
    BY DEF TInv
  <2> QED BY <2>1, <2>2, <2>3, <2>4, <2>5, <2>6, <2>7, <2>8, ZenonT(60) DEF TypeOK, RestOK
<1> QED BY <1>1, TypesStart, TypesStep, DirsInvariant, ReadsInvariant, PTL DEF Spec
=============================================================================
