----------------------------- MODULE Generation -----------------------------
(***************************************************************************)
(* How a process gets its profiles: the generations of the controller      *)
(* (internal/desired/desired.go), the tree of files they become, and the   *)
(* snapshot read from it (internal/config/profiles.go), with the ticker    *)
(* and the SIGHUP that read the tree again beside the watcher.             *)
(*                                                                         *)
(* A tree is a function from paths to files; a path is <<profile, file>>.  *)
(* A file is its text and a stamp, new for every write: size and mtime     *)
(* (a generation's stamps are positive, an operator's negative).           *)
(* A text is Bad, or the part of a profile that all profiles of a process  *)
(* must share (roster and limits); a page shares nothing, it only parses.  *)
(* A rename is atomic; writing and removing a tree is not.  The walk of    *)
(* fingerprint is one step, and removing the process's own files succeeds. *)
(***************************************************************************)
EXTENDS Integers, Sequences, FiniteSets

CONSTANTS
  Names, Default,  \* profile names, as numbers that sort like the names
  Shared, Bad,     \* texts
  Generations,     \* [rev, files, level]: what the controller may publish
  Skipped,         \* any other entry: a delete, a value Parse rejects
  Shipped,         \* the texts of the profiles in the image
  Edits,           \* <<path, text>>: what an operator may write there
  Levels, LevelOfConfig, None,
  Reloaders,       \* the ticker, SIGHUP
  MaxPublished, MaxMishaps, MaxEdits    \* bounds; a mishap: a crash, a failed call

Paths == Names \X {"profile.yaml", "captcha.html"}
Texts == Shared \cup {Bad}
Files == [text : Texts, stamp : Int]
TextsOver(S) == UNION {[P -> Texts] : P \in SUBSET S}

\* What Parse lets through; the files of a profile are not looked into.
Parsed(g) ==
  /\ g.rev \in Nat \ {0} /\ g.level \in Levels \cup {None}
  /\ g.files \in TextsOver(Paths)
  /\ \E p \in DOMAIN g.files : p[1] = Default

ASSUME GenerationAssumption ==
  /\ Names \subseteq Nat /\ Default \in Names /\ IsFiniteSet(Names)
  /\ Bad \notin Shared /\ None \notin Levels /\ LevelOfConfig \in Levels
  /\ \A P \in SUBSET Paths : None \notin [P -> Files]
  /\ \A g \in Generations : Parsed(g)
  /\ {Skipped, None} \cap Generations = {} /\ Skipped # None
  /\ Shipped \in TextsOver(Paths)
  /\ Edits \subseteq (DOMAIN Shipped) \X Texts
  /\ {MaxPublished, MaxMishaps, MaxEdits} \subseteq Nat

VARIABLES
  kv, at,        \* the entries of the key; the next one for the watcher
  dirs, stamp,   \* the directories; the last stamp
  dir, cur,      \* config.Store
  rd,            \* the read each goroutine is in
  pc, job, lived, prevDir,   \* the watcher in Apply
  applied, level,
  \* History: the last tree a load was made of; whether a crash or a failed
  \* rename hit a swap; counts for the bounds.
  good, cut, crashes, faults, edits

store  == <<dir, cur>>
swap   == <<pc, job, lived, prevDir>>
bounds == <<crashes, faults, edits>>
vars   == <<kv, at, dirs, stamp, store, rd, swap, applied, level,
            good, cut, bounds>>

Watcher == "watcher"
Readers == Reloaders \cup {Watcher}

\* A tree written at one go, and a part of it.
Stamped(texts, s) == [p \in DOMAIN texts |-> [text |-> texts[p], stamp |-> s]]
Only(tree, S) == [p \in (DOMAIN tree) \cap S |-> tree[p]]
NoFiles == [p \in {} |-> None]

\* What read makes of a tree: profiles without a profile.yaml do not count.
Profiles(tree) == {n \in Names : <<n, "profile.yaml">> \in DOMAIN tree}
Loaded(tree) == Only(tree, Profiles(tree) \X {"profile.yaml", "captcha.html"})
Usable(tree) ==
  /\ Default \in Profiles(tree)
  /\ \A p \in DOMAIN Loaded(tree) : tree[p].text # Bad
  /\ \A n \in Profiles(tree) :
       tree[<<n, "profile.yaml">>].text = tree[<<Default, "profile.yaml">>].text

Idle == [step |-> "idle", dir |-> "boot", names |-> {}, got |-> NoFiles,
         fp |-> NoFiles, still |-> TRUE]
Nobody == [r \in Readers |-> Idle]
NoSnapshot == [files |-> NoFiles, fp |-> NoFiles, still |-> TRUE]
NothingApplied == [gen |-> None, apply |-> ""]

Init ==
  /\ kv = << >> /\ at = 1
  /\ dirs = [boot |-> Stamped(Shipped, 0), live |-> None, next |-> None,
             prev |-> None]
  /\ stamp = 0
  /\ dir = "boot" /\ cur = NoSnapshot
  /\ rd = Nobody
  /\ pc = "down" /\ job = None /\ lived = FALSE /\ prevDir = "boot"
  /\ applied = NothingApplied /\ level = LevelOfConfig
  /\ good = None /\ cut = FALSE
  /\ crashes = 0 /\ faults = 0 /\ edits = 0

\* A change of directory d under the reads that are in it (history).
Disturbed(d) ==
  [r \in Readers |->
     IF rd[r].step \in {"profile", "page"} /\ rd[r].dir = d
     THEN [rd[r] EXCEPT !.still = FALSE] ELSE rd[r]]

Fault == crashes + faults < MaxMishaps /\ faults' = faults + 1

(***************************************************************************)
(* The controller, the operator, the process itself.                       *)
(***************************************************************************)
Publish(e) ==
  /\ Len(kv) < MaxPublished
  /\ kv' = Append(kv, e)
  /\ UNCHANGED <<at, dirs, stamp, store, rd, swap, applied, level,
                 good, cut, bounds>>

Edit(path, text) ==
  /\ edits < MaxEdits
  /\ edits' = edits + 1
  /\ dirs' = [dirs EXCEPT !.boot[path] = [text |-> text, stamp |-> -edits']]
  /\ rd' = Disturbed("boot")
  /\ UNCHANGED <<kv, at, stamp, store, swap, applied, level, good, cut,
                 crashes, faults>>

Snapshot(tree) == [files |-> Loaded(tree), fp |-> tree, still |-> TRUE]

\* LoadProfiles of the shipped tree, then Bootstrap: the tree in the data
\* directory if it has a default profile and can be read.  Nothing runs yet.
Start ==
  /\ pc = "down" /\ Usable(dirs.boot)
  /\ pc' = "wait"
  /\ at' = IF kv = << >> THEN 1 ELSE Len(kv)
  /\ \/ /\ dirs.live # None /\ Usable(dirs.live)
        /\ dir' = "live" /\ cur' = Snapshot(dirs.live) /\ good' = dirs.live
        /\ UNCHANGED faults
     \/ /\ \/ dirs.live = None /\ UNCHANGED faults
           \/ dirs.live # None /\ ~Usable(dirs.live) /\ UNCHANGED faults
           \/ dirs.live # None /\ Fault
        /\ dir' = "boot" /\ cur' = Snapshot(dirs.boot)
        /\ UNCHANGED good
  /\ UNCHANGED <<kv, dirs, stamp, rd, job, lived, prevDir, applied, level,
                 cut, crashes, edits>>

InSwap == {"promote", "load", "loading", "discard", "restore"}

Crash ==
  /\ pc # "down" /\ crashes + faults < MaxMishaps
  /\ crashes' = crashes + 1
  /\ cut' = (cut \/ pc \in InSwap)
  /\ pc' = "down" /\ job' = None /\ lived' = FALSE /\ prevDir' = "boot"
  /\ dir' = "boot" /\ cur' = NoSnapshot
  /\ rd' = Nobody
  /\ applied' = NothingApplied /\ level' = LevelOfConfig
  /\ UNCHANGED <<kv, at, dirs, stamp, good, faults, edits>>

(***************************************************************************)
(* config.Store.read, step by step, for goroutine r.                       *)
(***************************************************************************)
\* Mutant: the directory is asked for again with every file.
TreeOfNow(r) == dirs[dir]
Tree(r) == dirs[rd[r].dir]
At(r, step) == pc # "down" /\ rd[r].step = step
Min(S) == CHOOSE n \in S : \A m \in S : n <= m

\* A failed read: the watcher looks at the error, a reload only logs it.
ReadFails(r) ==
  rd' = [rd EXCEPT ![r] = [Idle EXCEPT
           !.step = IF r = Watcher THEN "failed" ELSE "idle"]]

reads == <<kv, at, dirs, stamp, swap, applied, level, good, cut,
           crashes, edits>>

\* Mutant: the fingerprint is that of the names only.
ReloadByName(r) ==
  /\ At(r, "idle")
  /\ dirs[dir] # None /\ DOMAIN dirs[dir] # DOMAIN cur.fp
  /\ rd' = [rd EXCEPT ![r].step = "list"]
  /\ UNCHANGED <<reads, store, faults>>

\* Reload: nothing to do while the fingerprint is that of the snapshot.
Reload(r) ==
  /\ At(r, "idle")
  /\ dirs[dir] # None /\ dirs[dir] # cur.fp
  /\ rd' = [rd EXCEPT ![r].step = "list"]
  /\ UNCHANGED <<reads, store, faults>>

List(r) ==
  /\ At(r, "list")
  /\ IF dirs[dir] = None THEN ReadFails(r)
     ELSE rd' = [rd EXCEPT ![r] =
            [Idle EXCEPT !.step = "profile", !.dir = dir,
                         !.names = {p[1] : p \in DOMAIN dirs[dir]}]]
  /\ UNCHANGED <<reads, store, faults>>

\* One file of the next profile, as it is now; skipped when it is not there.
Got(r, path) ==
  IF Tree(r) # None /\ path \in DOMAIN Tree(r)
  THEN Only(Tree(r), {path}) ELSE NoFiles

With(tree, more) ==
  [p \in (DOMAIN tree) \cup (DOMAIN more) |->
     IF p \in DOMAIN more THEN more[p] ELSE tree[p]]

ReadProfile(r) ==
  /\ At(r, "profile") /\ rd[r].names # {}
  /\ LET n == Min(rd[r].names)
         new == Got(r, <<n, "profile.yaml">>)
     IN \/ /\ \E p \in DOMAIN new : new[p].text = Bad
           /\ ReadFails(r) /\ UNCHANGED faults
        \/ /\ DOMAIN new # {} /\ \A p \in DOMAIN new : new[p].text # Bad
           /\ rd' = [rd EXCEPT ![r].got = With(@, new), ![r].step = "page"]
           /\ UNCHANGED faults
        \/ /\ DOMAIN new = {}
           /\ rd' = [rd EXCEPT ![r].names = @ \ {n}]
           /\ UNCHANGED faults
        \/ Fault /\ ReadFails(r)
  /\ UNCHANGED <<reads, store>>

AttachPage(r) ==
  /\ At(r, "page")
  /\ LET n == Min(rd[r].names)
         new == Got(r, <<n, "captcha.html">>)
     IN \/ /\ \E p \in DOMAIN new : new[p].text = Bad
           /\ ReadFails(r) /\ UNCHANGED faults
        \/ /\ \A p \in DOMAIN new : new[p].text # Bad
           /\ rd' = [rd EXCEPT ![r].got = With(@, new), ![r].step = "profile",
                               ![r].names = @ \ {n}]
           /\ UNCHANGED faults
        \/ Fault /\ ReadFails(r)
  /\ UNCHANGED <<reads, store>>

\* What was read is checked, then the tree as it is now gives the fingerprint.
Fingerprint(r) ==
  /\ At(r, "profile") /\ rd[r].names = {}
  /\ IF Usable(rd[r].got) /\ Tree(r) # None
     THEN rd' = [rd EXCEPT ![r].step = "store", ![r].fp = Tree(r)]
     ELSE ReadFails(r)
  /\ UNCHANGED <<reads, store, faults>>

\* cur.Store, at the end of Reload or ReloadFrom.
Store(r) ==
  /\ At(r, "store")
  /\ cur' = [files |-> rd[r].got, fp |-> rd[r].fp, still |-> rd[r].still]
  /\ rd' = [rd EXCEPT ![r] = [Idle EXCEPT
              !.step = IF r = Watcher THEN "done" ELSE "idle"]]
  /\ UNCHANGED <<reads, dir, faults>>

(***************************************************************************)
(* The watcher: entries in the order of the key, one Apply at a time.      *)
(***************************************************************************)
Return == pc' = "wait" /\ job' = None /\ lived' = FALSE /\ prevDir' = "boot"
Rejected == applied' = [applied EXCEPT !.apply = "apply_failed"] /\ Return

\* Hash and revision of what was applied last, without a failure since.
InForce(g) == applied = [gen |-> g, apply |-> "ok"]

\* A generation may leave the level of the log as it is.
LevelOf(g) == IF g.level = None THEN level ELSE g.level

\* Mutant: only a greater revision is taken.
ReceiveNewer ==
  /\ pc = "wait" /\ at <= Len(kv)
  /\ at' = at + 1
  /\ LET e == kv[at]
     IN IF e \in Generations /\ (applied.gen = None \/ applied.gen.rev < e.rev)
        THEN pc' = "stage" /\ job' = e
        ELSE UNCHANGED <<pc, job>>
  /\ UNCHANGED <<kv, dirs, stamp, store, rd, lived, prevDir, applied, level,
                 good, cut, bounds>>

Receive ==
  /\ pc = "wait" /\ at <= Len(kv)
  /\ at' = at + 1
  /\ LET e == kv[at]
     IN IF e \in Generations /\ ~InForce(e)
        THEN pc' = "stage" /\ job' = e
        ELSE UNCHANGED <<pc, job>>
  /\ UNCHANGED <<kv, dirs, stamp, store, rd, lived, prevDir, applied, level,
                 good, cut, bounds>>

\* What no step of Apply up to the swap touches.
quiet  == <<kv, at, store, level, good, crashes, edits>>
locals == <<job, prevDir>>

\* Mutant: what an interrupted Apply left in .next is kept.
StageOver ==
  /\ pc = "stage"
  /\ dirs' = [dirs EXCEPT !.next = IF @ = None THEN NoFiles ELSE @]
  /\ stamp' = stamp + 1
  /\ pc' = "write"
  /\ UNCHANGED <<quiet, locals, lived, applied, rd, cut, faults>>

Stage ==
  /\ pc = "stage"
  /\ dirs' = [dirs EXCEPT !.next = NoFiles]
  /\ stamp' = stamp + 1
  /\ pc' = "write"
  /\ UNCHANGED <<quiet, locals, lived, applied, rd, cut, faults>>

\* Mutant: the error of write is not returned.
WriteGoesOn ==
  /\ pc = "write"
  /\ \/ \E p \in (DOMAIN job.files) \ (DOMAIN dirs.next) :
          /\ dirs' = [dirs EXCEPT !.next =
                       With(@, Only(Stamped(job.files, stamp), {p}))]
          /\ UNCHANGED <<pc, faults>>
     \/ /\ DOMAIN job.files = DOMAIN dirs.next
        /\ dirs' = [dirs EXCEPT !.prev = None]
        /\ pc' = "park"
        /\ UNCHANGED faults
     \/ Fault /\ dirs' = [dirs EXCEPT !.next = None] /\ pc' = "park"
  /\ UNCHANGED <<quiet, locals, lived, applied, stamp, rd, cut>>

\* Files in any order (a map); a failure removes what is there.
Write ==
  /\ pc = "write"
  /\ \/ \E p \in (DOMAIN job.files) \ (DOMAIN dirs.next) :
          /\ dirs' = [dirs EXCEPT !.next =
                       With(@, Only(Stamped(job.files, stamp), {p}))]
          /\ UNCHANGED <<pc, locals, lived, applied, faults>>
     \/ /\ DOMAIN job.files = DOMAIN dirs.next
        /\ dirs' = [dirs EXCEPT !.prev = None]
        /\ pc' = "park"
        /\ UNCHANGED <<locals, lived, applied, faults>>
     \/ /\ Fault /\ dirs' = [dirs EXCEPT !.next = None] /\ Rejected
  /\ UNCHANGED <<quiet, stamp, rd, cut>>

Moved == rd' = Disturbed("live")

Park ==
  /\ pc = "park"
  /\ \/ /\ dirs' = [dirs EXCEPT !.prev = dirs.live, !.live = None]
        /\ lived' = (dirs.live # None)
        /\ pc' = "promote" /\ Moved
        /\ UNCHANGED <<locals, applied, faults>>
     \/ /\ Fault /\ dirs' = [dirs EXCEPT !.next = None] /\ Rejected
        /\ UNCHANGED rd
  /\ UNCHANGED <<quiet, stamp, cut>>

\* Mutant: the old tree stays in .prev when the new one cannot take its place.
PromoteOnly ==
  /\ pc = "promote"
  /\ \/ /\ dirs' = [dirs EXCEPT !.live = dirs.next, !.next = None]
        /\ pc' = "load"
        /\ UNCHANGED <<locals, lived, applied, faults>>
     \/ Fault /\ Rejected /\ dirs' = [dirs EXCEPT !.next = None]
  /\ Moved
  /\ UNCHANGED <<quiet, stamp, cut>>

\* When the rename fails, so may the one that puts the old tree back.
Promote ==
  /\ pc = "promote"
  /\ \/ /\ dirs' = [dirs EXCEPT !.live = dirs.next, !.next = None]
        /\ pc' = "load"
        /\ UNCHANGED <<locals, lived, applied, faults, cut>>
     \/ /\ Fault /\ Rejected
        /\ dirs' = [dirs EXCEPT !.next = None, !.live = dirs.prev, !.prev = None]
        /\ UNCHANGED cut
     \/ /\ lived /\ Fault /\ Rejected
        /\ dirs' = [dirs EXCEPT !.next = None]
        /\ cut' = TRUE
  /\ Moved
  /\ UNCHANGED <<quiet, stamp>>

\* ReloadFrom(live): of the new tree, or of the old one that was put back.
ReloadFrom ==
  /\ pc \in {"load", "reload"}
  /\ prevDir' = dir /\ dir' = "live"
  /\ rd' = [rd EXCEPT ![Watcher].step = "list"]
  /\ pc' = IF pc = "load" THEN "loading" ELSE "reloading"
  /\ UNCHANGED <<kv, at, dirs, stamp, cur, job, lived, applied, level,
                 good, cut, bounds>>

Ended(step) == rd[Watcher].step = step /\ rd' = [rd EXCEPT ![Watcher] = Idle]

\* The end of Apply, applied.set and Settings.apply.
Verified ==
  /\ pc = "loading" /\ Ended("done")
  /\ good' = dirs.live
  /\ dirs' = [dirs EXCEPT !.prev = None]
  /\ applied' = [gen |-> job, apply |-> "ok"]
  /\ level' = LevelOf(job)
  /\ Return
  /\ UNCHANGED <<kv, at, stamp, store, cut, bounds>>

NotUsable ==
  /\ pc = "loading" /\ Ended("failed")
  /\ dir' = prevDir
  /\ pc' = "discard"
  /\ UNCHANGED <<kv, at, dirs, stamp, cur, job, lived, prevDir, applied, level,
                 good, cut, bounds>>

\* RemoveAll(live), a file at a time.
Discard ==
  /\ pc = "discard"
  /\ \/ \E p \in DOMAIN dirs.live :
          /\ dirs' = [dirs EXCEPT !.live = Only(@, (DOMAIN dirs.live) \ {p})]
          /\ UNCHANGED pc
     \/ /\ DOMAIN dirs.live = {}
        /\ dirs' = [dirs EXCEPT !.live = None]
        /\ pc' = "restore"
  /\ Moved
  /\ UNCHANGED <<quiet, stamp, locals, lived, applied, faults, cut>>

Restore ==
  /\ pc = "restore"
  /\ \/ /\ lived
        /\ dirs' = [dirs EXCEPT !.live = dirs.prev, !.prev = None]
        /\ pc' = "reload" /\ Moved
        /\ UNCHANGED <<locals, lived, applied, faults, cut>>
     \/ /\ lived /\ Fault /\ cut' = TRUE /\ Rejected
        /\ UNCHANGED <<dirs, rd>>
     \/ /\ ~lived /\ Rejected
        /\ UNCHANGED <<dirs, rd, faults, cut>>
  /\ UNCHANGED <<quiet, stamp>>

PutBack ==
  /\ pc = "reloading"
  /\ \/ Ended("done") /\ UNCHANGED dir
     \/ Ended("failed") /\ dir' = prevDir
  /\ Rejected
  /\ UNCHANGED <<kv, at, dirs, stamp, cur, level, good, cut, bounds>>

Read(r) == List(r) \/ ReadProfile(r) \/ AttachPage(r) \/ Fingerprint(r) \/ Store(r)
Apply ==
  \/ Stage \/ Write \/ Park \/ Promote \/ ReloadFrom \/ Verified
  \/ NotUsable \/ Discard \/ Restore \/ PutBack

Next ==
  \/ \E e \in Generations \cup {Skipped} : Publish(e)
  \/ \E e \in Edits : Edit(e[1], e[2])
  \/ Start \/ Crash \/ Receive \/ Apply
  \/ \E r \in Reloaders : Reload(r)
  \/ \E r \in Readers : Read(r)

Spec == Init /\ [][Next]_vars

\* The process is restarted, its goroutines run, and a failed read is retried
\* at the next tick; a failed call need not happen.
FairSpec ==
  /\ Spec
  /\ WF_vars(Start) /\ WF_vars(Receive) /\ WF_vars(Apply)
  /\ \A r \in Reloaders : WF_vars(Reload(r))
  /\ \A r \in Readers : WF_vars(Read(r))

-----------------------------------------------------------------------------
IsTree(t) == DOMAIN t \subseteq Paths /\ t \in [DOMAIN t -> Files]
IsRead(x) ==
  /\ x \in [step : {"idle", "list", "profile", "page", "store", "done", "failed"},
           dir : {"boot", "live"}, names : SUBSET Names, got : {x.got},
           fp : {x.fp}, still : BOOLEAN]
  /\ IsTree(x.got) /\ IsTree(x.fp)

\* The types, and where Apply is tied to the trees it works on: a staged tree
\* while it is written and until it is promoted, a live one while it is loaded
\* (desired.go, Apply).
TypeOK ==
  /\ kv \in Seq(Generations \cup {Skipped}) /\ at \in Nat \ {0}
  /\ dirs = [boot |-> dirs.boot, live |-> dirs.live, next |-> dirs.next,
             prev |-> dirs.prev]
  /\ \A d \in {"live", "next", "prev"} : dirs[d] = None \/ IsTree(dirs[d])
  /\ IsTree(dirs.boot) /\ stamp \in Nat
  /\ dir \in {"boot", "live"}
  /\ cur \in [files : {cur.files}, fp : {cur.fp}, still : BOOLEAN]
  /\ IsTree(cur.files) /\ IsTree(cur.fp)
  /\ rd \in [Readers -> {rd[r] : r \in Readers}] /\ \A r \in Readers : IsRead(rd[r])
  /\ pc \in {"down", "wait", "stage", "write", "park", "reload",
             "reloading"} \cup InSwap
  /\ job \in Generations \cup {None}
  /\ pc \notin {"down", "wait"} => job # None
  /\ pc \in {"write", "park", "promote"} => dirs.next # None
  /\ pc \in {"load", "loading", "discard"} => dirs.live # None
  /\ lived \in BOOLEAN /\ prevDir \in {"boot", "live"}
  /\ applied \in [gen : Generations \cup {None}, apply : {"", "ok", "apply_failed"}]
  /\ level \in Levels
  /\ (good = None \/ IsTree(good)) /\ cut \in BOOLEAN
  /\ crashes \in Nat /\ faults \in Nat /\ edits \in Nat

\* No directory of generations ever holds files of two of them, whatever
\* crashes and failures leave behind for the next Apply (desired.go, Apply and
\* write: .next and .prev survive a crash).
NoMixedTree ==
  \A d \in {"live", "next", "prev"} :
    dirs[d] # None =>
      \A p, q \in DOMAIN dirs[d] : dirs[d][p].stamp = dirs[d][q].stamp

\* A snapshot whose directory stood still while it was read is the whole of
\* one usable tree, and its fingerprint is that tree's: only a swap under a
\* read in progress can make a snapshot of two trees (profiles.go, read, run by
\* the ticker and by SIGHUP beside Apply).
StillReadIsWhole ==
  pc # "down" /\ cur.still => cur.files = Loaded(cur.fp) /\ Usable(cur.fp)

\* The last tree that was loaded is whole in the live directory, or beside it
\* while Apply tries another, unless a crash or a failed rename hit the swap:
\* a rejected generation does not cost the accepted one (desired.go, Apply).
AcceptedOnDisk ==
  ~cut /\ good # None =>
    /\ \E d \in {"live", "prev"} : dirs[d] = good
    /\ pc = "wait" => dirs.live = good

LastIsUsable ==
  /\ kv # << >> /\ kv[Len(kv)] \in Generations
  /\ Usable(Stamped(kv[Len(kv)].files, 0))

\* The snapshot in force is that of the directory: its fingerprint, and its
\* files too unless the tree was moved while they were read.
InStep ==
  /\ cur.fp = dirs[dir]
  /\ cur.still => cur.files = Loaded(dirs[dir])

\* The last published generation, if it can be used, is applied in the end and
\* the snapshot follows it, after crashes too.  A failed call may cost it, for
\* Apply is not retried, and shipped profiles that cannot be read keep the
\* process from starting at all (desired.go, Watch; main.go, LoadProfiles).
\* What a ticker read across the swap and stored after Apply may stay in force
\* in its place: see FollowsTree.
LastTakesEffect ==
  <>[](LastIsUsable /\ faults = 0 /\ Usable(dirs.boot) =>
         /\ InForce(kv[Len(kv)])
         /\ dir = "live" /\ dirs.live # None
         /\ [p \in DOMAIN dirs.live |-> dirs.live[p].text] = kv[Len(kv)].files
         /\ InStep)

\* The snapshot in force has, in the end, the fingerprint of the directory it
\* is read from, if that can be used, and is the whole of it unless the tree
\* was moved under the read: an older snapshot that a slow reload stores over a
\* newer one is found at a tick (profiles.go, Reload and Watch).  Not so a
\* mixed one.  Its fingerprint is taken after its files (profiles.go:283), so
\* it has the fingerprint of the new tree with files of the old one, no tick
\* finds it out, and it stays in force until the tree changes again.
FollowsTree ==
  <>[](dirs[dir] # None /\ Usable(dirs[dir]) => InStep)
=============================================================================
