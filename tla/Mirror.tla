------------------------------- MODULE Mirror -------------------------------
(***************************************************************************)
(* The mirror of one list (internal/livelist/livelist.go): the goroutine   *)
(* of the list (run) beside the NATS callback that fills its channel, the  *)
(* ticker of resync, and the keeper, which owns the list and is known here *)
(* by what the mirror expects of it.                                       *)
(*                                                                         *)
(* The keeper numbers the changes of an epoch; change s of epoch e is the   *)
(* package <<e, s>>, kept in Redis under s alone.  A diff frame announces  *)
(* it, with or without the package inside; a tick repeats the last number. *)
(* A hash is the XOR of a word for each entry, so it is the set of them.   *)
(***************************************************************************)
EXTENDS Integers, Sequences, FiniteSets

CONSTANTS
  Values,      \* what the list may contain
  Odd,         \* values whose hash keeper and mirror compute differently
  Exps, Absent,    \* expiry of an entry; no entry
  Edits,       \* what change s may do: <<s, value, expiry or Absent>>
  QueueDepth,  \* capacity of set.in
  PackagesPerRead,
  MaxEpoch, MaxSeq,   \* bounds: epochs, changes in an epoch
  MaxFaults    \* bound: failed calls, malformed data, restarts, lost packages

ASSUME MirrorAssumption ==
  /\ Odd \subseteq Values /\ Absent \notin Exps
  /\ Edits \subseteq (1..MaxSeq) \X Values \X (Exps \cup {Absent})
  /\ {QueueDepth, PackagesPerRead, MaxEpoch} \subseteq Nat \ {0}
  /\ {MaxSeq, MaxFaults} \subseteq Nat

VARIABLES
  kEpoch, kSeq,  \* the keeper's epoch and last change
  hist,          \* hist[e][s]: the list in epoch e after change s
  pkgs,          \* pkgs[s]: the epoch of the package in Redis; 0 if it is gone
  in,            \* set.in
  ready, epoch, seq, comp, hash, snapBad,   \* the mirror's set
  pc, todo,      \* where run is; what snapshot or catchUp works on
  faults

keeper == <<kEpoch, kSeq, hist, pkgs>>
set    == <<ready, epoch, seq, comp, hash, snapBad>>
vars   == <<keeper, in, set, pc, todo, faults>>

Contents == [Values -> Exps \cup {Absent}]
Empty    == [v \in Values |-> Absent]
Present(c) == {v \in Values : c[v] # Absent}

\* The words of the entries: the keeper's hash of a content.
KeeperHash(c) == {<<v, v \in Odd>> : v \in Present(c)}

Nothing == [upto |-> 0, objs |-> << >>, epoch |-> 0, seq |-> 0]

\* Ensure: subscribed, not ready, about to ask for a snapshot.
Init ==
  /\ kEpoch = 1 /\ kSeq = 0
  /\ hist = [e \in 1..MaxEpoch |-> [s \in 0..MaxSeq |-> Empty]]
  /\ pkgs = [s \in 1..MaxSeq |-> 0]
  /\ in = << >>
  /\ ready = FALSE /\ epoch = 0 /\ seq = 0 /\ comp = Empty /\ hash = {}
  /\ snapBad = FALSE
  /\ pc = "request" /\ todo = Nothing
  /\ faults = 0

-----------------------------------------------------------------------------
(* The keeper and the bus. *)

\* Something goes wrong.
Fault == faults < MaxFaults /\ faults' = faults + 1

\* Mutant: the callback does not mind the capacity.
Boundless(f) == in' = Append(in, f)

\* The callback of the subscription: a full channel drops the frame.
Deliver(f) == in' = IF Len(in) < QueueDepth THEN Append(in, f) ELSE in

Frame(op, e, s, inline) == [op |-> op, epoch |-> e, seq |-> s, inline |-> inline]

\* The list changes in one entry; the bus may lose the frame.
Change(v, x, inline) ==
  /\ kSeq < MaxSeq /\ hist[kEpoch][kSeq][v] # x
  /\ kSeq' = kSeq + 1
  /\ hist' = [hist EXCEPT ![kEpoch][kSeq + 1] = [hist[kEpoch][kSeq] EXCEPT ![v] = x]]
  /\ pkgs' = [pkgs EXCEPT ![kSeq + 1] = kEpoch]
  /\ Deliver(Frame("diff", kEpoch, kSeq + 1, inline)) \/ UNCHANGED in
  /\ UNCHANGED <<kEpoch, set, pc, todo, faults>>

\* A package is dropped from Redis.
Expire(s) ==
  /\ pkgs[s] # 0 /\ Fault
  /\ pkgs' = [pkgs EXCEPT ![s] = 0]
  /\ UNCHANGED <<kEpoch, kSeq, hist, in, set, pc, todo>>

\* The keeper starts again, with the list or without; old packages stay.
NewEpoch ==
  /\ kEpoch < MaxEpoch
  /\ kEpoch' = kEpoch + 1 /\ kSeq' = 0
  /\ \E c \in {hist[kEpoch][kSeq], Empty} : hist' = [hist EXCEPT ![kEpoch + 1][0] = c]
  /\ UNCHANGED <<pkgs, in, set, pc, todo, faults>>

KeeperTick ==
  /\ Len(in) < QueueDepth
  /\ Deliver(Frame("tick", kEpoch, kSeq, FALSE))
  /\ UNCHANGED <<keeper, set, pc, todo, faults>>

\* resync: a mirror that is not ready wakes its goroutine.
Resync ==
  /\ ~ready /\ Len(in) < QueueDepth
  /\ Deliver(Frame("resync", 0, 0, FALSE))
  /\ UNCHANGED <<keeper, set, pc, todo, faults>>

-----------------------------------------------------------------------------
(* Parts of the goroutine's steps. *)

Rest(bad) == pc' = "idle" /\ todo' = Nothing /\ snapBad' = bad

\* A call of snapshot ends where it begins after a bad one; it is always the
\* last thing its caller does.
Snapshot == IF snapBad THEN Rest(TRUE)
            ELSE pc' = "request" /\ todo' = Nothing /\ UNCHANGED snapBad

\* verify against the hash of <<e, s>>, then proceed or take a snapshot.
Verify(h, e, s, Proceed) == IF h = KeeperHash(hist[e][s]) THEN Proceed ELSE Snapshot

\* Mutant: every record of a package changes the hash.
ToggledAlways(v, x) == TRUE

\* composition.apply: only an entry that comes or goes changes the hash.
Toggled(v, x) == (comp[v] = Absent) # (x = Absent)

\* The records of a package, as unpack returns them.
Records(e, s) == {v \in Values : hist[e][s][v] # hist[e][s-1][v]}

\* Mutant: a package is not asked for its epoch.
FitsAny(e) == TRUE

Fits(e) == e = epoch

\* applyPackage with the package of epoch e and the next number: malformed data
\* and a package of another epoch lead to a snapshot, a good one is applied, its
\* number taken over, then its hash compared.
ApplyPackage(e, Proceed) ==
  \/ Fault /\ Snapshot /\ UNCHANGED <<ready, epoch, seq, comp, hash>>
  \/ /\ ~Fits(e)
     /\ Snapshot /\ UNCHANGED <<ready, epoch, seq, comp, hash, faults>>
  \/ /\ Fits(e)
     /\ LET recs == Records(e, seq + 1)
            flip == {<<v, FALSE>> : v \in {r \in recs : Toggled(r, hist[e][seq + 1][r])}}
        IN
        /\ comp' = [v \in Values |-> IF v \in recs THEN hist[e][seq + 1][v] ELSE comp[v]]
        /\ hash' = (hash \ flip) \cup (flip \ hash)
     /\ seq' = seq + 1
     /\ Verify(hash', e, seq + 1, Proceed)
     /\ UNCHANGED <<ready, epoch, faults>>

-----------------------------------------------------------------------------
(* onFrame. *)

Receive == pc = "idle" /\ in # << >> /\ in' = Tail(in)

\* Mutant: only diffs show that the mirror is behind.
BehindDiff(f) == f.op = "diff" /\ f.seq > seq

Behind(f) == f.seq > seq

\* Before the first snapshot, or after the keeper's restart.
OnStrange(f) ==
  /\ Receive
  /\ \/ ~ready /\ Snapshot
     \/ /\ ready /\ f.op # "resync" /\ f.epoch # epoch
        /\ snapBad' = FALSE /\ pc' = "request" /\ todo' = Nothing
  /\ UNCHANGED <<keeper, ready, epoch, seq, comp, hash, faults>>

\* A late frame, a stray resync, or news of the number the mirror is at.
OnKnown(f) ==
  /\ Receive
  /\ ready /\ (f.op = "resync" \/ f.epoch = epoch) /\ ~Behind(f)
  /\ IF f.op # "resync" /\ f.seq = seq THEN Verify(hash, epoch, seq, Rest(snapBad))
     ELSE Rest(snapBad)
  /\ UNCHANGED <<keeper, ready, epoch, seq, comp, hash, faults>>

\* The next package, inside its frame.
OnInline(f) ==
  /\ Receive
  /\ ready /\ f.op # "resync" /\ f.epoch = epoch
  /\ f.inline /\ f.seq = seq + 1
  /\ ApplyPackage(f.epoch, Rest(snapBad))
  /\ UNCHANGED keeper

\* Anything further, and a frame whose package cannot be decoded: catchUp starts.
OnBehind(f) ==
  /\ Receive
  /\ ready /\ f.op # "resync" /\ f.epoch = epoch /\ Behind(f)
  /\ IF f.inline /\ f.seq = seq + 1 THEN Fault ELSE UNCHANGED faults
  /\ pc' = "catch" /\ todo' = [Nothing EXCEPT !.upto = f.seq]
  /\ UNCHANGED <<keeper, set>>

OnFrame ==
  /\ in # << >>
  /\ LET f == Head(in) IN OnStrange(f) \/ OnKnown(f) \/ OnInline(f) \/ OnBehind(f)

-----------------------------------------------------------------------------
(* catchUp and snapshot, one action per answer of Redis or of the keeper. *)

\* Objects: a batch of packages, those that are gone as 0.
ReadPackages ==
  /\ pc = "catch"
  /\ \/ Fault /\ Rest(snapBad)
     \/ /\ LET left == todo.upto - seq
               n == IF left < PackagesPerRead THEN left ELSE PackagesPerRead IN
           todo' = [todo EXCEPT !.objs = [i \in 1..n |-> pkgs[seq + i]]]
        /\ pc' = "apply"
        /\ UNCHANGED <<snapBad, faults>>
  /\ UNCHANGED <<keeper, in, ready, epoch, seq, comp, hash>>

\* The rest of the batch, the next batch, or the end of the loop, where the hash
\* is the last package's, compared already.
Continue ==
  /\ UNCHANGED snapBad
  /\ IF Len(todo.objs) > 1
       THEN pc' = "apply" /\ todo' = [todo EXCEPT !.objs = Tail(@)]
       ELSE IF seq + 1 < todo.upto
              THEN pc' = "catch" /\ todo' = [todo EXCEPT !.objs = << >>]
              ELSE pc' = "idle" /\ todo' = Nothing

ApplyNext ==
  /\ pc = "apply"
  /\ IF Head(todo.objs) = 0
       THEN Snapshot /\ UNCHANGED <<ready, epoch, seq, comp, hash, faults>>
       ELSE ApplyPackage(Head(todo.objs), Continue)
  /\ UNCHANGED <<keeper, in>>

\* The keeper stores a snapshot and answers with its place, or does not.
Request ==
  /\ pc = "request"
  /\ \/ Fault /\ Rest(snapBad)
     \/ /\ pc' = "fetch"
        /\ todo' = [Nothing EXCEPT !.epoch = kEpoch, !.seq = kSeq]
        /\ UNCHANGED <<snapBad, faults>>
  /\ UNCHANGED <<keeper, in, ready, epoch, seq, comp, hash>>

\* Object: the snapshot is unavailable, gone or malformed, or it takes the place
\* of the set, also if its hash cannot be reproduced.
Fetch ==
  /\ pc = "fetch"
  /\ \/ Fault /\ Rest(snapBad) /\ UNCHANGED <<ready, epoch, seq, comp, hash>>
     \/ LET c == hist[todo.epoch][todo.seq] IN
        /\ ready' = TRUE /\ epoch' = todo.epoch /\ seq' = todo.seq
        /\ comp' = c /\ hash' = Present(c) \X {FALSE}
        /\ Rest(hash' # KeeperHash(c))
        /\ UNCHANGED faults
  /\ UNCHANGED <<keeper, in>>

\* The process stops and starts again.
Restart ==
  /\ Fault
  /\ in' = << >>
  /\ ready' = FALSE /\ epoch' = 0 /\ seq' = 0 /\ comp' = Empty /\ hash' = {}
  /\ snapBad' = FALSE
  /\ pc' = "request" /\ todo' = Nothing
  /\ UNCHANGED keeper

-----------------------------------------------------------------------------
Run == OnFrame \/ ReadPackages \/ ApplyNext \/ Request \/ Fetch

Next ==
  \/ \E edit \in Edits, inline \in BOOLEAN :
       edit[1] = kSeq + 1 /\ Change(edit[2], edit[3], inline)
  \/ \E s \in 1..MaxSeq : Expire(s)
  \/ NewEpoch \/ KeeperTick \/ Resync
  \/ Run \/ Restart

Spec == Init /\ [][Next]_vars

\* The goroutine of the set runs, its ticker ticks, and so does the keeper's.
Fairness == WF_vars(Run) /\ WF_vars(Resync) /\ WF_vars(KeeperTick)
FairSpec == Spec /\ Fairness

-----------------------------------------------------------------------------
(* Properties. *)

Frames == [op : {"diff", "tick", "resync"}, epoch : 0..MaxEpoch,
           seq : 0..MaxSeq, inline : BOOLEAN]
Work   == [upto : 0..MaxSeq, objs : Seq(0..MaxEpoch),
           epoch : 0..MaxEpoch, seq : 0..MaxSeq]

\* The types of keeper, channel and set; the channel keeps to its capacity, and
\* what catchUp still has to apply ends at the number it was called for.
TypeOK ==
  /\ kEpoch \in 1..MaxEpoch /\ kSeq \in 0..MaxSeq
  /\ hist \in [1..MaxEpoch -> [0..MaxSeq -> Contents]]
  /\ pkgs \in [1..MaxSeq -> 0..MaxEpoch]
  /\ in \in Seq(Frames) /\ Len(in) <= QueueDepth
  /\ ready \in BOOLEAN /\ snapBad \in BOOLEAN /\ faults \in 0..MaxFaults
  /\ epoch \in 0..MaxEpoch /\ seq \in 0..MaxSeq
  /\ comp \in Contents /\ hash \subseteq Values \X {FALSE}
  /\ pc \in {"idle", "request", "fetch", "catch", "apply"}
  /\ todo \in Work
  /\ pc = "catch" => ready /\ seq < todo.upto /\ todo.objs = << >>
  /\ pc = "apply" => ready /\ todo.objs # << >> /\ seq + Len(todo.objs) <= todo.upto
  /\ pc = "fetch" => todo.epoch # 0
  /\ ready => epoch # 0

\* What readers of the mirror see is the keeper's list, with its expiries, as it
\* was at the epoch and number the mirror claims: no gap, no package of an older
\* epoch under the same key, no half-read snapshot (livelist.go:438-583, 685).
SeesKeeperList == ready => comp = hist[epoch][seq]

\* The hash that packages update entry by entry is the hash of the list from
\* scratch, so a mismatch tells of the list and not of the way it was reached
\* (livelist.go:134-171), and the mirror gives up on snapshots only in an epoch
\* that had a value it hashes differently (livelist.go:677-690).
HashIsOfList ==
  /\ hash = Present(comp) \X {FALSE}
  /\ snapBad => \E s \in 0..seq : Present(hist[epoch][s]) \cap Odd # {}

\* Once nothing changes and nothing fails any more, the mirror comes to the
\* keeper's list and stays, whatever frames were lost, packages expired and
\* snapshots failed before; or it gave up after a bad snapshot (438-553, 700).
InStep == ready /\ epoch = kEpoch /\ seq = kSeq /\ comp = hist[kEpoch][kSeq]
Converges == <>[](InStep \/ snapBad)
=============================================================================
