---------------------------- MODULE MirrorProofs ----------------------------
(***************************************************************************)
(* Type correctness of the list mirror; readers see the keeper's list as   *)
(* it was at the mirror's epoch and number, and its hash is that list's:   *)
(* for lists, queues, batches, epochs and failures of any size.            *)
(***************************************************************************)
EXTENDS Mirror, SequenceTheorems, TLAPS

LEMMA Bounds ==
  /\ QueueDepth \in Nat \ {0} /\ PackagesPerRead \in Nat \ {0}
  /\ MaxEpoch \in Nat \ {0} /\ MaxSeq \in Nat /\ MaxFaults \in Nat
  /\ Edits \subseteq (1..MaxSeq) \X Values \X (Exps \cup {Absent})
BY MirrorAssumption

(* The parts of TypeOK, by who disturbs them. *)
KeeperOK ==
  /\ kEpoch \in 1..MaxEpoch /\ kSeq \in 0..MaxSeq
  /\ hist \in [1..MaxEpoch -> [0..MaxSeq -> Contents]]
  /\ pkgs \in [1..MaxSeq -> 0..MaxEpoch]
ChannelOK == in \in Seq(Frames) /\ Len(in) <= QueueDepth
SetOK ==
  /\ ready \in BOOLEAN /\ snapBad \in BOOLEAN /\ faults \in 0..MaxFaults
  /\ epoch \in 0..MaxEpoch /\ seq \in 0..MaxSeq
  /\ comp \in Contents /\ hash \subseteq Values \X {FALSE}
  /\ ready => epoch # 0
WorkOK ==
  /\ pc \in {"idle", "request", "fetch", "catch", "apply"}
  /\ todo \in Work
  /\ pc = "catch" => ready /\ seq < todo.upto /\ todo.objs = << >>
  /\ pc = "apply" => ready /\ todo.objs # << >> /\ seq + Len(todo.objs) <= todo.upto
  /\ pc = "fetch" => todo.epoch # 0

LEMMA Parts == TypeOK <=> KeeperOK /\ ChannelOK /\ SetOK /\ WorkOK
BY DEF TypeOK, KeeperOK, ChannelOK, SetOK, WorkOK

LEMMA NothingType == Nothing \in Work /\ Nothing.objs = << >>
BY Bounds, EmptySeq DEF Nothing, Work

LEMMA EmptyType == Empty \in Contents
BY DEF Empty, Contents

LEMMA SeqOfFunction ==
  ASSUME NEW S, NEW n \in Nat, NEW g \in [1..n -> S]
  PROVE  g \in Seq(S) /\ Len(g) = n
BY SeqDef, LenProperties

LEMMA DeliverType ==
  ASSUME ChannelOK, NEW f \in Frames, Deliver(f)
  PROVE  /\ ChannelOK'
         /\ in' = in \/ in' = Append(in, f)
<1>1. CASE Len(in) < QueueDepth
  <2>1. in' = Append(in, f)
    BY <1>1 DEF Deliver
  <2>2. in' \in Seq(Frames) /\ Len(in') = Len(in) + 1 /\ Len(in) \in Nat
    BY <2>1, AppendProperties, LenProperties DEF ChannelOK
  <2> QED BY <1>1, <2>1, <2>2, Bounds DEF ChannelOK
<1>2. CASE ~(Len(in) < QueueDepth)
  BY <1>2 DEF Deliver, ChannelOK
<1> QED BY <1>1, <1>2

LEMMA ReceiveType ==
  ASSUME ChannelOK, Receive
  PROVE  ChannelOK' /\ Head(in) \in Frames
<1>1. Head(in) \in Frames /\ in' \in Seq(Frames) /\ Len(in') = Len(in) - 1
  BY HeadTailProperties DEF Receive, ChannelOK
<1>2. Len(in) \in Nat
  BY LenProperties DEF ChannelOK
<1> QED BY <1>1, <1>2, Bounds DEF ChannelOK

\* The ways a step of the goroutine ends.
LEMMA RestType ==
  ASSUME NEW bad \in BOOLEAN, Rest(bad)
  PROVE  WorkOK' /\ snapBad' \in BOOLEAN
BY NothingType DEF Rest, WorkOK

LEMMA SnapshotType ==
  ASSUME SetOK, Snapshot
  PROVE  WorkOK' /\ snapBad' \in BOOLEAN /\ pc' \in {"idle", "request"}
<1>1. CASE snapBad
  BY <1>1, RestType DEF Snapshot, Rest
<1>2. CASE ~snapBad
  BY <1>2, NothingType DEF Snapshot, WorkOK, SetOK
<1> QED BY <1>1, <1>2

LEMMA FaultType == faults \in 0..MaxFaults /\ Fault => faults' \in 0..MaxFaults
BY Bounds DEF Fault

\* What applying a package makes of the list and its hash.
LEMMA AppliedType ==
  ASSUME SetOK, KeeperOK, NEW e \in 1..MaxEpoch, seq + 1 \in 1..MaxSeq,
         NEW recs, NEW flip, recs = Records(e, seq + 1),
         flip = {<<v, FALSE>> : v \in {r \in recs : Toggled(r, hist[e][seq + 1][r])}}
  PROVE  /\ [v \in Values |-> IF v \in recs THEN hist[e][seq + 1][v] ELSE comp[v]]
              \in Contents
         /\ (hash \ flip) \cup (flip \ hash) \subseteq Values \X {FALSE}
<1>1. recs \subseteq Values
  BY DEF Records
<1>2. hist[e][seq + 1] \in Contents
  BY Bounds DEF KeeperOK
<1>3. ASSUME NEW p \in flip PROVE p \in Values \X {FALSE}
  <2>1. PICK v \in recs : p = <<v, FALSE>>
    OBVIOUS
  <2> QED BY <1>1, <2>1
<1> QED BY <1>2, <1>3 DEF SetOK, Contents

LEMMA ContinueType ==
  ASSUME WorkOK, SetOK, pc = "apply", Continue, seq' = seq + 1, ready' = ready
  PROVE  WorkOK' /\ snapBad' \in BOOLEAN
<1>1. todo.objs \in Seq(0..MaxEpoch) /\ todo.objs # << >>
  BY DEF WorkOK, Work
<1>2. /\ Tail(todo.objs) \in Seq(0..MaxEpoch)
      /\ Len(Tail(todo.objs)) = Len(todo.objs) - 1 /\ Len(todo.objs) \in Nat
  BY <1>1, HeadTailProperties, LenProperties
<1>3. snapBad' \in BOOLEAN
  BY DEF Continue, SetOK
<1>4. CASE Len(todo.objs) > 1
  <2>1. pc' = "apply" /\ todo' = [todo EXCEPT !.objs = Tail(todo.objs)]
    BY <1>4 DEF Continue
  <2>2. todo' \in Work /\ todo'.objs = Tail(todo.objs) /\ todo'.upto = todo.upto
    BY <1>2, <2>1 DEF WorkOK, Work
  <2>3. Tail(todo.objs) # << >>
    BY <1>2, <1>4, EmptySeq, LenProperties
  <2> QED BY SMTT(30), <1>2, <1>3, <2>1, <2>2, <2>3 DEF WorkOK, SetOK, Work
<1>5. CASE ~(Len(todo.objs) > 1) /\ seq + 1 < todo.upto
  <2>1. pc' = "catch" /\ todo' = [todo EXCEPT !.objs = << >>]
    BY <1>5 DEF Continue
  <2>2. todo' \in Work /\ todo'.objs = << >> /\ todo'.upto = todo.upto
    BY <2>1, EmptySeq DEF WorkOK, Work
  <2> QED BY <1>3, <1>5, <2>1, <2>2 DEF WorkOK
<1>6. CASE ~(Len(todo.objs) > 1) /\ ~(seq + 1 < todo.upto)
  BY <1>3, <1>6, NothingType DEF Continue, WorkOK
<1> QED BY <1>4, <1>5, <1>6

LEMMA ApplyPackageRest ==
  ASSUME SetOK, KeeperOK, NEW e \in 1..MaxEpoch, seq + 1 \in 1..MaxSeq,
         ApplyPackage(e, Rest(snapBad))
  PROVE  SetOK' /\ WorkOK'
<1>1. CASE Fault /\ Snapshot /\ UNCHANGED <<ready, epoch, seq, comp, hash>>
  BY <1>1, SnapshotType, FaultType DEF SetOK
<1>2. CASE Snapshot /\ UNCHANGED <<ready, epoch, seq, comp, hash, faults>>
  BY <1>2, SnapshotType DEF SetOK
<1>3. CASE Fits(e) /\ ~(Fault /\ Snapshot /\ UNCHANGED <<ready, epoch, seq, comp, hash>>)
  <2> DEFINE recs == Records(e, seq + 1)
             flip == {<<v, FALSE>> : v \in {r \in recs : Toggled(r, hist[e][seq + 1][r])}}
  <2>0. /\ comp' = [v \in Values |-> IF v \in recs THEN hist[e][seq + 1][v] ELSE comp[v]]
        /\ hash' = (hash \ flip) \cup (flip \ hash)
    BY <1>3 DEF ApplyPackage
  <2>1. comp' \in Contents /\ hash' \subseteq Values \X {FALSE}
    <3> HIDE DEF recs, flip
    <3>1. recs = Records(e, seq + 1)
      BY DEF recs
    <3>2. flip = {<<v, FALSE>> : v \in {r \in recs : Toggled(r, hist[e][seq + 1][r])}}
      BY DEF flip
    <3> QED BY <2>0, <3>1, <3>2, AppliedType
  <2>2. seq' = seq + 1 /\ UNCHANGED <<ready, epoch, faults>>
    BY <1>3 DEF ApplyPackage
  <2>3. Rest(snapBad) \/ Snapshot
    BY <1>3 DEF ApplyPackage, Verify
  <2>4. WorkOK' /\ snapBad' \in BOOLEAN
    BY <2>3, RestType, SnapshotType DEF SetOK
  <2>5. seq' \in 0..MaxSeq /\ epoch' = epoch /\ ready' = ready /\ faults' = faults
    BY <2>2, Bounds
  <2> HIDE DEF recs, flip
  <2> QED BY <2>1, <2>4, <2>5 DEF SetOK
<1> QED BY <1>1, <1>2, <1>3 DEF ApplyPackage

LEMMA ApplyPackageContinue ==
  ASSUME SetOK, KeeperOK, WorkOK, pc = "apply",
         NEW e \in 1..MaxEpoch, seq + 1 \in 1..MaxSeq, ApplyPackage(e, Continue)
  PROVE  SetOK' /\ WorkOK'
<1>1. CASE Fault /\ Snapshot /\ UNCHANGED <<ready, epoch, seq, comp, hash>>
  BY <1>1, SnapshotType, FaultType DEF SetOK
<1>2. CASE Snapshot /\ UNCHANGED <<ready, epoch, seq, comp, hash, faults>>
  BY <1>2, SnapshotType DEF SetOK
<1>3. CASE Fits(e) /\ ~(Fault /\ Snapshot /\ UNCHANGED <<ready, epoch, seq, comp, hash>>)
  <2> DEFINE recs == Records(e, seq + 1)
             flip == {<<v, FALSE>> : v \in {r \in recs : Toggled(r, hist[e][seq + 1][r])}}
  <2>0. /\ comp' = [v \in Values |-> IF v \in recs THEN hist[e][seq + 1][v] ELSE comp[v]]
        /\ hash' = (hash \ flip) \cup (flip \ hash)
    BY <1>3 DEF ApplyPackage
  <2>1. comp' \in Contents /\ hash' \subseteq Values \X {FALSE}
    <3> HIDE DEF recs, flip
    <3>1. recs = Records(e, seq + 1)
      BY DEF recs
    <3>2. flip = {<<v, FALSE>> : v \in {r \in recs : Toggled(r, hist[e][seq + 1][r])}}
      BY DEF flip
    <3> QED BY <2>0, <3>1, <3>2, AppliedType
  <2>2. seq' = seq + 1 /\ UNCHANGED <<ready, epoch, faults>>
    BY <1>3 DEF ApplyPackage
  <2>3. Continue \/ Snapshot
    BY <1>3 DEF ApplyPackage, Verify
  <2>4. WorkOK' /\ snapBad' \in BOOLEAN
    BY <2>2, <2>3, ContinueType, SnapshotType DEF SetOK
  <2>5. seq' \in 0..MaxSeq /\ epoch' = epoch /\ ready' = ready /\ faults' = faults
    BY <2>2, Bounds
  <2> HIDE DEF recs, flip
  <2> QED BY <2>1, <2>4, <2>5 DEF SetOK
<1> QED BY <1>1, <1>2, <1>3 DEF ApplyPackage

-----------------------------------------------------------------------------
LEMMA KeeperStep ==
  ASSUME TypeOK,
         \/ \E edit \in Edits, inline \in BOOLEAN :
              edit[1] = kSeq + 1 /\ Change(edit[2], edit[3], inline)
         \/ \E s \in 1..MaxSeq : Expire(s)
         \/ NewEpoch \/ KeeperTick \/ Resync
  PROVE  TypeOK'
<1> USE Bounds
<1>0. KeeperOK /\ ChannelOK /\ SetOK /\ WorkOK
  BY Parts
<1>1. ASSUME NEW edit \in Edits, NEW inline \in BOOLEAN,
             Change(edit[2], edit[3], inline)
      PROVE  TypeOK'
  <2>1. kSeq + 1 \in 1..MaxSeq /\ kSeq' = kSeq + 1 /\ kEpoch' = kEpoch
    BY <1>0, <1>1 DEF Change, KeeperOK
  <2>2. [hist[kEpoch][kSeq] EXCEPT ![edit[2]] = edit[3]] \in Contents
    BY <1>0 DEF KeeperOK, Contents
  <2>3. hist' \in [1..MaxEpoch -> [0..MaxSeq -> Contents]]
    BY <1>0, <1>1, <2>1, <2>2 DEF Change, KeeperOK
  <2>4. pkgs' \in [1..MaxSeq -> 0..MaxEpoch]
    BY SMTT(30), <1>0, <1>1, <2>1 DEF Change, KeeperOK
  <2>5. KeeperOK'
    BY SMTT(30), <1>0, <2>1, <2>3, <2>4 DEF KeeperOK
  <2>6. Frame("diff", kEpoch, kSeq + 1, inline) \in Frames
    BY <1>0, <2>1 DEF Frame, Frames, KeeperOK
  <2>7. ChannelOK'
    BY <1>0, <1>1, <2>6, DeliverType DEF Change, ChannelOK
  <2>8. SetOK' /\ WorkOK'
    BY <1>0, <1>1 DEF Change, SetOK, WorkOK, set
  <2> QED BY <2>5, <2>7, <2>8, Parts DEF TypeOK, KeeperOK, ChannelOK, SetOK, WorkOK
<1>2. ASSUME NEW s \in 1..MaxSeq, Expire(s) PROVE TypeOK'
  <2>1. pkgs' \in [1..MaxSeq -> 0..MaxEpoch] /\ faults' \in 0..MaxFaults
    BY <1>2, FaultType DEF Expire, TypeOK
  <2> QED BY <1>2, <2>1 DEF Expire, TypeOK, set
<1>3. CASE NewEpoch
  <2>1. kEpoch + 1 \in 1..MaxEpoch /\ kEpoch' = kEpoch + 1 /\ kSeq' = 0
    BY <1>0, <1>3 DEF NewEpoch, KeeperOK
  <2>2. hist[kEpoch][kSeq] \in Contents /\ Empty \in Contents
    BY <1>0, EmptyType DEF KeeperOK
  <2>3. hist' \in [1..MaxEpoch -> [0..MaxSeq -> Contents]]
    BY <1>0, <1>3, <2>1, <2>2 DEF NewEpoch, KeeperOK
  <2>4. KeeperOK'
    BY <1>0, <1>3, <2>1, <2>3 DEF NewEpoch, KeeperOK
  <2>5. ChannelOK' /\ SetOK' /\ WorkOK'
    BY <1>0, <1>3 DEF NewEpoch, ChannelOK, SetOK, WorkOK, set
  <2> QED BY <2>4, <2>5 DEF TypeOK, KeeperOK, ChannelOK, SetOK, WorkOK
<1>4. CASE KeeperTick
  <2>1. Frame("tick", kEpoch, kSeq, FALSE) \in Frames
    BY <1>0 DEF Frame, Frames, KeeperOK
  <2>2. ChannelOK'
    BY <1>0, <1>4, <2>1, DeliverType DEF KeeperTick
  <2> QED BY <1>4, <2>2 DEF KeeperTick, TypeOK, ChannelOK, set, keeper
<1>5. CASE Resync
  <2>1. Frame("resync", 0, 0, FALSE) \in Frames
    BY DEF Frame, Frames
  <2>2. ChannelOK'
    BY <1>0, <1>5, <2>1, DeliverType DEF Resync
  <2> QED BY <1>5, <2>2 DEF Resync, TypeOK, ChannelOK, set, keeper
<1> QED BY <1>1, <1>2, <1>3, <1>4, <1>5

LEMMA FrameStep ==
  ASSUME TypeOK, OnFrame
  PROVE  TypeOK'
<1> USE Bounds
<1>0. KeeperOK /\ ChannelOK /\ SetOK /\ WorkOK
  BY Parts
<1> DEFINE f == Head(in)
<1>1. CASE OnStrange(f)
  <2>1. ChannelOK'
    BY <1>0, <1>1, ReceiveType DEF OnStrange
  <2>2. WorkOK' /\ snapBad' \in BOOLEAN
    <3>1. CASE Snapshot
      BY <1>0, <3>1, SnapshotType
    <3>2. CASE snapBad' = FALSE /\ pc' = "request" /\ todo' = Nothing
      BY <3>2, NothingType DEF WorkOK
    <3> QED BY <1>1, <3>1, <3>2 DEF OnStrange
  <2> QED BY <1>1, <2>1, <2>2 DEF OnStrange, TypeOK, ChannelOK, WorkOK, keeper
<1>2. CASE OnKnown(f)
  <2>1. ChannelOK'
    BY <1>0, <1>2, ReceiveType DEF OnKnown
  <2>2. Rest(snapBad) \/ Snapshot
    BY <1>2 DEF OnKnown, Verify
  <2>3. WorkOK' /\ snapBad' \in BOOLEAN
    BY <1>0, <2>2, RestType, SnapshotType DEF SetOK
  <2> QED BY <1>2, <2>1, <2>3 DEF OnKnown, TypeOK, ChannelOK, WorkOK, keeper
<1>3. CASE OnInline(f)
  <2>1. ChannelOK' /\ f \in Frames
    BY <1>0, <1>3, ReceiveType DEF OnInline
  <2>2. f.epoch \in 1..MaxEpoch /\ seq + 1 \in 1..MaxSeq
    BY <1>0, <1>3, <2>1 DEF OnInline, Frames, SetOK
  <2>3. SetOK' /\ WorkOK'
    BY <1>0, <1>3, <2>2, ApplyPackageRest DEF OnInline
  <2> QED BY <1>3, <2>1, <2>3 DEF OnInline, TypeOK, ChannelOK, WorkOK, SetOK, keeper
<1>4. CASE OnBehind(f)
  <2>1. ChannelOK' /\ f \in Frames
    BY <1>0, <1>4, ReceiveType DEF OnBehind
  <2>2. f.seq \in 0..MaxSeq /\ seq < f.seq
    BY <1>4, <2>1 DEF OnBehind, Behind, Frames
  <2>3. todo' = [Nothing EXCEPT !.upto = f.seq] /\ pc' = "catch" /\ ready
    BY <1>4 DEF OnBehind
  <2>4. todo' \in Work /\ todo'.upto = f.seq /\ todo'.objs = << >>
    BY <2>2, <2>3, NothingType DEF Nothing, Work
  <2>5. SetOK' /\ seq' = seq /\ ready'
    BY <1>0, <1>4, <2>3, FaultType DEF OnBehind, SetOK, set
  <2>6. WorkOK'
    BY <2>2, <2>3, <2>4, <2>5 DEF WorkOK
  <2> QED BY <1>4, <2>1, <2>5, <2>6 DEF OnBehind, TypeOK, ChannelOK, WorkOK, SetOK, keeper
<1> QED BY <1>1, <1>2, <1>3, <1>4 DEF OnFrame

LEMMA WorkStep ==
  ASSUME TypeOK, ReadPackages \/ ApplyNext \/ Request \/ Fetch
  PROVE  TypeOK'
<1> USE Bounds
<1>0. KeeperOK /\ ChannelOK /\ SetOK /\ WorkOK
  BY Parts
<1>1. CASE ReadPackages
  <2>1. CASE Fault /\ Rest(snapBad)
    <3>1. WorkOK' /\ snapBad' \in BOOLEAN /\ faults' \in 0..MaxFaults
      BY <1>0, <2>1, RestType, FaultType DEF SetOK
    <3> QED BY <1>1, <3>1 DEF ReadPackages, TypeOK, WorkOK, keeper
  <2>2. CASE pc' = "apply" /\ UNCHANGED <<snapBad, faults>>
    <3> DEFINE left == todo.upto - seq
               n == IF left < PackagesPerRead THEN left ELSE PackagesPerRead
               objs == [i \in 1..n |-> pkgs[seq + i]]
    <3>1. pc = "catch" /\ ready /\ seq < todo.upto /\ todo \in Work
      BY <1>0, <1>1 DEF ReadPackages, WorkOK
    <3>2. todo.upto \in 0..MaxSeq /\ seq \in 0..MaxSeq
      BY <1>0, <3>1 DEF Work, SetOK
    <3>3. n \in Nat \ {0} /\ seq + n <= todo.upto
      BY <3>1, <3>2
    <3>4. \A i \in 1..n : seq + i \in 1..MaxSeq
      <4> HIDE DEF n
      <4> QED BY <3>2, <3>3
    <3>5. objs \in [1..n -> 0..MaxEpoch]
      <4> HIDE DEF n
      <4> QED BY <1>0, <3>4 DEF KeeperOK
    <3>6. objs \in Seq(0..MaxEpoch) /\ Len(objs) = n
      <4> HIDE DEF n, objs
      <4> QED BY <3>3, <3>5, SeqOfFunction
    <3>7. todo' = [todo EXCEPT !.objs = objs]
      BY <1>1, <2>2 DEF ReadPackages, Rest
    <3>8. todo' \in Work /\ todo'.objs = objs /\ todo'.upto = todo.upto
      <4> HIDE DEF objs
      <4> QED BY <3>1, <3>6, <3>7 DEF Work
    <3>9. objs # << >>
      <4> HIDE DEF objs, n
      <4> QED BY <3>3, <3>6, EmptySeq, LenProperties
    <3>10. seq' = seq /\ ready' = ready
      BY <1>1 DEF ReadPackages
    <3>11. WorkOK'
      <4> HIDE DEF objs, n
      <4> QED BY <2>2, <3>1, <3>3, <3>6, <3>8, <3>9, <3>10 DEF WorkOK
    <3> HIDE DEF objs, n, left
    <3> QED BY <1>1, <2>2, <3>11 DEF ReadPackages, TypeOK, WorkOK, keeper
  <2> QED BY <1>1, <2>1, <2>2 DEF ReadPackages
<1>2. CASE ApplyNext
  <2>1. pc = "apply" /\ ready /\ todo.objs # << >> /\ seq + Len(todo.objs) <= todo.upto
    BY <1>0, <1>2 DEF ApplyNext, WorkOK
  <2>2. todo.objs \in Seq(0..MaxEpoch) /\ todo.upto \in 0..MaxSeq
    BY <1>0 DEF WorkOK, Work
  <2>3. Head(todo.objs) \in 0..MaxEpoch /\ Len(todo.objs) \in Nat \ {0}
    BY <2>1, <2>2, HeadTailProperties, LenProperties, EmptySeq
  <2>4. seq + 1 \in 1..MaxSeq
    BY <1>0, <2>1, <2>2, <2>3 DEF SetOK
  <2>5. SetOK' /\ WorkOK'
    <3>1. CASE Head(todo.objs) = 0
      <4>1. WorkOK' /\ snapBad' \in BOOLEAN
        BY <1>0, <1>2, <3>1, SnapshotType DEF ApplyNext
      <4> QED BY <1>0, <1>2, <3>1, <4>1 DEF ApplyNext, SetOK
    <3>2. CASE Head(todo.objs) # 0
      BY <1>0, <1>2, <2>1, <2>3, <2>4, <3>2, ApplyPackageContinue DEF ApplyNext
    <3> QED BY <3>1, <3>2
  <2> QED BY <1>2, <2>5 DEF ApplyNext, TypeOK, SetOK, WorkOK, keeper
<1>3. CASE Request
  <2>1. CASE Fault /\ Rest(snapBad)
    <3>1. WorkOK' /\ snapBad' \in BOOLEAN /\ faults' \in 0..MaxFaults
      BY <1>0, <2>1, RestType, FaultType DEF SetOK
    <3> QED BY <1>3, <3>1 DEF Request, TypeOK, WorkOK, keeper
  <2>2. CASE pc' = "fetch" /\ UNCHANGED <<snapBad, faults>>
    <3>1. todo' = [Nothing EXCEPT !.epoch = kEpoch, !.seq = kSeq]
      BY <1>3, <2>2 DEF Request, Rest
    <3>2. todo' = [upto |-> 0, objs |-> << >>, epoch |-> kEpoch, seq |-> kSeq]
      BY <3>1 DEF Nothing
    <3>3. << >> \in Seq(0..MaxEpoch) /\ kEpoch \in 0..MaxEpoch \ {0} /\ kSeq \in 0..MaxSeq
      BY <1>0, EmptySeq DEF KeeperOK
    <3>4. todo' \in Work /\ todo'.epoch # 0
      BY <3>2, <3>3 DEF Work
    <3>5. WorkOK' /\ SetOK'
      BY <1>0, <1>3, <2>2, <3>4 DEF Request, WorkOK, SetOK
    <3> QED BY <1>3, <3>5 DEF Request, TypeOK, WorkOK, SetOK, keeper
  <2> QED BY <1>3, <2>1, <2>2 DEF Request
<1>4. CASE Fetch
  <2>1. todo.epoch \in 1..MaxEpoch /\ todo.seq \in 0..MaxSeq
    BY <1>0, <1>4 DEF Fetch, WorkOK, Work
  <2>2. hist[todo.epoch][todo.seq] \in Contents
    BY <1>0, <2>1 DEF KeeperOK
  <2>3. CASE Fault /\ Rest(snapBad) /\ UNCHANGED <<ready, epoch, seq, comp, hash>>
    <3>1. WorkOK' /\ snapBad' \in BOOLEAN /\ faults' \in 0..MaxFaults
      BY <1>0, <2>3, RestType, FaultType DEF SetOK
    <3> QED BY <1>4, <2>3, <3>1 DEF Fetch, TypeOK, WorkOK, keeper
  <2>4. CASE ~(Fault /\ Rest(snapBad) /\ UNCHANGED <<ready, epoch, seq, comp, hash>>)
    <3> DEFINE c == hist[todo.epoch][todo.seq]
    <3>1. /\ ready' = TRUE /\ epoch' = todo.epoch /\ seq' = todo.seq
          /\ comp' = c /\ hash' = Present(c) \X {FALSE}
          /\ Rest(hash' # KeeperHash(c)) /\ UNCHANGED faults
      BY <1>4, <2>4 DEF Fetch
    <3>2. WorkOK' /\ snapBad' \in BOOLEAN
      BY <3>1, RestType
    <3>3. hash' \subseteq Values \X {FALSE}
      BY <3>1 DEF Present
    <3>4. /\ epoch' \in 0..MaxEpoch /\ epoch' # 0 /\ seq' \in 0..MaxSeq
          /\ comp' \in Contents /\ ready' \in BOOLEAN /\ faults' = faults
      BY <2>1, <2>2, <3>1
    <3>5. SetOK'
      <4> HIDE DEF c
      <4> QED BY <1>0, <3>2, <3>3, <3>4 DEF SetOK
    <3> QED BY <1>4, <3>2, <3>5 DEF Fetch, TypeOK, SetOK, WorkOK, keeper
  <2> QED BY <2>3, <2>4
<1> QED BY <1>1, <1>2, <1>3, <1>4

LEMMA TypeInit == Init => TypeOK
<1> USE Bounds
<1> SUFFICES ASSUME Init PROVE TypeOK
  OBVIOUS
<1>1. hist \in [1..MaxEpoch -> [0..MaxSeq -> Contents]]
  BY EmptyType DEF Init
<1>2. in \in Seq(Frames) /\ Len(in) <= QueueDepth
  BY EmptySeq DEF Init
<1>3. KeeperOK
  BY <1>1 DEF Init, KeeperOK
<1>4. SetOK
  <2>1. /\ ready = FALSE /\ snapBad = FALSE /\ faults = 0 /\ epoch = 0 /\ seq = 0
        /\ comp \in Contents /\ hash = {}
    BY EmptyType DEF Init
  <2>2. faults \in 0..MaxFaults /\ epoch \in 0..MaxEpoch /\ seq \in 0..MaxSeq
    BY <2>1
  <2>3. ready \in BOOLEAN /\ snapBad \in BOOLEAN /\ ~ready /\ hash \subseteq Values \X {FALSE}
    BY <2>1
  <2> QED BY <2>1, <2>2, <2>3 DEF SetOK
<1>5. WorkOK
  BY NothingType DEF Init, WorkOK
<1> QED BY <1>2, <1>3, <1>4, <1>5, Parts DEF ChannelOK

LEMMA TypeStep == TypeOK /\ [Next]_vars => TypeOK'
<1> SUFFICES ASSUME TypeOK, [Next]_vars PROVE TypeOK'
  OBVIOUS
<1>1. CASE Run
  BY <1>1, FrameStep, WorkStep DEF Run
<1>2. CASE Restart
  <2>1. in' \in Seq(Frames) /\ Len(in') <= QueueDepth
    BY <1>2, Bounds, EmptySeq DEF Restart
  <2>2. faults' \in 0..MaxFaults
    BY <1>2, FaultType DEF Restart, TypeOK
  <2>3. SetOK'
    <3>1. /\ ready' = FALSE /\ epoch' = 0 /\ seq' = 0 /\ comp' = Empty /\ hash' = {}
          /\ snapBad' = FALSE
      BY <1>2 DEF Restart
    <3>2. comp' \in Contents
      BY <3>1, EmptyType
    <3>3. epoch' \in 0..MaxEpoch /\ seq' \in 0..MaxSeq
      BY <3>1, Bounds
    <3>4. hash' \subseteq Values \X {FALSE}
      BY <3>1
    <3>5. ready' \in BOOLEAN /\ snapBad' \in BOOLEAN /\ ~ready'
      BY <3>1
    <3> QED BY <2>2, <3>2, <3>3, <3>4, <3>5 DEF SetOK
  <2>4. WorkOK'
    BY <1>2, NothingType DEF Restart, WorkOK
  <2> QED BY <1>2, <2>1, <2>3, <2>4 DEF Restart, TypeOK, SetOK, WorkOK, keeper
<1>3. CASE UNCHANGED vars
  BY <1>3 DEF vars, keeper, set, TypeOK
<1> QED BY <1>1, <1>2, <1>3, KeeperStep DEF Next

\* The mirror and the keeper as the mirror sees it stay well typed; the channel
\* keeps to its capacity (livelist.go:250-294, 425-698).
THEOREM TypeCorrect == Spec => []TypeOK
BY TypeInit, TypeStep, PTL DEF Spec

-----------------------------------------------------------------------------
(* What the keeper has said so far; its history there is settled, whatever *)
(* is late, kept in Redis, or being worked on lies there, and so does the  *)
(* place of the mirror.                                                    *)
Known(e, s) == e < kEpoch \/ (e = kEpoch /\ s <= kSeq)

SetKnown     == ready => Known(epoch, seq) /\ comp = hist[epoch][seq]
PkgsKnown    == \A s \in 1..MaxSeq : pkgs[s] # 0 => Known(pkgs[s], s)
ChannelKnown == \A i \in 1..Len(in) : in[i].op # "resync" => Known(in[i].epoch, in[i].seq)
WorkKnown ==
  /\ pc = "fetch" => Known(todo.epoch, todo.seq)
  /\ pc = "apply" => \A i \in 1..Len(todo.objs) :
                        todo.objs[i] # 0 => Known(todo.objs[i], seq + i)
AllKnown == SetKnown /\ PkgsKnown /\ ChannelKnown /\ WorkKnown

LEMMA KnownKept ==
  ASSUME TypeOK, [Next]_vars
  PROVE  \A e \in 1..MaxEpoch, s \in 0..MaxSeq :
            Known(e, s) => Known(e, s)' /\ hist'[e][s] = hist[e][s]
<1> USE Bounds
<1>0. KeeperOK
  BY Parts
<1>1. CASE UNCHANGED <<kEpoch, kSeq, hist>>
  BY <1>1 DEF Known
<1>2. ASSUME NEW v, NEW x, NEW inline, Change(v, x, inline)
      PROVE  \A e \in 1..MaxEpoch, s \in 0..MaxSeq :
                Known(e, s) => Known(e, s)' /\ hist'[e][s] = hist[e][s]
  BY <1>0, <1>2 DEF Change, Known, KeeperOK
<1>3. CASE NewEpoch
  <2>1. PICK c : hist' = [hist EXCEPT ![kEpoch + 1][0] = c]
    BY <1>3 DEF NewEpoch
  <2>2. kEpoch' = kEpoch + 1
    BY <1>3 DEF NewEpoch
  <2> QED BY <1>0, <2>1, <2>2 DEF Known, KeeperOK
<1>4. CASE Run
  BY <1>1, <1>4 DEF Run, OnFrame, OnStrange, OnKnown, OnInline, OnBehind,
     ReadPackages, ApplyNext, Request, Fetch, keeper
<1> QED BY <1>1, <1>2, <1>3, <1>4
    DEF Next, Expire, KeeperTick, Resync, Restart, vars, keeper

(* The parts, where a step leaves their subject alone or moves it. *)
LEMMA SetKept ==
  ASSUME TypeOK, [Next]_vars, SetKnown, UNCHANGED <<ready, epoch, seq, comp>>
  PROVE  SetKnown'
<1>1. ready => epoch \in 1..MaxEpoch /\ seq \in 0..MaxSeq
  BY Bounds, Parts DEF SetOK
<1>2. ready => Known(epoch, seq)' /\ hist'[epoch][seq] = hist[epoch][seq]
  BY <1>1, KnownKept DEF SetKnown, Known
<1> QED BY <1>2 DEF SetKnown, Known

LEMMA WorkKept ==
  ASSUME TypeOK, [Next]_vars, WorkKnown, UNCHANGED <<pc, todo, seq>>
  PROVE  WorkKnown'
<1>0. WorkOK /\ seq \in 0..MaxSeq
  BY Parts DEF SetOK
<1>1. CASE pc = "fetch"
  <2>1. todo.epoch \in 1..MaxEpoch /\ todo.seq \in 0..MaxSeq
    BY <1>0, <1>1, Bounds DEF WorkOK, Work
  <2>2. Known(todo.epoch, todo.seq)'
    BY <1>1, <2>1, KnownKept DEF WorkKnown, Known
  <2> QED BY <1>1, <2>2 DEF WorkKnown
<1>2. CASE pc = "apply"
  <2>1. /\ todo.objs \in Seq(0..MaxEpoch) /\ todo.upto \in 0..MaxSeq
        /\ seq + Len(todo.objs) <= todo.upto
    BY <1>0, <1>2 DEF WorkOK, Work
  <2>2. ASSUME NEW i \in 1..Len(todo.objs), todo.objs[i] # 0
        PROVE  Known(todo.objs[i], seq + i)'
    <3>1. todo.objs[i] \in 1..MaxEpoch /\ seq + i \in 0..MaxSeq
      <4>1. Len(todo.objs) \in Nat /\ todo.objs[i] \in 0..MaxEpoch
        BY <2>1, LenProperties, ElementOfSeq
      <4> QED BY <1>0, <2>1, <2>2, <4>1, Bounds
    <3>2. Known(todo.objs[i], seq + i)
      BY <1>2, <2>2 DEF WorkKnown
    <3> QED BY <3>1, <3>2, KnownKept DEF Known
  <2> QED BY <1>2, <2>2 DEF WorkKnown, Known
<1> QED BY <1>1, <1>2 DEF WorkKnown

LEMMA WorkDone ==
  ASSUME pc' \in {"idle", "request", "catch"}
  PROVE  WorkKnown'
BY DEF WorkKnown

LEMMA PkgsKept ==
  ASSUME TypeOK, [Next]_vars, PkgsKnown,
         NEW s \in 1..MaxSeq, pkgs'[s] = pkgs[s], pkgs[s] # 0
  PROVE  Known(pkgs[s], s)'
<1>1. pkgs[s] \in 1..MaxEpoch /\ s \in 0..MaxSeq
  BY Bounds, Parts DEF KeeperOK
<1> QED BY <1>1, KnownKept DEF PkgsKnown, Known

LEMMA FrameKept ==
  ASSUME TypeOK, [Next]_vars, ChannelKnown, NEW i \in 1..Len(in)
  PROVE  /\ in[i] \in Frames
         /\ in[i].op # "resync" =>
              \/ in[i].epoch = 0
              \/ in[i].epoch < kEpoch' \/ (in[i].epoch = kEpoch' /\ in[i].seq <= kSeq')
<1>1. in[i] \in Frames
  BY Parts, ElementOfSeq DEF ChannelOK
<1>2. CASE in[i].op # "resync" /\ in[i].epoch # 0
  <2>1. in[i].epoch \in 1..MaxEpoch /\ in[i].seq \in 0..MaxSeq
    BY <1>1, <1>2, Bounds DEF Frames
  <2> QED BY <1>1, <1>2, <2>1, KnownKept DEF ChannelKnown, Known
<1> QED BY <1>1, <1>2

LEMMA ChannelKept ==
  ASSUME TypeOK, [Next]_vars, ChannelKnown,
         \/ in' = in \/ in' = << >>
         \/ in # << >> /\ in' = Tail(in)
         \/ \E f \in Frames : /\ in' = Append(in, f)
                              /\ f.op = "resync" \/ (f.epoch = kEpoch' /\ f.seq = kSeq')
  PROVE  ChannelKnown'
<1>0. in \in Seq(Frames) /\ kEpoch' \in 1..MaxEpoch /\ kSeq' \in 0..MaxSeq
  BY TypeStep, Parts DEF TypeOK
<1>1. \A i \in 1..Len(in) : in[i].op # "resync" =>
         in[i].epoch < kEpoch' \/ (in[i].epoch = kEpoch' /\ in[i].seq <= kSeq')
  BY <1>0, FrameKept, Bounds
<1>2. CASE in' = in
  BY <1>1, <1>2 DEF ChannelKnown, Known
<1>3. CASE in' = << >>
  BY <1>3, EmptySeq DEF ChannelKnown
<1>4. CASE in # << >> /\ in' = Tail(in)
  <2>1. /\ Len(in') = Len(in) - 1 /\ Len(in) \in Nat
        /\ \A i \in 1..Len(in') : in'[i] = in[i + 1]
    BY <1>0, <1>4, HeadTailProperties, LenProperties
  <2>2. \A i \in 1..Len(in') : i + 1 \in 1..Len(in)
    BY <2>1
  <2> QED BY <1>1, <2>1, <2>2 DEF ChannelKnown, Known
<1>5. ASSUME NEW f \in Frames, in' = Append(in, f),
             f.op = "resync" \/ (f.epoch = kEpoch' /\ f.seq = kSeq')
      PROVE  ChannelKnown'
  <2>1. /\ Len(in') = Len(in) + 1 /\ Len(in) \in Nat /\ in'[Len(in) + 1] = f
        /\ \A i \in 1..Len(in) : in'[i] = in[i]
    BY <1>0, <1>5, AppendProperties, LenProperties
  <2>2. \A i \in 1..Len(in') : i \in 1..Len(in) \/ i = Len(in) + 1
    BY <2>1
  <2>3. f.op # "resync" => f.epoch = kEpoch' /\ f.seq <= kSeq'
    BY <1>0, <1>5
  <2> QED BY <1>1, <2>1, <2>2, <2>3 DEF ChannelKnown, Known
<1> QED BY <1>2, <1>3, <1>4, <1>5

\* A package of the mirror's epoch with the next number makes the next list.
LEMMA AppliedKnown ==
  ASSUME TypeOK, [Next]_vars, SetKnown, ready,
         seq + 1 \in 1..MaxSeq, Known(epoch, seq + 1),
         UNCHANGED <<ready, epoch>>, seq' = seq + 1,
         comp' = [v \in Values |-> IF v \in Records(epoch, seq + 1)
                                   THEN hist[epoch][seq + 1][v] ELSE comp[v]]
  PROVE  SetKnown'
<1>1. epoch \in 1..MaxEpoch /\ seq \in 0..MaxSeq
  BY Bounds, Parts DEF SetOK
<1>2. hist[epoch][seq] \in Contents /\ hist[epoch][seq + 1] \in Contents
  BY <1>1, Bounds, Parts DEF KeeperOK
<1>3. comp = hist[epoch][seq] /\ (seq + 1) - 1 = seq
  BY <1>1 DEF SetKnown
<1>4. \A v \in Values : comp'[v] = hist[epoch][seq + 1][v]
  BY <1>3 DEF Records
<1>5. comp' = hist[epoch][seq + 1]
  BY <1>2, <1>4 DEF Contents
<1>6. /\ epoch < kEpoch' \/ (epoch = kEpoch' /\ seq + 1 <= kSeq')
      /\ hist'[epoch][seq + 1] = hist[epoch][seq + 1]
  BY <1>1, Bounds, KnownKept DEF Known
<1> QED BY <1>5, <1>6 DEF SetKnown, Known

LEMMA ApplyRestKnown ==
  ASSUME TypeOK, [Next]_vars, AllKnown, ready, NEW e \in 1..MaxEpoch,
         seq + 1 \in 1..MaxSeq, Known(e, seq + 1), ApplyPackage(e, Rest(snapBad))
  PROVE  SetKnown' /\ WorkKnown'
<1>1. CASE UNCHANGED <<ready, epoch, seq, comp>> /\ Snapshot
  <2>1. pc' \in {"idle", "request"}
    BY <1>1 DEF Snapshot, Rest
  <2> QED BY <1>1, <2>1, SetKept, WorkDone DEF AllKnown
<1>2. CASE ~(UNCHANGED <<ready, epoch, seq, comp>> /\ Snapshot)
  <2>1. /\ e = epoch /\ UNCHANGED <<ready, epoch>> /\ seq' = seq + 1
        /\ comp' = [v \in Values |-> IF v \in Records(epoch, seq + 1)
                                     THEN hist[epoch][seq + 1][v] ELSE comp[v]]
    BY <1>2 DEF ApplyPackage, Fits
  <2>2. Rest(snapBad) \/ Snapshot
    BY <1>2 DEF ApplyPackage, Verify
  <2>3. pc' \in {"idle", "request"}
    BY <2>2 DEF Snapshot, Rest
  <2> QED BY <2>1, <2>3, AppliedKnown, WorkDone DEF AllKnown
<1> QED BY <1>1, <1>2

LEMMA ApplyContinueKnown ==
  ASSUME TypeOK, [Next]_vars, AllKnown, ready, pc = "apply", Head(todo.objs) # 0,
         seq + 1 \in 1..MaxSeq, ApplyPackage(Head(todo.objs), Continue)
  PROVE  SetKnown' /\ WorkKnown'
<1>0. /\ todo.objs \in Seq(0..MaxEpoch) /\ todo.objs # << >> /\ todo \in Work
      /\ todo.upto \in 0..MaxSeq /\ seq \in 0..MaxSeq
      /\ seq + Len(todo.objs) <= todo.upto
  BY Parts DEF WorkOK, Work, SetOK
<1>1. CASE UNCHANGED <<ready, epoch, seq, comp>> /\ Snapshot
  <2>1. pc' \in {"idle", "request"}
    BY <1>1 DEF Snapshot, Rest
  <2> QED BY <1>1, <2>1, SetKept, WorkDone DEF AllKnown
<1>2. CASE ~(UNCHANGED <<ready, epoch, seq, comp>> /\ Snapshot)
  <2>1. /\ Head(todo.objs) = epoch /\ UNCHANGED <<ready, epoch>> /\ seq' = seq + 1
        /\ comp' = [v \in Values |-> IF v \in Records(epoch, seq + 1)
                                     THEN hist[epoch][seq + 1][v] ELSE comp[v]]
    BY <1>2 DEF ApplyPackage, Fits
  <2>2. /\ Head(todo.objs) = todo.objs[1] /\ Len(todo.objs) \in Nat \ {0}
    BY <1>0, HeadTailProperties, LenProperties, EmptySeq
  <2>3. Known(epoch, seq + 1)
    BY <2>1, <2>2 DEF AllKnown, WorkKnown
  <2>4. SetKnown'
    BY <2>1, <2>3, AppliedKnown DEF AllKnown
  <2>5. Continue \/ Snapshot
    BY <1>2 DEF ApplyPackage, Verify
  <2>6. CASE pc' \in {"idle", "request", "catch"}
    BY <2>4, <2>6, WorkDone
  <2>7. CASE pc' \notin {"idle", "request", "catch"}
    <3>1. pc' = "apply" /\ todo' = [todo EXCEPT !.objs = Tail(todo.objs)]
      BY <2>5, <2>7 DEF Continue, Snapshot, Rest
    <3>2. todo'.objs = Tail(todo.objs)
      BY <1>0, <3>1 DEF Work
    <3>3. /\ Len(todo'.objs) = Len(todo.objs) - 1
          /\ \A i \in 1..Len(todo'.objs) : todo'.objs[i] = todo.objs[i + 1]
      BY <1>0, <3>2, HeadTailProperties, LenProperties
    <3>4. ASSUME NEW i \in 1..Len(todo'.objs), todo'.objs[i] # 0
          PROVE  \/ todo'.objs[i] < kEpoch'
                 \/ todo'.objs[i] = kEpoch' /\ seq' + i <= kSeq'
      <4>1. /\ i + 1 \in 1..Len(todo.objs) /\ todo'.objs[i] = todo.objs[i + 1]
            /\ seq' + i = seq + (i + 1)
        BY <1>0, <2>1, <2>2, <3>3
      <4>2. todo.objs[i + 1] \in 1..MaxEpoch /\ seq + (i + 1) \in 0..MaxSeq
        <5>1. todo.objs[i + 1] \in 0..MaxEpoch
          BY <1>0, <4>1, ElementOfSeq
        <5> QED BY SMTT(30), <1>0, <2>2, <3>4, <4>1, <5>1, Bounds
      <4>3. Known(todo.objs[i + 1], seq + (i + 1))
        BY <3>4, <4>1 DEF AllKnown, WorkKnown
      <4> QED BY <4>1, <4>2, <4>3, KnownKept DEF Known
    <3> QED BY <2>4, <3>1, <3>4 DEF WorkKnown, Known
  <2> QED BY <2>6, <2>7
<1> QED BY <1>1, <1>2

LEMMA KeeperKnown ==
  ASSUME TypeOK, [Next]_vars, AllKnown,
         \/ \E edit \in Edits, inline \in BOOLEAN :
              edit[1] = kSeq + 1 /\ Change(edit[2], edit[3], inline)
         \/ \E s \in 1..MaxSeq : Expire(s)
         \/ NewEpoch \/ KeeperTick \/ Resync
  PROVE  AllKnown'
<1> USE Bounds
<1>0. /\ kEpoch \in 1..MaxEpoch /\ kSeq \in 0..MaxSeq /\ pkgs \in [1..MaxSeq -> 0..MaxEpoch]
      /\ TypeOK'
  BY TypeStep, Parts DEF KeeperOK
<1>1. UNCHANGED <<set, pc, todo>> \/ (UNCHANGED <<set, pc, todo>> /\ faults' # faults)
  BY DEF Change, Expire, NewEpoch, KeeperTick, Resync
<1>2. SetKnown' /\ WorkKnown'
  BY <1>1, SetKept, WorkKept DEF AllKnown, set
<1>3. CASE \E edit \in Edits, inline \in BOOLEAN :
             edit[1] = kSeq + 1 /\ Change(edit[2], edit[3], inline)
  <2>0. PICK edit \in Edits, inline \in BOOLEAN : Change(edit[2], edit[3], inline)
    BY <1>3
  <2> DEFINE v == edit[2]
             x == edit[3]
  <2>1. Change(v, x, inline)
    BY <2>0
  <2> HIDE DEF v, x
  <2>2. kSeq' = kSeq + 1 /\ kEpoch' = kEpoch /\ pkgs' = [pkgs EXCEPT ![kSeq + 1] = kEpoch]
    BY <2>1 DEF Change
  <2>3. kSeq + 1 \in 1..MaxSeq
    BY <1>0, <2>1 DEF Change
  <2>4. PkgsKnown'
    <3>1. ASSUME NEW s \in 1..MaxSeq, pkgs'[s] # 0 PROVE Known(pkgs[s], s)'
      BY <1>0, <2>2, <2>3, <3>1, PkgsKept DEF AllKnown, Known
    <3> QED BY <3>1 DEF PkgsKnown
  <2>5. Frame("diff", kEpoch, kSeq + 1, inline) \in Frames
    BY <1>0, <2>1, <2>3 DEF Frame, Frames
  <2>6. ChannelKnown'
    <3>1. in' = in \/ in' = Append(in, Frame("diff", kEpoch, kSeq + 1, inline))
      BY <2>1 DEF Change, Deliver
    <3> QED BY <2>2, <2>5, <3>1, ChannelKept DEF Frame, AllKnown
  <2> QED BY <1>2, <2>4, <2>6 DEF AllKnown
<1>4. CASE ~\E edit \in Edits, inline \in BOOLEAN :
             edit[1] = kSeq + 1 /\ Change(edit[2], edit[3], inline)
  <2>1. \A s \in 1..MaxSeq : pkgs'[s] = pkgs[s] \/ pkgs'[s] = 0
    BY <1>0, <1>4 DEF Expire, NewEpoch, KeeperTick, Resync, keeper
  <2>2. PkgsKnown'
    <3>1. ASSUME NEW s \in 1..MaxSeq, pkgs'[s] # 0 PROVE Known(pkgs[s], s)'
      BY <2>1, <3>1, PkgsKept DEF AllKnown, Known
    <3> QED BY <3>1 DEF PkgsKnown
  <2>3. CASE UNCHANGED in
    BY <1>2, <2>2, <2>3, ChannelKept DEF AllKnown
  <2>4. CASE KeeperTick
    <3>1. Frame("tick", kEpoch, kSeq, FALSE) \in Frames
      BY <1>0 DEF Frame, Frames
    <3>2. in' = in \/ in' = Append(in, Frame("tick", kEpoch, kSeq, FALSE))
      BY <2>4 DEF KeeperTick, Deliver
    <3>3. kEpoch' = kEpoch /\ kSeq' = kSeq
      BY <2>4 DEF KeeperTick, keeper
    <3> QED BY <1>2, <2>2, <3>1, <3>2, <3>3, ChannelKept DEF Frame, AllKnown
  <2>5. CASE Resync
    <3>1. Frame("resync", 0, 0, FALSE) \in Frames
      BY DEF Frame, Frames
    <3>2. in' = in \/ in' = Append(in, Frame("resync", 0, 0, FALSE))
      BY <2>5 DEF Resync, Deliver
    <3> QED BY <1>2, <2>2, <3>1, <3>2, ChannelKept DEF Frame, AllKnown
  <2>6. UNCHANGED in \/ KeeperTick \/ Resync
    BY <1>4 DEF Expire, NewEpoch
  <2> QED BY <1>2, <2>2, <2>3, <2>4, <2>5, <2>6 DEF AllKnown
<1> QED BY <1>3, <1>4

LEMMA FrameKnown ==
  ASSUME TypeOK, [Next]_vars, AllKnown, OnFrame
  PROVE  AllKnown'
<1> DEFINE f == Head(in)
<1>1. in # << >> /\ in' = Tail(in) /\ UNCHANGED keeper
  BY DEF OnFrame, OnStrange, OnKnown, OnInline, OnBehind, Receive
<1>2. ChannelKnown' /\ PkgsKnown'
  <2>1. ChannelKnown'
    BY <1>1, ChannelKept DEF AllKnown
  <2>2. PkgsKnown'
    BY <1>1 DEF AllKnown, PkgsKnown, Known, keeper
  <2> QED BY <2>1, <2>2
<1>3. CASE OnStrange(f)
  <2>1. pc' \in {"idle", "request"}
    BY <1>3 DEF OnStrange, Snapshot, Rest
  <2> QED BY <1>2, <1>3, <2>1, SetKept, WorkDone DEF OnStrange, AllKnown
<1>4. CASE OnKnown(f)
  <2>1. pc' \in {"idle", "request"}
    BY <1>4 DEF OnKnown, Verify, Snapshot, Rest
  <2> QED BY <1>2, <1>4, <2>1, SetKept, WorkDone DEF OnKnown, AllKnown
<1>5. CASE OnInline(f)
  <2>1. f = in[1] /\ 1 \in 1..Len(in) /\ f \in Frames
    BY <1>1, HeadTailProperties, LenProperties, EmptySeq, Parts DEF ChannelOK
  <2>2. ready /\ f.epoch = epoch /\ f.seq = seq + 1 /\ f.op # "resync"
    BY <1>5 DEF OnInline
  <2>3. f.epoch \in 1..MaxEpoch /\ seq + 1 \in 1..MaxSeq
    BY <2>1, <2>2, Bounds, Parts DEF SetOK, Frames
  <2>4. Known(f.epoch, seq + 1)
    BY <2>1, <2>2 DEF AllKnown, ChannelKnown
  <2> HIDE DEF f
  <2>5. ApplyPackage(f.epoch, Rest(snapBad))
    BY <1>5 DEF OnInline
  <2> QED BY <1>2, <2>2, <2>3, <2>4, <2>5, ApplyRestKnown DEF AllKnown
<1>6. CASE OnBehind(f)
  BY <1>2, <1>6, SetKept, WorkDone DEF OnBehind, AllKnown, set
<1> QED BY <1>3, <1>4, <1>5, <1>6 DEF OnFrame

LEMMA WorkStepKnown ==
  ASSUME TypeOK, [Next]_vars, AllKnown, ReadPackages \/ ApplyNext \/ Request \/ Fetch
  PROVE  AllKnown'
<1>0. KeeperOK /\ SetOK /\ WorkOK
  BY Parts
<1>1. UNCHANGED <<keeper, in>>
  BY DEF ReadPackages, ApplyNext, Request, Fetch
<1>2. ChannelKnown' /\ PkgsKnown'
  BY <1>1 DEF AllKnown, ChannelKnown, PkgsKnown, Known, keeper
<1>3. CASE ReadPackages
  <2>1. SetKnown'
    BY <1>3, SetKept DEF ReadPackages, AllKnown
  <2>2. CASE Rest(snapBad)
    BY <1>2, <2>1, <2>2, WorkDone DEF Rest, AllKnown
  <2>3. CASE ~Rest(snapBad)
    <3> DEFINE left == todo.upto - seq
               n == IF left < PackagesPerRead THEN left ELSE PackagesPerRead
               objs == [i \in 1..n |-> pkgs[seq + i]]
    <3>1. pc' = "apply" /\ todo' = [todo EXCEPT !.objs = objs] /\ seq' = seq
      BY <1>3, <2>3 DEF ReadPackages
    <3>2. seq \in 0..MaxSeq /\ todo.upto \in 0..MaxSeq /\ seq < todo.upto /\ todo \in Work
      BY <1>0, <1>3 DEF ReadPackages, WorkOK, SetOK, Work
    <3>3. n \in Nat \ {0} /\ \A i \in 1..n : seq + i \in 1..MaxSeq
      BY <3>2, Bounds
    <3>4. objs \in Seq(0..MaxEpoch) /\ Len(objs) = n
      <4>1. objs \in [1..n -> 0..MaxEpoch]
        <5> HIDE DEF n
        <5> QED BY <1>0, <3>3 DEF KeeperOK
      <4>2. n \in Nat
        BY <3>3
      <4> HIDE DEF objs, n
      <4> QED BY <4>1, <4>2, SeqOfFunction
    <3>5. todo'.objs = objs
      <4> HIDE DEF objs
      <4> QED BY <3>1, <3>2 DEF Work
    <3> HIDE DEF n
    <3>6. \A i \in 1..n : objs[i] # 0 => Known(objs[i], seq + i)
      BY <3>3 DEF AllKnown, PkgsKnown
    <3> HIDE DEF objs
    <3>7. WorkKnown'
      BY <1>1, <3>1, <3>4, <3>5, <3>6 DEF WorkKnown, Known, keeper
    <3> QED BY <1>2, <2>1, <3>7 DEF AllKnown
  <2> QED BY <2>2, <2>3
<1>4. CASE ApplyNext
  <2>1. pc = "apply" /\ ready /\ todo.objs # << >> /\ seq + Len(todo.objs) <= todo.upto
    BY <1>0, <1>4 DEF ApplyNext, WorkOK
  <2>2. seq + 1 \in 1..MaxSeq
    <3>1. /\ todo.objs \in Seq(0..MaxEpoch) /\ todo.upto \in 0..MaxSeq
          /\ seq \in 0..MaxSeq
      BY <1>0 DEF WorkOK, Work, SetOK
    <3>2. Len(todo.objs) \in Nat \ {0}
      BY <2>1, <3>1, LenProperties, EmptySeq
    <3> QED BY <2>1, <3>1, <3>2, Bounds
  <2>3. CASE Head(todo.objs) = 0
    <3>1. pc' \in {"idle", "request"}
      BY <1>4, <2>3 DEF ApplyNext, Snapshot, Rest
    <3> QED BY <1>2, <1>4, <2>3, <3>1, SetKept, WorkDone DEF ApplyNext, AllKnown
  <2>4. CASE Head(todo.objs) # 0
    BY <1>2, <1>4, <2>1, <2>2, <2>4, ApplyContinueKnown DEF ApplyNext, AllKnown
  <2> QED BY <2>3, <2>4
<1>5. CASE Request
  <2>1. SetKnown'
    BY <1>5, SetKept DEF Request, AllKnown
  <2>2. CASE Rest(snapBad)
    BY <1>2, <2>1, <2>2, WorkDone DEF Rest, AllKnown
  <2>3. CASE ~Rest(snapBad)
    <3>1. pc' = "fetch" /\ todo' = [Nothing EXCEPT !.epoch = kEpoch, !.seq = kSeq]
      BY <1>5, <2>3 DEF Request
    <3>2. todo'.epoch = kEpoch /\ todo'.seq = kSeq
      BY <3>1 DEF Nothing
    <3>3. kSeq \in Int
      BY <1>0 DEF KeeperOK
    <3> QED BY <1>1, <1>2, <2>1, <3>1, <3>2, <3>3 DEF AllKnown, WorkKnown, Known, keeper
  <2> QED BY <2>2, <2>3
<1>6. CASE Fetch
  <2>1. pc' = "idle"
    BY <1>6 DEF Fetch, Rest
  <2>2. CASE UNCHANGED <<ready, epoch, seq, comp>>
    BY <1>2, <2>1, <2>2, SetKept, WorkDone DEF AllKnown
  <2>3. CASE ~UNCHANGED <<ready, epoch, seq, comp>>
    <3>1. epoch' = todo.epoch /\ seq' = todo.seq /\ comp' = hist[todo.epoch][todo.seq]
      BY <1>6, <2>3 DEF Fetch
    <3>2. Known(todo.epoch, todo.seq)
      BY <1>6 DEF Fetch, AllKnown, WorkKnown
    <3>3. SetKnown'
      BY <1>1, <3>1, <3>2 DEF SetKnown, Known, keeper
    <3> QED BY <1>2, <2>1, <3>3, WorkDone DEF AllKnown
  <2> QED BY <2>2, <2>3
<1> QED BY <1>3, <1>4, <1>5, <1>6

LEMMA KnownStep == TypeOK /\ AllKnown /\ [Next]_vars => AllKnown'
<1> SUFFICES ASSUME TypeOK, AllKnown, [Next]_vars PROVE AllKnown'
  OBVIOUS
<1>1. CASE Run
  BY <1>1, FrameKnown, WorkStepKnown DEF Run
<1>2. CASE Restart
  <2>1. ~ready' /\ pc' = "request" /\ in' = << >> /\ UNCHANGED keeper
    BY <1>2 DEF Restart
  <2>2. PkgsKnown'
    BY <2>1 DEF AllKnown, PkgsKnown, Known, keeper
  <2> QED BY <2>1, <2>2, ChannelKept, WorkDone DEF AllKnown, SetKnown
<1>3. CASE UNCHANGED vars
  <2>1. UNCHANGED <<kEpoch, kSeq, hist, pkgs, in, ready, epoch, seq, comp, pc, todo>>
    BY <1>3 DEF vars, keeper, set
  <2>2. PkgsKnown'
    BY <2>1 DEF AllKnown, PkgsKnown, Known
  <2> QED BY <2>1, <2>2, ChannelKept, SetKept, WorkKept DEF AllKnown
<1> QED BY <1>1, <1>2, <1>3, KeeperKnown DEF Next

LEMMA KnownInit == Init => AllKnown
<1> SUFFICES ASSUME Init PROVE AllKnown
  OBVIOUS
<1>1. Len(in) = 0
  BY EmptySeq DEF Init
<1> QED BY <1>1 DEF Init, AllKnown, SetKnown, PkgsKnown, ChannelKnown, WorkKnown

\* A mirror that is ready shows the list as the keeper had it at the mirror's
\* epoch and number, however frames were lost, late and repeated, packages gone
\* or of an older epoch, and snapshots overtaken (livelist.go:438-698).
THEOREM SeesKeeperListAlways == Spec => []SeesKeeperList
<1>1. AllKnown => SeesKeeperList
  BY DEF AllKnown, SetKnown, SeesKeeperList
<1> QED BY <1>1, TypeInit, TypeStep, KnownInit, KnownStep, PTL DEF Spec

-----------------------------------------------------------------------------
(* The hash.                                                               *)

HadOdd == \E s \in 0..seq : Present(hist[epoch][s]) \cap Odd # {}
HashInv ==
  /\ hash = Present(comp) \X {FALSE}
  /\ snapBad => ready /\ HadOdd

\* An odd value of an epoch stays in its history while the mirror goes on in it.
LEMMA OddKept ==
  ASSUME TypeOK, [Next]_vars, AllKnown, ready, HadOdd,
         epoch' = epoch, seq' = seq \/ seq' = seq + 1
  PROVE  HadOdd'
<1>1. seq \in 0..MaxSeq /\ epoch \in 1..MaxEpoch
  BY Bounds, Parts DEF SetOK
<1>2. PICK s \in 0..seq : Present(hist[epoch][s]) \cap Odd # {}
  BY DEF HadOdd
<1>3. s \in 0..MaxSeq /\ s \in 0..seq'
  BY <1>1, Bounds
<1>4. Known(epoch, s)
  <2>1. Known(epoch, seq)
    BY DEF AllKnown, SetKnown
  <2>2. kSeq \in Nat
    BY Bounds, Parts DEF KeeperOK
  <2> QED BY <1>1, <1>2, <2>1, <2>2 DEF Known
<1>5. hist'[epoch][s] = hist[epoch][s]
  BY <1>1, <1>3, <1>4, KnownKept
<1> QED BY <1>2, <1>3, <1>5 DEF HadOdd, Present

LEMMA HashKept ==
  ASSUME TypeOK, [Next]_vars, AllKnown, HashInv,
         UNCHANGED <<ready, epoch, seq, comp, hash>>, snapBad' => snapBad
  PROVE  HashInv'
<1>1. Present(comp)' = Present(comp)
  BY DEF Present
<1>2. snapBad' => ready' /\ HadOdd'
  BY OddKept DEF HashInv
<1> QED BY <1>1, <1>2 DEF HashInv

\* Words that need no second thought, as pairs.
LEMMA Pairs ==
  ASSUME NEW V, NEW x \in V \X {FALSE} PROVE \E v \in V : x = <<v, FALSE>>
<1>1. \A F : x \in V \X {F} => \E v \in V : x = <<v, F>>
  OBVIOUS
<1> QED BY <1>1, Zenon

\* Toggling the words of what comes or goes gives the words of what is there.
LEMMA Toggling ==
  ASSUME TypeOK, NEW recs \in SUBSET Values, NEW new \in Contents,
         hash = Present(comp) \X {FALSE}, NEW flip,
         flip = {<<v, FALSE>> : v \in {r \in recs : Toggled(r, new[r])}},
         comp' = [v \in Values |-> IF v \in recs THEN new[v] ELSE comp[v]],
         hash' = (hash \ flip) \cup (flip \ hash)
  PROVE  hash' = Present(comp') \X {FALSE}
<1>1. \A v \in Values : <<v, FALSE>> \in flip <=> v \in recs /\ Toggled(v, new[v])
  OBVIOUS
<1>2. \A v \in Values : <<v, FALSE>> \in hash <=> comp[v] # Absent
  BY DEF Present
<1>3. \A v \in Values : <<v, FALSE>> \in hash' <=> comp'[v] # Absent
  BY <1>1, <1>2 DEF Toggled
<1>4. hash' \subseteq Values \X {FALSE}
  <2>1. ASSUME NEW x \in flip PROVE x \in Values \X {FALSE}
    <3>1. PICK v \in recs : x = <<v, FALSE>>
      OBVIOUS
    <3> QED BY <3>1
  <2>2. hash \subseteq Values \X {FALSE}
    BY DEF TypeOK
  <2> QED BY <2>1, <2>2
<1>5. \A x \in Values \X {FALSE} : x \in hash' <=> x \in Present(comp') \X {FALSE}
  <2> TAKE x \in Values \X {FALSE}
  <2>1. PICK v \in Values : x = <<v, FALSE>>
    BY Pairs
  <2>2. <<v, FALSE>> \in Present(comp') \X {FALSE} <=> comp'[v] # Absent
    BY DEF Present
  <2> QED BY <1>3, <2>1, <2>2
<1>6. Present(comp') \X {FALSE} \subseteq Values \X {FALSE}
  BY DEF Present
<1> QED BY <1>4, <1>5, <1>6

LEMMA AppliedHash ==
  ASSUME TypeOK, [Next]_vars, AllKnown, HashInv, ready, NEW e \in 1..MaxEpoch,
         seq + 1 \in 1..MaxSeq,
         ApplyPackage(e, Rest(snapBad)) \/ ApplyPackage(e, Continue)
  PROVE  HashInv'
<1>1. CASE UNCHANGED <<ready, epoch, seq, comp, hash>> /\ Snapshot
  BY <1>1, HashKept DEF Snapshot, Rest
<1>2. CASE ~(UNCHANGED <<ready, epoch, seq, comp, hash>> /\ Snapshot)
  <2> DEFINE recs == Records(e, seq + 1)
             flip == {<<v, FALSE>> : v \in {r \in recs : Toggled(r, hist[e][seq + 1][r])}}
  <2>1. /\ comp' = [v \in Values |-> IF v \in recs THEN hist[e][seq + 1][v] ELSE comp[v]]
        /\ hash' = (hash \ flip) \cup (flip \ hash)
        /\ seq' = seq + 1 /\ UNCHANGED <<ready, epoch>>
    BY <1>2 DEF ApplyPackage
  <2>2. Rest(snapBad) \/ Continue \/ Snapshot
    BY <1>2 DEF ApplyPackage, Verify
  <2>3. snapBad' => snapBad
    BY <2>2 DEF Rest, Continue, Snapshot
  <2>4. snapBad' => ready' /\ HadOdd'
    BY <2>1, <2>3, OddKept DEF HashInv
  <2>5. hist[e][seq + 1] \in Contents /\ recs \in SUBSET Values
    BY Bounds, Parts DEF KeeperOK, Records
  <2>6. flip = {<<v, FALSE>> : v \in {r \in recs : Toggled(r, hist[e][seq + 1][r])}}
    OBVIOUS
  <2>7. hash' = Present(comp') \X {FALSE}
    <3> HIDE DEF recs, flip
    <3> QED BY <2>1, <2>5, <2>6, Toggling DEF HashInv
  <2> HIDE DEF recs, flip
  <2> QED BY <2>4, <2>7 DEF HashInv, Present
<1> QED BY <1>1, <1>2

LEMMA HashStep == TypeOK /\ AllKnown /\ HashInv /\ [Next]_vars => HashInv'
<1> SUFFICES ASSUME TypeOK, AllKnown, HashInv, [Next]_vars PROVE HashInv'
  OBVIOUS
<1>1. CASE OnFrame
  <2> DEFINE f == Head(in)
  <2>1. CASE OnStrange(f) \/ OnKnown(f) \/ OnBehind(f)
    BY <2>1, HashKept DEF OnStrange, OnKnown, OnBehind, Verify, Snapshot, Rest, set
  <2>2. CASE OnInline(f)
    <3>1. f \in Frames /\ f.epoch = epoch /\ f.seq = seq + 1 /\ ready
      BY <2>2, HeadTailProperties, Parts DEF OnInline, Receive, ChannelOK
    <3>2. f.epoch \in 1..MaxEpoch /\ seq + 1 \in 1..MaxSeq
      BY <3>1, Bounds, Parts DEF SetOK, Frames
    <3> HIDE DEF f
    <3>3. ApplyPackage(f.epoch, Rest(snapBad))
      BY <2>2 DEF OnInline
    <3> QED BY <3>1, <3>2, <3>3, AppliedHash
  <2> QED BY <1>1, <2>1, <2>2 DEF OnFrame
<1>2. CASE ApplyNext
  <2>1. CASE Head(todo.objs) = 0
    BY <1>2, <2>1, HashKept DEF ApplyNext, Snapshot, Rest
  <2>2. CASE Head(todo.objs) # 0
    <3>1. /\ todo.objs \in Seq(0..MaxEpoch) /\ todo.objs # << >> /\ ready
          /\ seq \in 0..MaxSeq /\ todo.upto \in 0..MaxSeq
          /\ seq + Len(todo.objs) <= todo.upto
      BY <1>2, Parts DEF ApplyNext, WorkOK, Work, SetOK
    <3>2. Len(todo.objs) \in Nat \ {0} /\ Head(todo.objs) \in 0..MaxEpoch
      BY <3>1, HeadTailProperties, LenProperties, EmptySeq
    <3>3. seq + 1 \in 1..MaxSeq /\ Head(todo.objs) \in 1..MaxEpoch
      BY <2>2, <3>1, <3>2, Bounds
    <3>4. ApplyPackage(Head(todo.objs), Continue)
      BY <1>2, <2>2 DEF ApplyNext
    <3> QED BY <3>1, <3>3, <3>4, AppliedHash
  <2> QED BY <2>1, <2>2
<1>3. CASE Fetch
  <2>1. CASE UNCHANGED <<ready, epoch, seq, comp, hash>> /\ Rest(snapBad)
    BY <2>1, HashKept DEF Rest
  <2>2. CASE ~(UNCHANGED <<ready, epoch, seq, comp, hash>> /\ Rest(snapBad))
    <3> DEFINE c == hist[todo.epoch][todo.seq]
    <3>1. /\ ready' = TRUE /\ epoch' = todo.epoch /\ seq' = todo.seq /\ hist' = hist
          /\ comp' = c /\ hash' = Present(c) \X {FALSE} /\ snapBad' = (hash' # KeeperHash(c))
      BY <1>3, <2>2 DEF Fetch, Rest, keeper
    <3>2. ASSUME snapBad' PROVE HadOdd'
      <4>1. Present(c) \X {FALSE} # {<<v, v \in Odd>> : v \in Present(c)}
        BY <3>1, <3>2 DEF KeeperHash
      <4> HIDE DEF c
      <4>2. Present(c) \cap Odd # {}
        <5> SUFFICES ASSUME \A v \in Present(c) : v \notin Odd PROVE FALSE
          OBVIOUS
        <5>1. ASSUME NEW v \in Present(c) PROVE (v \in Odd) = FALSE
          <6>1. v \notin Odd
            OBVIOUS
          <6> QED BY <6>1, SMT
        <5>2. {<<v, v \in Odd>> : v \in Present(c)} = {<<v, FALSE>> : v \in Present(c)}
          BY <5>1, Zenon
        <5>3. {<<v, FALSE>> : v \in Present(c)} = Present(c) \X {FALSE}
          <6>1. \A x \in Present(c) \X {FALSE} : \E v \in Present(c) : x = <<v, FALSE>>
            BY Pairs
          <6>2. \A v \in Present(c) : <<v, FALSE>> \in Present(c) \X {FALSE}
            OBVIOUS
          <6> QED BY <6>1, <6>2
        <5> QED BY <4>1, <5>2, <5>3
      <4>3. todo.seq \in 0..todo.seq
        BY Parts DEF WorkOK, Work
      <4> QED BY <3>1, <4>2, <4>3 DEF HadOdd, Present, c
    <3> QED BY <3>1, <3>2 DEF HashInv, Present
  <2> QED BY <1>3, <2>1, <2>2 DEF Fetch
<1>4. CASE ReadPackages \/ Request
  BY <1>4, HashKept DEF ReadPackages, Request, Rest
<1>5. CASE Restart
  BY <1>5 DEF Restart, HashInv, Present, Empty
<1>6. CASE UNCHANGED set
  BY <1>6, HashKept DEF set
<1> QED BY <1>1, <1>2, <1>3, <1>4, <1>5, <1>6
  DEF Next, Run, Change, Expire, NewEpoch, KeeperTick, Resync, vars

\* The hash of the mirror is that of its list from scratch, by whatever packages
\* and snapshots it came, and it gives up on snapshots only where keeper and
\* mirror hash a value differently (livelist.go:134-171, 677-690).
THEOREM HashFollowsList == Spec => []HashIsOfList
<1>1. Init => HashInv
  BY DEF Init, HashInv, Present, Empty
<1>2. HashInv => HashIsOfList
  BY DEF HashInv, HashIsOfList, HadOdd
<1> QED BY <1>1, <1>2, TypeInit, TypeStep, KnownInit, KnownStep, HashStep, PTL DEF Spec
=============================================================================
