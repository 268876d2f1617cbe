----------------------------- MODULE LogProofs -----------------------------
(***************************************************************************)
(* What the staging log promises, for every geometry and any number of     *)
(* blocks, readers, segments and crashes.  First its types, one lemma per  *)
(* action because most actions rewrite one file of a table of files, and   *)
(* the order of its durability frontiers.  Then what a guest sees: a crash *)
(* at any instant loses nothing it was promised, the index over the base   *)
(* view is the published image, a captured read returns its snapshot, and  *)
(* the log with its worker, crashes and recoveries implements              *)
(* DurableImage.  Files, frontiers, carrier and background transaction     *)
(* depend on each other, so one invariant relates them all; index and read *)
(* plans rest on it.                                                       *)
(***************************************************************************)
EXTENDS AppendLog, SequenceTheorems, FiniteSetTheorems, WellFoundedInduction, TLAPS

USE DEF media, guest, frontiers, memory

\* A function over the domain of a sequence, with values in T, is a sequence.
LEMMA SameDomainSeq ==
  ASSUME NEW S, NEW T, NEW sq \in Seq(S), NEW f \in [DOMAIN sq -> T]
  PROVE  f \in Seq(T)
BY LenProperties, SeqDef

\* The greatest member of a set of naturals, or 0, is a natural.
LEMMA GreatestNat ==
  ASSUME NEW S \in SUBSET Nat PROVE Greatest(S) \in Nat
BY DEF Greatest

\* The least member of a set of naturals, or 0, is a natural.
LEMMA LeastNat ==
  ASSUME NEW S \in SUBSET Nat PROVE Least(S) \in Nat
BY DEF Least

\* The newest mutation of a block is a sequence number.
LEMMA LastTouchNat ==
  ASSUME NEW h, NEW lo \in Nat, NEW hi \in Nat, NEW b
  PROVE  LastTouch(h, lo, hi, b) \in Nat
<1>1. {n \in (lo + 1)..hi : h[n].block = b} \in SUBSET Nat
  OBVIOUS
<1> QED BY <1>1, GreatestNat DEF LastTouch

\* Replacing the batches of one segment keeps the table of segments typed.
LEMMA DiskExcept ==
  ASSUME NEW d, d \in [DOMAIN d -> SegmentType],
         NEW s, NEW bs, s \in DOMAIN d => bs \in Seq(BatchType)
  PROVE  /\ DOMAIN [d EXCEPT ![s].batches = bs] = DOMAIN d
         /\ [d EXCEPT ![s].batches = bs] \in [DOMAIN d -> SegmentType]
BY DEF SegmentType

\* A reserved batch has the type of a batch.
LEMMA BatchTyped ==
  ASSUME NEW last \in Nat, NEW data \in Seq(Mutation)
  PROVE  Batch(last, data) \in BatchType
BY DEF Batch, BatchType

\* fdatasync keeps the batches of a file typed.
LEMMA SyncedTyped ==
  ASSUME NEW bs \in Seq(BatchType)
  PROVE  Synced(bs) \in Seq(BatchType)
<1>1. \A i \in DOMAIN bs : bs[i] \in BatchType
  BY LenProperties
<1>2. \A x \in BatchType : [x EXCEPT !.st = "synced"] \in BatchType
  BY DEF BatchType
<1>3. Synced(bs) \in [DOMAIN bs -> BatchType]
  BY <1>1, <1>2 DEF Synced
<1> QED BY <1>3, SameDomainSeq

\* A segment file has typed batches.
LEMMA CurrentTyped ==
  ASSUME DiskOK, NEW s \in DOMAIN disk
  PROVE  /\ disk[s].batches \in Seq(BatchType)
         /\ disk[s].epoch \in Nat /\ disk[s].preceding \in Nat
BY DEF DiskOK, SegmentType

\* The prefix a file reaches after k batches is a sequence number.
LEMMA PrefixTyped ==
  ASSUME DiskOK, NEW s \in DOMAIN disk, NEW k \in 0..Len(disk[s].batches)
  PROVE  PrefixAt(s, k) \in Nat
<1>1. disk[s].batches \in Seq(BatchType) /\ disk[s].preceding \in Nat
  BY CurrentTyped
<1>2. k # 0 => disk[s].batches[k] \in BatchType
  BY <1>1, LenProperties, ElementOfSeq
<1> QED BY <1>1, <1>2 DEF PrefixAt, BatchType

-----------------------------------------------------------------------------
(* One lemma per action: it preserves TypeOK.                              *)

\* The new mutation extends the history.
LEMMA AdmitType ==
  ASSUME TypeOK, NEW b \in Blocks, NEW zero \in Kinds, Admit(b, zero)
  PROVE  TypeOK'
<1>1. [block |-> b, zero |-> zero, epoch |-> attach] \in Mutation
  BY ConstantsAssumption DEF TypeOK, GuestOK, Mutation
<1>2. history \in Seq(Mutation) /\ Len(history) \in Nat
  BY LenProperties DEF TypeOK, GuestOK
<1>3. history' \in Seq(Mutation)
  BY <1>1, <1>2, AppendProperties DEF Admit
<1>4. live' \subseteq Nat
  <2>1. Len(history) + 1 \in Nat
    BY <1>2
  <2> QED BY <2>1 DEF TypeOK, GuestOK, Admit
<1> QED
  BY <1>3, <1>4 DEF TypeOK, DiskOK, GuestOK, LogOK, CurrentOK, Admit

\* The reserved batch goes to the current file only.
LEMMA PrepareAppendType ==
  ASSUME TypeOK, NEW n \in 1..MaxMutations, PrepareAppend(n)
  PROVE  TypeOK'
<1>1. current \in DOMAIN disk /\ disk[current].batches \in Seq(BatchType)
  BY CurrentTyped DEF TypeOK, CurrentOK, PrepareAppend
<1>2. n \in Nat /\ issued \in Nat /\ n <= Len(history)
  BY ConstantsAssumption, SMTT(30) DEF TypeOK, LogOK, PrepareAppend
<1>3. \A i \in (issued + 1)..n : history[i] \in Mutation
  BY <1>2, LenProperties, ElementOfSeq DEF TypeOK, GuestOK
<1>4. SubSeq(history, issued + 1, n) \in Seq(Mutation)
  BY <1>2, <1>3, SubSeqProperties
<1>5. NextBatch(n) \in BatchType
  BY <1>2, <1>4, BatchTyped DEF NextBatch
<1>6. Append(disk[current].batches, NextBatch(n)) \in Seq(BatchType)
  BY <1>1, <1>5, AppendProperties
<1>7. DOMAIN disk' = DOMAIN disk /\ disk' \in [DOMAIN disk -> SegmentType]
  BY <1>6, DiskExcept DEF PrepareAppend, TypeOK, DiskOK
<1> QED
  BY <1>2, <1>7 DEF TypeOK, DiskOK, GuestOK, LogOK, CurrentOK, PrepareAppend

\* Only the state of one batch changes.
LEMMA WriteCompleteType ==
  ASSUME TypeOK, NEW i \in 1..Capacity, WriteComplete(i)
  PROVE  TypeOK'
<1>1. current \in DOMAIN disk /\ disk[current].batches \in Seq(BatchType)
  BY CurrentTyped DEF TypeOK, CurrentOK, WriteComplete
<1>2. \A x \in BatchType : [x EXCEPT !.st = "written"] \in BatchType
  BY DEF BatchType
<1>3. i \in DOMAIN disk[current].batches
  BY DEF WriteComplete
<1>4. disk[current].batches[i] \in BatchType
  BY <1>1, <1>3, LenProperties
<1> DEFINE new == [disk[current].batches EXCEPT
                      ![i] = [@ EXCEPT !.st = "written"]]
<1>5. new \in [DOMAIN disk[current].batches -> BatchType]
  BY <1>1, <1>2, <1>4, LenProperties
<1>6. new \in Seq(BatchType)
  BY <1>1, <1>5, SameDomainSeq
<1>7. disk' = [disk EXCEPT ![current].batches = new]
  BY <1>1 DEF WriteComplete
<1>8. DOMAIN disk' = DOMAIN disk /\ disk' \in [DOMAIN disk -> SegmentType]
  BY <1>6, <1>7, DiskExcept DEF TypeOK, DiskOK
<1> QED
  BY <1>8 DEF TypeOK, DiskOK, GuestOK, LogOK, CurrentOK, WriteComplete

\* The index maps blocks to mutations of the history.
LEMMA PublishAppendType ==
  ASSUME TypeOK, NEW i \in 1..Capacity, PublishAppend(i)
  PROVE  TypeOK'
<1>1. current \in DOMAIN disk /\ disk[current].batches \in Seq(BatchType)
  BY CurrentTyped DEF TypeOK, CurrentOK, PublishAppend, Healthy
<1>2. disk[current].batches[i] \in BatchType
  BY <1>1, LenProperties DEF PublishAppend
<1>3. disk[current].batches[i].last \in Nat
  BY <1>2 DEF BatchType
<1>4. published' \in Nat /\ acked' \in Nat
  BY <1>3 DEF TypeOK, GuestOK, PublishAppend
<1>5. index' \in [Blocks -> Nat]
  BY <1>3, LastTouchNat DEF TypeOK, LogOK, PublishAppend
<1> QED
  BY <1>4, <1>5 DEF TypeOK, DiskOK, GuestOK, LogOK, CurrentOK, PublishAppend

\* A fence is a batch without mutations.
LEMMA PrepareFenceType ==
  ASSUME TypeOK, PrepareFence
  PROVE  TypeOK'
<1>1. current \in DOMAIN disk /\ disk[current].batches \in Seq(BatchType)
  BY CurrentTyped DEF TypeOK, CurrentOK, PrepareFence, Healthy
<1>2. Batch(issued, <<>>) \in BatchType
  BY BatchTyped, EmptySeq DEF TypeOK, LogOK
<1>3. Append(disk[current].batches, Batch(issued, <<>>)) \in Seq(BatchType)
  BY <1>1, <1>2, AppendProperties
<1>4. DOMAIN disk' = DOMAIN disk /\ disk' \in [DOMAIN disk -> SegmentType]
  BY <1>3, DiskExcept DEF PrepareFence, TypeOK, DiskOK
<1> QED
  BY <1>4 DEF TypeOK, DiskOK, GuestOK, LogOK, CurrentOK, PrepareFence

\* Every batch of the current file changes state.
LEMMA SyncDataType ==
  ASSUME TypeOK, SyncData
  PROVE  TypeOK'
<1>1. current \in DOMAIN disk /\ disk[current].batches \in Seq(BatchType)
  BY CurrentTyped DEF TypeOK, CurrentOK, SyncData, ReadyToSync, Healthy
<1>2. DOMAIN disk' = DOMAIN disk /\ disk' \in [DOMAIN disk -> SegmentType]
  BY <1>1, SyncedTyped, DiskExcept DEF SyncData, TypeOK, DiskOK
<1> QED
  BY <1>2 DEF TypeOK, DiskOK, GuestOK, LogOK, CurrentOK, SyncData

\* The carrier takes the epoch of the current file.
LEMMA AttachType ==
  ASSUME TypeOK, Attach
  PROVE  TypeOK'
<1>1. attach' \in Nat
  BY CurrentTyped DEF TypeOK, CurrentOK, Attach
<1> QED
  BY <1>1 DEF TypeOK, DiskOK, GuestOK, LogOK, CurrentOK, Attach

\* The new file joins the table of segments.
LEMMA FinishCreateType ==
  ASSUME TypeOK, FinishCreate
  PROVE  TypeOK'
<1>1. mode # "down" /\ highest \in Nat /\ current \in DOMAIN disk
  BY DEF TypeOK, DiskOK, CurrentOK, FinishCreate, Idle
<1>2. EpochOf(highest + 1) \in Nat
  BY <1>1, CurrentTyped DEF EpochOf, TypeOK
<1>3. [epoch |-> EpochOf(highest + 1), preceding |-> published,
       batches |-> <<>>] \in SegmentType
  BY <1>2, EmptySeq DEF TypeOK, LogOK, SegmentType
<1>4. /\ DOMAIN disk' = DOMAIN disk \cup {highest + 1}
      /\ disk' \in [DOMAIN disk' -> SegmentType]
  BY <1>3 DEF TypeOK, DiskOK, FinishCreate
<1>5. job' \in JobType /\ highest' \in DOMAIN disk' /\ highest' \in Nat
  BY <1>1, <1>4, SMTT(30) DEF TypeOK, JobType, FinishCreate
<1> QED
  BY <1>1, <1>4, <1>5, SMTT(30) DEF TypeOK, DiskOK, GuestOK, LogOK, CurrentOK,
    FinishCreate, Idle

\* BeginCreate keeps every variable typed.
LEMMA BeginCreateType ==
  ASSUME TypeOK, BeginCreate
  PROVE  TypeOK'
<1>1. job' \in JobType /\ job'.kind = "creating"
  BY SMTT(30) DEF TypeOK, JobType, BeginCreate
<1> QED
  BY <1>1, SMTT(30) DEF TypeOK, DiskOK, GuestOK, LogOK, CurrentOK, BeginCreate, Healthy

\* Applying typed mutations to a view gives a view.
LEMMA ApplyTyped ==
  ASSUME NEW v \in ViewType, NEW h, NEW hi \in Nat,
         \A n \in (v.d + 1)..hi : h[n].epoch \in Nat
  PROVE  Apply(v, h, hi) \in ViewType
<1>1. v.d \in Nat /\ v.map \in [Blocks -> Nat \X Nat]
  BY DEF ViewType, ValueType
<1>2. ASSUME NEW b \in Blocks, LastTouch(h, v.d, hi, b) # 0
      PROVE  LastTouch(h, v.d, hi, b) \in (v.d + 1)..hi
  BY <1>1, <1>2 DEF LastTouch, Greatest
<1>3. ASSUME NEW b \in Blocks, LastTouch(h, v.d, hi, b) # 0
      PROVE  Value(LastTouch(h, v.d, hi, b), h[LastTouch(h, v.d, hi, b)])
               \in Nat \X Nat
  BY <1>1, <1>2, <1>3 DEF Value, Zero
<1> QED BY <1>1, <1>3 DEF Apply, ViewType, ValueType

\* What the scan recorded are mutations, so the output is a view.
LEMMA LoadCompactionType ==
  ASSUME TypeOK, LoadCompaction
  PROVE  TypeOK'
<1>1. base \in ViewType /\ base.d \in Nat /\ Cut \in Nat
      /\ Cut \in (base.d + 1)..job.through
  BY DEF TypeOK, LogOK, LoadCompaction, Cuts, ViewType, JobType
<1> DEFINE S == Scanned(job.cursor)
           h == Recorded(S, base.d, Cut)
<1>2. \A n \in (base.d + 1)..Cut : h[n].epoch \in Nat
  <2> SUFFICES ASSUME NEW n \in (base.d + 1)..Cut
               PROVE  Stored(S, n).epoch \in Nat
    BY DEF Recorded
  <2>1. PICK p \in Places(S, n) : TRUE
    BY DEF LoadCompaction, Readable
  <2> DEFINE q == CHOOSE q \in Places(S, n) : TRUE
  <2>2. q \in Places(S, n)
    BY <2>1
  <2> HIDE DEF q, S
  <2>3. /\ q[1] \in DOMAIN disk /\ q[2] \in 1..Len(disk[q[1]].batches)
        /\ Covers(disk[q[1]].batches[q[2]], n)
    BY <2>2 DEF Places
  <2>4. disk[q[1]].batches[q[2]] \in BatchType
    BY <2>3, CurrentTyped, ElementOfSeq DEF TypeOK
  <2>5. At(disk[q[1]].batches[q[2]], n) \in Mutation
    <3> DEFINE bt == disk[q[1]].batches[q[2]]
    <3>1. bt.last \in Nat /\ bt.data \in Seq(Mutation) /\ Covers(bt, n)
      BY <2>3, <2>4 DEF BatchType
    <3> HIDE DEF bt
    <3>2. Len(bt.data) \in Nat
      BY <3>1, LenProperties
    <3>3. n - First(bt) + 1 \in 1..Len(bt.data)
      BY <1>1, <3>1, <3>2 DEF Covers, First
    <3>4. bt.data[n - First(bt) + 1] \in Mutation
      BY <3>1, <3>3, ElementOfSeq
    <3> QED BY <3>4 DEF At, bt
  <2>6. Stored(S, n) \in Mutation
    BY <2>5 DEF Stored, q
  <2> QED BY <2>6 DEF Mutation
<1>3. Apply(base, h, Cut) \in ViewType
  <2> HIDE DEF h
  <2> QED BY <1>1, <1>2, ApplyTyped
<1>4. ScanEnd(Cut) \in Nat
  BY GreatestNat DEF ScanEnd, Scanned, TypeOK, LogOK
<1>5. job' \in JobType
  BY <1>1, <1>3, <1>4 DEF LoadCompaction, JobType, CursorType, TypeOK
<1>6. job'.kind = "loaded"
  BY DEF LoadCompaction, TypeOK, JobType
<1> QED
  BY <1>5, <1>6 DEF TypeOK, DiskOK, GuestOK, LogOK, CurrentOK,
    LoadCompaction, Healthy

\* A reclamation over a view is a background transaction.
LEMMA ReclamationType ==
  ASSUME TypeOK, NEW v \in ViewType
  PROVE  Reclamation(v) \in JobType
<1>1. Idle \in JobType
  BY DEF Idle, JobType, EmptyView, NoCursor, CursorType, ViewType, Zero,
    ValueType
<1>2. Least(live) \in Nat
  BY LeastNat DEF TypeOK, GuestOK
<1> QED BY <1>1, <1>2 DEF Reclamation, TypeOK, LogOK, JobType

\* The output view becomes the base.
LEMMA PublishCompactionType ==
  ASSUME TypeOK, PublishCompaction
  PROVE  TypeOK'
<1>1. job.view \in ViewType /\ job.cursor \in CursorType
  BY DEF TypeOK, JobType
<1>2. job' \in JobType
  BY <1>1, ReclamationType DEF PublishCompaction
<1>3. index' \in [Blocks -> Nat]
  BY DEF TypeOK, LogOK, PublishCompaction, RetainAfter
<1>4. job'.kind = "punch" /\ mode \notin {"down", "repair"}
  BY DEF PublishCompaction, Reclamation, Idle, Healthy
<1> QED
  BY <1>1, <1>2, <1>3, <1>4 DEF TypeOK, DiskOK, GuestOK, LogOK, CurrentOK,
    PublishCompaction

\* SelectReclamation keeps every variable typed.
LEMMA SelectReclamationType ==
  ASSUME TypeOK, SelectReclamation
  PROVE  TypeOK'
<1>1. job' \in JobType
  BY ReclamationType DEF SelectReclamation, TypeOK, LogOK
<1>2. job'.kind = "punch"
  BY DEF SelectReclamation, Reclamation, Idle
<1> QED
  BY <1>1, <1>2 DEF TypeOK, DiskOK, GuestOK, LogOK, CurrentOK,
    SelectReclamation

\* PunchSegment keeps every variable typed.
LEMMA PunchSegmentType ==
  ASSUME TypeOK, NEW s, PunchSegment(s)
  PROVE  TypeOK'
<1> DEFINE bs == disk[s].batches
           new == [i \in DOMAIN bs |->
                     IF /\ HasPayload(bs[i]) /\ bs[i].last <= job.view.d
                        /\ ~Pinned(s, i)
                     THEN [bs[i] EXCEPT !.punched = TRUE] ELSE bs[i]]
<1>1. ASSUME s \in DOMAIN disk PROVE new \in Seq(BatchType)
  <2>1. bs \in Seq(BatchType)
    BY <1>1, CurrentTyped DEF TypeOK
  <2>2. \A x \in BatchType : [x EXCEPT !.punched = TRUE] \in BatchType
    BY DEF BatchType
  <2>3. new \in [DOMAIN bs -> BatchType]
    BY <2>1, <2>2, LenProperties
  <2> QED BY <2>1, <2>3, SameDomainSeq
<1>2. disk' = [disk EXCEPT ![s].batches = new]
  BY DEF PunchSegment
<1>3. DOMAIN disk' = DOMAIN disk /\ disk' \in [DOMAIN disk -> SegmentType]
  <2> HIDE DEF new
  <2> QED BY <1>1, <1>2, DiskExcept DEF TypeOK, DiskOK
<1>4. job' \in JobType /\ job'.kind = "unlink"
  BY SMTT(30) DEF TypeOK, JobType, PunchSegment
<1> QED
  BY <1>3, <1>4 DEF TypeOK, DiskOK, GuestOK, LogOK, CurrentOK,
    PunchSegment, Idle

\* The current segment is never removed.
LEMMA UnlinkSegmentType ==
  ASSUME TypeOK, NEW s, UnlinkSegment(s)
  PROVE  TypeOK'
<1>1. mode \notin {"down", "repair"}
  BY DEF TypeOK, CurrentOK, UnlinkSegment, Idle
<1>2. Removable(s) => s # current
  BY DEF Removable
<1>3. /\ DOMAIN disk' \subseteq Nat /\ disk' \in [DOMAIN disk' -> SegmentType]
      /\ current \in DOMAIN disk'
  BY <1>1, <1>2 DEF TypeOK, DiskOK, CurrentOK, UnlinkSegment
<1>4. job' \in JobType /\ job'.kind = "punch"
  BY DEF TypeOK, JobType, UnlinkSegment
<1> QED
  BY <1>1, <1>3, <1>4 DEF TypeOK, DiskOK, GuestOK, LogOK, CurrentOK,
    UnlinkSegment

\* ReadPlan keeps every variable typed.
LEMMA ReadPlanType ==
  ASSUME TypeOK, NEW r \in Readers, NEW b \in Blocks, ReadPlan(r, b)
  PROVE  TypeOK'
<1>1. \A p \in Places(segs, index[b]) : p[1] \in Nat
  BY DEF Places, TypeOK, DiskOK
<1> DEFINE n == index[b]
           staged == n # 0 /\ ~history[n].zero
           Plan(s) == [on |-> TRUE, block |-> b, upto |-> published,
                       seq |-> IF staged THEN n ELSE 0, seg |-> s,
                       value |-> IF n = 0 THEN base.map[b] ELSE Zero]
<1>2. PICK s \in IF staged THEN {p[1] : p \in Places(segs, n)} ELSE {0} :
        plans' = [plans EXCEPT ![r] = Plan(s)]
  BY DEF ReadPlan
<1>3. s \in Nat
  BY <1>1, <1>2
<1>4. n \in Nat /\ published \in Nat /\ base.map[b] \in ValueType
  BY DEF TypeOK, LogOK, ViewType
<1>5. Zero \in ValueType
  BY DEF Zero, ValueType
<1>6. Plan(s) \in PlanType
  BY <1>3, <1>4, <1>5 DEF PlanType
<1>7. plans' \in [Readers -> PlanType]
  <2> HIDE DEF Plan
  <2> QED BY <1>2, <1>6 DEF TypeOK, GuestOK
<1> QED
  BY <1>7 DEF TypeOK, DiskOK, GuestOK, LogOK, CurrentOK, ReadPlan

\* ReadDone keeps every variable typed.
LEMMA ReadDoneType ==
  ASSUME TypeOK, NEW r \in Readers, ReadDone(r)
  PROVE  TypeOK'
<1>1. plans' \in [Readers -> PlanType]
  BY DEF ReadDone, TypeOK, GuestOK, NoPlan, PlanType, ValueType, Zero
<1> QED
  BY <1>1 DEF TypeOK, DiskOK, GuestOK, LogOK, CurrentOK, ReadDone

\* Files keep their batches, memory is reset.
LEMMA CrashType ==
  ASSUME TypeOK, NEW power \in BOOLEAN, NEW lost, NEW gone,
         Crash(power, lost, gone)
  PROVE  TypeOK'
<1>2. ASSUME NEW s \in DOMAIN disk
      PROVE  [i \in DOMAIN disk[s].batches |->
                 Settle(disk[s].batches[i], <<s, i>> \in lost, power)]
               \in Seq(BatchType)
  <2>1. disk[s].batches \in Seq(BatchType)
    BY CurrentTyped DEF TypeOK
  <2>2. \A i \in DOMAIN disk[s].batches : disk[s].batches[i] \in BatchType
    BY <2>1, LenProperties
  <2>3. \A i \in DOMAIN disk[s].batches :
          Settle(disk[s].batches[i], <<s, i>> \in lost, power) \in BatchType
    BY <2>2 DEF Settle, BatchType
  <2>4. [i \in DOMAIN disk[s].batches |->
           Settle(disk[s].batches[i], <<s, i>> \in lost, power)]
          \in [DOMAIN disk[s].batches -> BatchType]
    BY <2>3
  <2> QED BY <2>1, <2>4, SameDomainSeq
<1>3. DOMAIN disk' = DOMAIN disk /\ disk' \in [DOMAIN disk -> SegmentType]
  BY <1>2 DEF Crash, TypeOK, DiskOK, SegmentType
<1>4. plans' \in [Readers -> PlanType]
  BY DEF Crash, NoPlan, PlanType, ValueType, Zero
<1>5. Idle \in JobType /\ Idle.kind = "idle" /\ EmptyView \in ViewType
      /\ NoCursor \in CursorType
  BY DEF Idle, JobType, EmptyView, NoCursor, CursorType, ViewType, Zero,
    ValueType
<1>6. DiskOK'
  BY <1>3 DEF TypeOK, DiskOK, Crash
<1>7. GuestOK'
  BY <1>4 DEF TypeOK, GuestOK, Crash
<1>8. LogOK'
  <2>1. /\ mode' = "down" /\ failed' = FALSE /\ fenced' = FALSE
        /\ published' = 0 /\ issued' = 0 /\ durable' = 0
        /\ cohort' = NoCohort /\ index' = [b \in Blocks |-> 0]
        /\ base' = EmptyView /\ segs' = {} /\ current' = 0
        /\ cursor' = NoCursor /\ promised' = promised
        /\ crashes' = crashes + 1
    BY DEF Crash
  <2>2. promised \in Nat /\ crashes \in Nat
    BY DEF TypeOK, LogOK
  <2>3. crashes' \in Nat
    BY <2>1, <2>2
  <2>4. index' \in [Blocks -> Nat]
    BY <2>1
  <2> QED BY <1>5, <2>1, <2>2, <2>3, <2>4 DEF LogOK
<1>9. CurrentOK' /\ job' \in JobType
  BY <1>5 DEF CurrentOK, Crash
<1> QED BY <1>6, <1>7, <1>8, <1>9 DEF TypeOK

\* The recovered frontiers are numbers read from the kept files.
LEMMA InspectType ==
  ASSUME TypeOK, Inspect
  PROVE  TypeOK'
<1>1. Newest \in Kept /\ Kept \subseteq DOMAIN disk /\ DOMAIN disk \subseteq Nat
  BY DEF Inspect, Kept, TypeOK, DiskOK
<1>2. Good(Newest) \in 0..Len(disk[Newest].batches)
  BY DEF Inspect, Goods
<1>3. Prefix \in Nat
  BY <1>1, <1>2, PrefixTyped DEF Prefix, TypeOK
<1>4. manifest \in ViewType /\ manifest.d \in Nat
  BY DEF TypeOK, DiskOK, ViewType
<1>5. index' \in [Blocks -> Nat]
  BY <1>3, <1>4, LastTouchNat DEF Inspect
<1>6. cursor' \in CursorType
  <2> DEFINE at == {s \in Kept : \E i \in 1..Good(s) :
                                   PrefixAt(s, i) = manifest.d}
  <2>1. Greatest(at) \in Nat
    BY <1>1, GreatestNat
  <2>2. cursor' = IF at = {} THEN NoCursor
                  ELSE [seg |-> Greatest(at), seq |-> manifest.d]
    BY DEF Inspect
  <2> QED BY <1>4, <2>1, <2>2 DEF NoCursor, CursorType
<1> QED
  BY <1>1, <1>3, <1>4, <1>5, <1>6 DEF TypeOK, DiskOK, GuestOK, LogOK,
    CurrentOK, Inspect

\* The current file is truncated, never removed.
LEMMA RepairFileType ==
  ASSUME TypeOK, NEW s, RepairFile(s)
  PROVE  TypeOK'
<1>1. current \in DOMAIN disk /\ disk[current].batches \in Seq(BatchType)
  BY CurrentTyped DEF TypeOK, CurrentOK, RepairFile
<1>2. CASE s = current
  <2> DEFINE keep == SubSeq(disk[s].batches, 1, Good(s))
  <2>1. Good(s) \in 0..Len(disk[s].batches)
    <3>1. Good(s) = 0 \/ Good(s) \in Goods(s)
      BY DEF Good, Greatest
    <3>2. Len(disk[s].batches) \in Nat
      BY <1>1, <1>2, LenProperties
    <3> QED BY <3>1, <3>2 DEF Goods
  <2>2. \A i \in 1..Good(s) : disk[s].batches[i] \in BatchType
    BY <1>1, <1>2, <2>1, ElementOfSeq, LenProperties
  <2>3. keep \in Seq(BatchType)
    BY <2>1, <2>2, SubSeqProperties
  <2>4. Synced(keep) \in Seq(BatchType)
    BY <2>3, SyncedTyped
  <2>5. disk' = [disk EXCEPT ![s].batches = Synced(keep)]
    BY <1>2 DEF RepairFile
  <2>6. DOMAIN disk' = DOMAIN disk /\ disk' \in [DOMAIN disk -> SegmentType]
    <3> HIDE DEF keep
    <3> QED BY <2>4, <2>5, DiskExcept DEF TypeOK, DiskOK
  <2> QED
    BY <2>6 DEF TypeOK, DiskOK, GuestOK, LogOK, CurrentOK, RepairFile
<1>3. CASE s # current
  <2>1. /\ DOMAIN disk' \subseteq Nat
        /\ disk' \in [DOMAIN disk' -> SegmentType]
        /\ current \in DOMAIN disk'
    BY <1>1, <1>3 DEF TypeOK, DiskOK, RepairFile
  <2>2. job.kind # "created" /\ job' = job
    BY DEF TypeOK, CurrentOK, RepairFile, Idle
  <2> QED
    BY <2>1, <2>2 DEF TypeOK, DiskOK, GuestOK, LogOK, CurrentOK, RepairFile
<1> QED BY <1>2, <1>3

\* A cold start truncates the history.
LEMMA StartRecoveredType ==
  ASSUME TypeOK, StartRecovered
  PROVE  TypeOK'
<1>1. DOMAIN disk' = DOMAIN disk /\ disk' \in [DOMAIN disk -> SegmentType]
  BY CurrentTyped, SyncedTyped DEF StartRecovered, TypeOK, DiskOK, SegmentType
<1>2. history' \in Seq(Mutation)
  <2>1. history \in Seq(Mutation) /\ published \in Nat
    BY DEF TypeOK, GuestOK, LogOK
  <2>2. published < Len(history) =>
          \A i \in 1..published : history[i] \in Mutation
    BY <2>1, ElementOfSeq, LenProperties
  <2>3. published < Len(history) =>
          SubSeq(history, 1, published) \in Seq(Mutation)
    BY <2>1, <2>2, SubSeqProperties
  <2> QED BY <2>1, <2>3 DEF StartRecovered, Truncate
<1> QED
  BY <1>1, <1>2 DEF TypeOK, DiskOK, GuestOK, LogOK, CurrentOK, StartRecovered

\* Retire keeps every variable typed.
LEMMA RetireType ==
  ASSUME TypeOK, NEW n \in live, Retire(n)
  PROVE  TypeOK'
BY DEF TypeOK, DiskOK, GuestOK, LogOK, CurrentOK, Retire

\* CompleteSync keeps every variable typed.
LEMMA CompleteSyncType ==
  ASSUME TypeOK, CompleteSync
  PROVE  TypeOK'
BY DEF TypeOK, DiskOK, GuestOK, LogOK, CurrentOK, CompleteSync

\* Fail keeps every variable typed.
LEMMA FailType ==
  ASSUME TypeOK, Fail
  PROVE  TypeOK'
BY DEF TypeOK, DiskOK, GuestOK, LogOK, CurrentOK, Fail

\* PrepareRotation keeps every variable typed.
LEMMA PrepareRotationType ==
  ASSUME TypeOK, NEW fresh \in BOOLEAN, PrepareRotation(fresh)
  PROVE  TypeOK'
BY DEF TypeOK, DiskOK, GuestOK, LogOK, CurrentOK, JobType, Idle, CursorType,
  ViewType, NoCursor, EmptyView, Zero, ValueType, Healthy, PrepareRotation

\* CancelRotation keeps every variable typed.
LEMMA CancelRotationType ==
  ASSUME TypeOK, CancelRotation
  PROVE  TypeOK'
BY DEF TypeOK, DiskOK, GuestOK, LogOK, CurrentOK, JobType, Idle, CursorType,
  ViewType, NoCursor, EmptyView, Zero, ValueType, Healthy, CancelRotation

\* InstallRotation keeps every variable typed.
LEMMA InstallRotationType ==
  ASSUME TypeOK, InstallRotation
  PROVE  TypeOK'
BY DEF TypeOK, DiskOK, GuestOK, LogOK, CurrentOK, JobType, Idle, CursorType,
  ViewType, NoCursor, EmptyView, Zero, ValueType, Healthy, InstallRotation

\* SelectCompaction keeps every variable typed.
LEMMA SelectCompactionType ==
  ASSUME TypeOK, SelectCompaction
  PROVE  TypeOK'
BY DEF TypeOK, DiskOK, GuestOK, LogOK, CurrentOK, JobType, Idle, CursorType,
  ViewType, NoCursor, EmptyView, Zero, ValueType, Healthy, SelectCompaction

\* LoadError keeps every variable typed.
LEMMA LoadErrorType ==
  ASSUME TypeOK, LoadError
  PROVE  TypeOK'
BY DEF TypeOK, DiskOK, GuestOK, LogOK, CurrentOK, JobType, Idle, CursorType,
  ViewType, NoCursor, EmptyView, Zero, ValueType, Healthy, LoadError

\* DeferCompaction keeps every variable typed.
LEMMA DeferCompactionType ==
  ASSUME TypeOK, DeferCompaction
  PROVE  TypeOK'
BY DEF TypeOK, DiskOK, GuestOK, LogOK, CurrentOK, JobType, Idle, CursorType,
  ViewType, NoCursor, EmptyView, Zero, ValueType, Healthy, DeferCompaction

\* ApplyReclamation keeps every variable typed.
LEMMA ApplyReclamationType ==
  ASSUME TypeOK, ApplyReclamation
  PROVE  TypeOK'
BY DEF TypeOK, DiskOK, GuestOK, LogOK, CurrentOK, JobType, Idle, CursorType,
  ViewType, NoCursor, EmptyView, Zero, ValueType, Healthy, ApplyReclamation

\* FinishRecovery keeps every variable typed.
LEMMA FinishRecoveryType ==
  ASSUME TypeOK, FinishRecovery
  PROVE  TypeOK'
BY DEF TypeOK, DiskOK, GuestOK, LogOK, CurrentOK, JobType, Idle, CursorType,
  ViewType, NoCursor, EmptyView, Zero, ValueType, Healthy, FinishRecovery


\* PublishManifest keeps every variable typed.
LEMMA PublishManifestType ==
  ASSUME TypeOK, PublishManifest
  PROVE  TypeOK'
<1>1. job' \in JobType /\ job'.kind = "output" /\ manifest' \in ViewType
  BY SMTT(30) DEF TypeOK, JobType, PublishManifest
<1> QED
  BY <1>1, SMTT(30) DEF TypeOK, DiskOK, GuestOK, LogOK, CurrentOK, PublishManifest, Idle

\* A new image is typed.
LEMMA InitType == Init => TypeOK
<1> SUFFICES ASSUME Init PROVE TypeOK
  OBVIOUS
<1>1. /\ Idle \in JobType /\ Idle.kind = "idle"
      /\ EmptyView \in ViewType /\ NoCursor \in CursorType
  BY DEF Idle, JobType, EmptyView, NoCursor, CursorType, ViewType, Zero,
    ValueType
<1>2. DiskOK
  BY <1>1, EmptySeq DEF Init, DiskOK, SegmentType
<1>3. GuestOK
  BY EmptySeq DEF Init, GuestOK, PlanType, NoPlan, Zero, ValueType
<1>4. LogOK
  <2>1. index \in [Blocks -> Nat]
    BY DEF Init
  <2>2. 0 \in Nat /\ 1 \in Nat /\ {1} \subseteq Nat
    OBVIOUS
  <2>3. /\ mode = "serving" /\ failed = FALSE /\ fenced = FALSE
        /\ published = 0 /\ issued = 0 /\ durable = 0
        /\ cohort = NoCohort /\ base = EmptyView /\ segs = {1}
        /\ current = 1 /\ cursor = NoCursor
        /\ promised = 0 /\ crashes = 0
    BY DEF Init
  <2> QED BY <1>1, <2>1, <2>2, <2>3 DEF LogOK
<1>5. CurrentOK /\ job \in JobType
  BY <1>1 DEF Init, CurrentOK
<1> QED BY <1>2, <1>3, <1>4, <1>5 DEF TypeOK

\* A stuttering step keeps every variable typed.
LEMMA StutterType == TypeOK /\ UNCHANGED vars => TypeOK'
BY DEF TypeOK, DiskOK, GuestOK, LogOK, CurrentOK, vars

\* Every step keeps every variable typed.
LEMMA NextType == TypeOK /\ [Next]_vars => TypeOK'
<1> SUFFICES ASSUME TypeOK, [Next]_vars PROVE TypeOK'
  OBVIOUS
<1>1. CASE GuestStep
  BY <1>1, AdmitType, AttachType, RetireType, ReadPlanType, ReadDoneType
    DEF GuestStep
<1>2. CASE AppendStep
  BY <1>2, PrepareAppendType, WriteCompleteType, PublishAppendType,
    PrepareFenceType, SyncDataType, CompleteSyncType DEF AppendStep
<1>3. CASE WorkerStep
  BY <1>3, PrepareRotationType, CancelRotationType, BeginCreateType,
    FinishCreateType, InstallRotationType, SelectCompactionType,
    LoadCompactionType, LoadErrorType, DeferCompactionType,
    PublishManifestType, PublishCompactionType, SelectReclamationType,
    ApplyReclamationType, PunchSegmentType, UnlinkSegmentType DEF
    WorkerStep
<1>4. CASE RecoveryStep
  BY <1>4, InspectType, StartRecoveredType, FinishRecoveryType,
    RepairFileType DEF RecoveryStep
<1>5. CASE CrashStep
  BY <1>5, CrashType DEF CrashStep
<1>6. CASE Fail
  BY <1>6, FailType
<1>7. CASE UNCHANGED vars
  BY <1>7, StutterType
<1> QED BY <1>1, <1>2, <1>3, <1>4, <1>5, <1>6, <1>7 DEF Next

\* The segment files, the frontiers, the index and the worker's transaction
\* always have the shape the code gives them, the segment the sequencer
\* appends to is never unlinked by reclamation or repair, and no background
\* transaction is open before recovery has repaired the files.
THEOREM TypeCorrect == Spec => []TypeOK
BY InitType, NextType, PTL DEF Spec

-----------------------------------------------------------------------------
(* D <= E <= P <= issued in every serving state of the staging log.  The   *)
(* order alone is not inductive: compaction cuts at a batch boundary, and  *)
(* recovery takes its prefix from the files, so the invariant also bounds  *)
(* the batches of the current segment and what each transaction carries.   *)

\* No batch of segment s ends above k.
Below(s, k) == \A i \in DOMAIN disk[s].batches : disk[s].batches[i].last <= k

\* Batches end in the order they were appended.
Sorted ==
  \A s \in DOMAIN disk : \A i, j \in DOMAIN disk[s].batches :
    i <= j => disk[s].batches[i].last <= disk[s].batches[j].last

\* What repair will keep of the newest segment ends at the recovered prefix.
AcceptedBelow ==
  \A i \in DOMAIN disk[current].batches :
    (\A j \in 1..i : Accepts(disk[current].batches[j]))
      => disk[current].batches[i].last <= published

FilesInv ==
  /\ Sorted
  /\ mode \notin {"down", "repair"} => Below(current, issued)
  /\ mode = "repair" => AcceptedBelow
  /\ job.kind = "created" => Below(highest, issued)

OrderInv ==
  /\ durable <= published /\ published <= issued
  /\ mode = "down" => durable = 0
  /\ mode # "down" => base.d <= manifest.d /\ manifest.d <= published
  /\ mode = "serving" => manifest.d <= durable

JobInv ==
  /\ mode # "serving" =>
       job.kind \in {"idle", "prepared", "creating", "created"}
  /\ job.kind = "selected" => job.through <= durable
  /\ job.kind = "loaded" => base.d <= job.view.d /\ job.view.d <= durable
  /\ job.kind = "output" => job.view = manifest

FrontierInv == FilesInv /\ OrderInv /\ JobInv

\* The files that remain hold the batches they held.
LastsKept ==
  \A s \in DOMAIN disk' :
    /\ s \in DOMAIN disk
    /\ DOMAIN disk'[s].batches = DOMAIN disk[s].batches
    /\ \A i \in DOMAIN disk[s].batches :
         disk'[s].batches[i].last = disk[s].batches[i].last

\* Keeping every batch end keeps the batches sorted.
LEMMA SortedKept ==
  ASSUME Sorted, LastsKept PROVE Sorted'
BY DEF Sorted, LastsKept

\* Keeping every batch end keeps the bound on a segment.
LEMMA BelowKept ==
  ASSUME LastsKept, NEW s \in DOMAIN disk', NEW k, Below(s, k)
  PROVE  \A i \in DOMAIN disk'[s].batches : disk'[s].batches[i].last <= k
BY DEF Below, LastsKept

\* Frontiers and jobs as numbers and views.
LEMMA Numbers ==
  ASSUME TypeOK
  PROVE  /\ published \in Nat /\ issued \in Nat /\ durable \in Nat
         /\ manifest.d \in Nat /\ base.d \in Nat
         /\ job.through \in Nat /\ job.view.d \in Nat /\ job.view \in ViewType
BY DEF TypeOK, DiskOK, LogOK, JobType, ViewType

\* Every batch end is a sequence number.
LEMMA LastNat ==
  ASSUME NEW bs \in Seq(BatchType)
  PROVE  \A i \in DOMAIN bs : bs[i].last \in Nat
<1>1. \A i \in DOMAIN bs : bs[i] \in BatchType
  BY LenProperties
<1> QED BY <1>1 DEF BatchType

\* Appending a batch that ends no lower than every earlier one.
LEMMA AppendSorted ==
  ASSUME NEW bs \in Seq(BatchType), NEW bt \in BatchType,
         NEW k \in Nat, bt.last >= k,
         \A i \in DOMAIN bs : bs[i].last <= k,
         \A i, j \in DOMAIN bs : i <= j => bs[i].last <= bs[j].last
  PROVE  LET new == Append(bs, bt) IN
         /\ \A i \in DOMAIN new : new[i].last <= bt.last
         /\ \A i, j \in DOMAIN new : i <= j => new[i].last <= new[j].last
<1> DEFINE new == Append(bs, bt)
<1>1. /\ Len(bs) \in Nat /\ DOMAIN bs = 1..Len(bs)
      /\ new \in Seq(BatchType) /\ Len(new) = Len(bs) + 1
      /\ \A i \in 1..Len(bs) : new[i] = bs[i]
      /\ new[Len(bs) + 1] = bt
  BY AppendProperties, LenProperties
<1>2. DOMAIN new = 1..(Len(bs) + 1)
  BY <1>1, LenProperties
<1>3. \A i \in DOMAIN bs : bs[i].last \in Nat
  BY LastNat
<1>4. bt.last \in Nat
  BY DEF BatchType
<1> HIDE DEF new
<1>5. \A i \in DOMAIN new : i = Len(bs) + 1 \/ i \in DOMAIN bs
  BY <1>1, <1>2
<1>6. \A i \in DOMAIN new : new[i].last <= bt.last
  BY <1>1, <1>2, <1>3, <1>4, <1>5
<1>7. ASSUME NEW i \in DOMAIN new, NEW j \in DOMAIN new, i <= j
      PROVE  new[i].last <= new[j].last
  <2>1. CASE j = Len(bs) + 1
    BY <1>1, <1>6, <2>1
  <2>2. CASE j \in DOMAIN bs
    <3>1. i \in DOMAIN bs
      BY <1>1, <1>2, <1>7, <2>2
    <3> QED BY <1>1, <1>7, <2>2, <3>1
  <2> QED BY <1>5, <2>1, <2>2
<1> QED BY <1>6, <1>7 DEF new

\* An action that leaves the files, the mode and the frontiers alone.
LEMMA FilesKept ==
  ASSUME FilesInv, LastsKept, UNCHANGED <<current, highest, issued, mode>>,
         mode # "repair", mode # "down" => current \in DOMAIN disk',
         job'.kind = "created" =>
           job.kind = "created" /\ highest \in DOMAIN disk'
  PROVE  FilesInv'
<1>1. Sorted'
  BY SortedKept DEF FilesInv
<1>2. mode \notin {"down", "repair"} => Below(current, issued)'
  BY BelowKept DEF FilesInv, Below
<1>3. job'.kind = "created" => Below(highest, issued)'
  BY BelowKept DEF FilesInv, Below
<1> QED BY <1>1, <1>2, <1>3 DEF FilesInv

\* Files that do not change keep their batch ends.
LEMMA DiskUnchanged ==
  ASSUME UNCHANGED disk PROVE LastsKept
BY DEF LastsKept

-----------------------------------------------------------------------------
(* One lemma per action that moves a frontier or a file.                   *)

\* The batch ends above every earlier batch and at the new issued.
LEMMA PrepareAppendFrontier ==
  ASSUME TypeOK, FrontierInv, NEW n \in 1..MaxMutations, PrepareAppend(n)
  PROVE  FrontierInv'
<1> DEFINE bs == disk[current].batches
<1>1. /\ current \in DOMAIN disk /\ bs \in Seq(BatchType)
      /\ mode \notin {"down", "repair"} /\ n \in Nat /\ issued < n
      /\ n <= Len(history)
  BY CurrentTyped DEF TypeOK, CurrentOK, PrepareAppend, Healthy
<1>2. NextBatch(n) \in BatchType /\ NextBatch(n).last = n
  <2>1. issued \in Nat /\ history \in Seq(Mutation)
    BY DEF TypeOK, LogOK, GuestOK
  <2>2. \A i \in (issued + 1)..n : history[i] \in Mutation
    BY <1>1, <2>1, LenProperties, ElementOfSeq
  <2>3. SubSeq(history, issued + 1, n) \in Seq(Mutation)
    BY <1>1, <2>1, <2>2, SubSeqProperties
  <2> QED BY <1>1, <2>3, BatchTyped DEF NextBatch, Batch
<1> DEFINE new == Append(bs, NextBatch(n))
<1>3. /\ \A i \in DOMAIN new : new[i].last <= n
      /\ \A i, j \in DOMAIN new : i <= j => new[i].last <= new[j].last
  <2>1. issued \in Nat /\ NextBatch(n).last >= issued
    BY <1>1, <1>2, Numbers
  <2>2. \A i \in DOMAIN bs : bs[i].last <= issued
    BY <1>1 DEF FrontierInv, FilesInv, Below
  <2>3. \A i, j \in DOMAIN bs : i <= j => bs[i].last <= bs[j].last
    BY <1>1 DEF FrontierInv, FilesInv, Sorted
  <2> HIDE DEF bs
  <2> QED BY <1>1, <1>2, <2>1, <2>2, <2>3, AppendSorted
<1>4. /\ disk' = [disk EXCEPT ![current].batches = new] /\ issued' = n
      /\ job' = job /\ mode' = mode /\ current' = current
  BY DEF PrepareAppend
<1>5. disk'[current].batches = new
  BY <1>1, <1>4 DEF TypeOK, DiskOK, SegmentType
<1>6. \A s \in DOMAIN disk' \ {current} :
        s \in DOMAIN disk /\ disk'[s] = disk[s]
  BY <1>4
<1>7. Sorted'
  <2> HIDE DEF new
  <2> QED BY <1>3, <1>5, <1>6 DEF Sorted, FrontierInv, FilesInv
<1>8. FilesInv'
  <2>1. Below(current, issued)'
    <3> HIDE DEF new
    <3> QED BY <1>3, <1>4, <1>5 DEF Below
  <2>2. job.kind # "created"
    BY DEF PrepareAppend, Rotating
  <2> QED BY <1>1, <1>4, <1>7, <2>1, <2>2 DEF FilesInv
<1>9. OrderInv'
  BY <1>1, Numbers DEF FrontierInv, OrderInv, PrepareAppend
<1>10. JobInv'
  BY DEF FrontierInv, JobInv, PrepareAppend
<1> QED BY <1>8, <1>9, <1>10 DEF FrontierInv

\* A fence ends at issued.
LEMMA PrepareFenceFrontier ==
  ASSUME TypeOK, FrontierInv, PrepareFence
  PROVE  FrontierInv'
<1> DEFINE bs == disk[current].batches
           bt == Batch(issued, <<>>)
           new == Append(bs, bt)
<1>1. /\ current \in DOMAIN disk /\ bs \in Seq(BatchType)
      /\ mode \notin {"down", "repair"}
  BY CurrentTyped DEF TypeOK, CurrentOK, PrepareFence, Healthy
<1>2. bt \in BatchType /\ bt.last = issued /\ issued \in Nat
  BY BatchTyped, EmptySeq DEF TypeOK, LogOK, Batch
<1>3. /\ \A i \in DOMAIN new : new[i].last <= issued
      /\ \A i, j \in DOMAIN new : i <= j => new[i].last <= new[j].last
  <2>1. bt.last >= issued
    BY <1>2
  <2>2. \A i \in DOMAIN bs : bs[i].last <= issued
    BY <1>1 DEF FrontierInv, FilesInv, Below
  <2>3. \A i, j \in DOMAIN bs : i <= j => bs[i].last <= bs[j].last
    BY <1>1 DEF FrontierInv, FilesInv, Sorted
  <2> HIDE DEF bs, bt
  <2> QED BY <1>1, <1>2, <2>1, <2>2, <2>3, AppendSorted
<1>4. /\ disk' = [disk EXCEPT ![current].batches = new]
      /\ UNCHANGED <<issued, job, mode, current>>
  BY DEF PrepareFence
<1>5. disk'[current].batches = new
  BY <1>1, <1>4 DEF TypeOK, DiskOK, SegmentType
<1>6. \A s \in DOMAIN disk' \ {current} :
        s \in DOMAIN disk /\ disk'[s] = disk[s]
  BY <1>4
<1>7. Sorted'
  <2> HIDE DEF new
  <2> QED BY <1>3, <1>5, <1>6 DEF Sorted, FrontierInv, FilesInv
<1>8. FilesInv'
  <2>1. Below(current, issued)'
    <3> HIDE DEF new
    <3> QED BY <1>3, <1>4, <1>5 DEF Below
  <2>2. job.kind # "created"
    BY DEF PrepareFence, Rotating
  <2> QED BY <1>1, <1>4, <1>7, <2>1, <2>2 DEF FilesInv
<1>9. OrderInv' /\ JobInv'
  BY DEF FrontierInv, OrderInv, JobInv, PrepareFence
<1> QED BY <1>8, <1>9 DEF FrontierInv

\* No batch end moves.
LEMMA WriteCompleteFrontier ==
  ASSUME TypeOK, FrontierInv, NEW i \in 1..Capacity, WriteComplete(i)
  PROVE  FrontierInv'
<1> DEFINE bs == disk[current].batches
           new == [bs EXCEPT ![i] = [@ EXCEPT !.st = "written"]]
<1>1. current \in DOMAIN disk /\ bs \in Seq(BatchType) /\ i \in DOMAIN bs
  BY CurrentTyped DEF TypeOK, CurrentOK, WriteComplete
<1>2. /\ DOMAIN new = DOMAIN bs
      /\ \A k \in DOMAIN bs : new[k].last = bs[k].last
      /\ \A k \in DOMAIN bs : Accepts(new[k]) => Accepts(bs[k])
  <2>1. bs[i] \in BatchType
    BY <1>1, LenProperties
  <2>2. bs[i].st = "issued"
    BY DEF WriteComplete
  <2> QED BY <1>1, <2>1, <2>2 DEF BatchType, Accepts, HasPayload
<1>3. disk' = [disk EXCEPT ![current].batches = new]
  BY <1>1 DEF WriteComplete
<1>4. disk'[current].batches = new /\ LastsKept /\ DOMAIN disk' = DOMAIN disk
  <2>1. disk'[current].batches = new
    BY <1>1, <1>3 DEF TypeOK, DiskOK, SegmentType
  <2> HIDE DEF new
  <2> QED BY <1>2, <1>3, <2>1 DEF LastsKept
<1>5. mode = "repair" => AcceptedBelow'
  <2> HIDE DEF new
  <2>1. manifest' = manifest /\ current' = current /\ published' = published
    BY DEF WriteComplete
  <2>2. \A k \in DOMAIN bs :
          Accepts(disk[current].batches[k])' => Accepts(bs[k])
    BY <1>2, <1>4, <2>1 DEF Accepts, HasPayload
  <2>3. \A k \in DOMAIN bs : 1..k \subseteq DOMAIN bs
    BY <1>1, LenProperties
  <2> QED
    BY <1>2, <1>4, <2>1, <2>2, <2>3 DEF AcceptedBelow, FrontierInv, FilesInv
<1>6. FilesInv'
  <2>1. Sorted'
    BY <1>4, SortedKept DEF FrontierInv, FilesInv
  <2>2. mode \notin {"down", "repair"} => Below(current, issued)'
    <3>1. issued' = issued /\ current' = current
      BY DEF WriteComplete
    <3>2. Below(current, issued) =>
            \A k \in DOMAIN disk'[current].batches :
              disk'[current].batches[k].last <= issued
      BY <1>1, <1>4, BelowKept
    <3> QED BY <3>1, <3>2 DEF FrontierInv, FilesInv, Below
  <2>3. job.kind = "created" => Below(highest, issued)'
    BY <1>4, BelowKept DEF FrontierInv, FilesInv, Below, WriteComplete,
      TypeOK, CurrentOK
  <2> QED BY <1>5, <2>1, <2>2, <2>3 DEF FilesInv, WriteComplete
<1>7. OrderInv' /\ JobInv'
  BY DEF FrontierInv, OrderInv, JobInv, WriteComplete
<1> QED BY <1>6, <1>7 DEF FrontierInv

\* The batch published lies below issued.
LEMMA PublishAppendFrontier ==
  ASSUME TypeOK, FrontierInv, NEW i \in 1..Capacity, PublishAppend(i)
  PROVE  FrontierInv'
<1> DEFINE bt == disk[current].batches[i]
<1>1. /\ current \in DOMAIN disk /\ i \in DOMAIN disk[current].batches
      /\ mode \notin {"down", "repair"}
      /\ disk[current].batches \in Seq(BatchType)
  BY CurrentTyped DEF TypeOK, CurrentOK, PublishAppend, Healthy
<1>2. bt \in BatchType
  BY <1>1, LenProperties
<1>3. bt.last \in Nat /\ bt.data \in Seq(Mutation) /\ bt.data # <<>>
  BY <1>2 DEF BatchType, PublishAppend, IsFence
<1>4. Len(bt.data) \in Nat /\ Len(bt.data) >= 1
  BY <1>3, EmptySeq, LenProperties
<1>5. published' = bt.last /\ bt.last - Len(bt.data) + 1 = published + 1
  BY DEF PublishAppend, First
<1>6. bt.last <= issued
  BY <1>1 DEF FrontierInv, FilesInv, Below
<1>7. published < published' /\ published' <= issued
  <2> DEFINE len == Len(bt.data)
             last == bt.last
  <2> SUFFICES ASSUME last \in Nat, len \in Nat, len >= 1, published' = last,
                      last - len + 1 = published + 1, last <= issued,
                      published \in Nat, issued \in Nat
               PROVE  published < last /\ last <= issued
    BY <1>3, <1>4, <1>5, <1>6, Numbers
  <2> HIDE DEF len, last
  <2> QED OBVIOUS
<1>8. UNCHANGED <<disk, mode, job, issued, durable, manifest, base, current,
                  highest>>
  BY DEF PublishAppend
<1>9. OrderInv'
  <2>1. published' \in Nat
    BY <1>3, <1>5
  <2> HIDE DEF bt
  <2> QED BY <1>7, <1>8, <2>1, Numbers DEF FrontierInv, OrderInv
<1>10. FilesInv' /\ JobInv'
  BY <1>1, <1>8 DEF FrontierInv, FilesInv, JobInv, Sorted, Below
<1> QED BY <1>9, <1>10 DEF FrontierInv

\* No batch end moves.
LEMMA SyncDataFrontier ==
  ASSUME TypeOK, FrontierInv, SyncData
  PROVE  FrontierInv'
<1> DEFINE bs == disk[current].batches
<1>1. /\ current \in DOMAIN disk /\ bs \in Seq(BatchType)
      /\ mode \notin {"down", "repair"}
  BY CurrentTyped DEF TypeOK, CurrentOK, SyncData, ReadyToSync, Healthy
<1>2. /\ DOMAIN Synced(bs) = DOMAIN bs
      /\ \A k \in DOMAIN bs : Synced(bs)[k].last = bs[k].last
  BY <1>1, LenProperties DEF Synced, BatchType
<1>3. disk' = [disk EXCEPT ![current].batches = Synced(bs)]
  BY <1>1 DEF SyncData
<1>4. LastsKept /\ DOMAIN disk' = DOMAIN disk
  <2>1. disk'[current].batches = Synced(bs)
    BY <1>1, <1>3 DEF TypeOK, DiskOK, SegmentType
  <2> QED BY <1>2, <1>3, <2>1 DEF LastsKept
<1>5. FilesInv'
  BY <1>1, <1>4, FilesKept DEF FrontierInv, SyncData, TypeOK, CurrentOK
<1>6. OrderInv' /\ JobInv'
  BY DEF FrontierInv, OrderInv, JobInv, SyncData
<1> QED BY <1>5, <1>6 DEF FrontierInv

\* The cohort is the published prefix, so E stays below P.
LEMMA CompleteSyncFrontier ==
  ASSUME TypeOK, FrontierInv, CompleteSync
  PROVE  FrontierInv'
<1>1. /\ mode \notin {"down", "repair"} /\ durable' = published
      /\ UNCHANGED <<disk, mode, job, published, issued, manifest, base,
                     current, highest>>
  BY DEF CompleteSync, SyncReady, Healthy
<1>2. OrderInv'
  BY <1>1, Numbers DEF FrontierInv, OrderInv
<1>3. JobInv'
  BY <1>1, Numbers DEF FrontierInv, OrderInv, JobInv
<1>4. FilesInv'
  BY <1>1 DEF FrontierInv, FilesInv, Sorted, Below
<1> QED BY <1>2, <1>3, <1>4 DEF FrontierInv

\* The new file is empty.
LEMMA FinishCreateFrontier ==
  ASSUME TypeOK, FrontierInv, FinishCreate
  PROVE  FrontierInv'
<1>1. /\ mode \notin {"down", "repair"}
      /\ current \in DOMAIN disk /\ highest \in Nat
  BY DEF TypeOK, DiskOK, CurrentOK, FinishCreate, Idle
<1>2. /\ DOMAIN disk' = DOMAIN disk \cup {highest + 1}
      /\ disk'[highest + 1].batches = <<>> /\ highest' = highest + 1
      /\ \A s \in DOMAIN disk : s # highest + 1 => disk'[s] = disk[s]
      /\ UNCHANGED <<mode, issued, current, published, durable, manifest,
                     base>>
      /\ job' = [job EXCEPT !.kind = "created"]
  BY DEF FinishCreate
<1>3. DOMAIN disk'[highest + 1].batches = {}
  BY <1>2
<1>4. Sorted'
  BY <1>2, <1>3 DEF Sorted, FrontierInv, FilesInv
<1>5. Below(current, issued)' /\ Below(highest, issued)'
  BY <1>1, <1>2, <1>3 DEF Below, FrontierInv, FilesInv
<1>6. FilesInv'
  BY <1>1, <1>2, <1>4, <1>5 DEF FilesInv
<1>7. job'.kind = "created"
  BY <1>2 DEF TypeOK, JobType
<1>8. OrderInv' /\ JobInv'
  BY <1>2, <1>7 DEF FrontierInv, OrderInv, JobInv
<1> QED BY <1>6, <1>8 DEF FrontierInv

\* The created file becomes current and is below issued.
LEMMA InstallRotationFrontier ==
  ASSUME TypeOK, FrontierInv, InstallRotation
  PROVE  FrontierInv'
<1>1. /\ mode \notin {"down", "repair"} /\ job.kind = "created"
      /\ current' = highest /\ job' = Idle
      /\ mode' = IF mode = "fresh" THEN "fence" ELSE mode
      /\ UNCHANGED <<disk, highest, published, issued, durable, manifest,
                     base>>
  BY DEF InstallRotation, Healthy
<1>2. FilesInv'
  BY <1>1 DEF FrontierInv, FilesInv, Sorted, Below, Idle
<1>3. OrderInv' /\ JobInv'
  BY <1>1 DEF FrontierInv, OrderInv, JobInv, Idle
<1> QED BY <1>2, <1>3 DEF FrontierInv

\* The cut lies between D and the E the job captured.
LEMMA LoadCompactionFrontier ==
  ASSUME TypeOK, FrontierInv, LoadCompaction
  PROVE  FrontierInv'
<1>1. /\ mode = "serving" /\ job.through <= durable
      /\ Cut \in (base.d + 1)..job.through
      /\ UNCHANGED <<disk, mode, published, issued, durable, manifest, base,
                     current, highest>>
  BY DEF FrontierInv, JobInv, LoadCompaction, Cuts
<1>2. job'.kind = "loaded" /\ job'.view.d = Cut
  BY DEF LoadCompaction, Apply, TypeOK, JobType
<1>3. JobInv'
  BY <1>1, <1>2, Numbers DEF JobInv
<1>4. FilesInv' /\ OrderInv'
  BY <1>1, <1>2 DEF FrontierInv, FilesInv, OrderInv, Sorted, Below
<1> QED BY <1>3, <1>4 DEF FrontierInv

\* The commit moves to the loaded view, between D and E.
LEMMA PublishManifestFrontier ==
  ASSUME TypeOK, FrontierInv, PublishManifest
  PROVE  FrontierInv'
<1>1. /\ mode = "serving" /\ manifest' = job.view
      /\ base.d <= job.view.d /\ job.view.d <= durable
      /\ UNCHANGED <<disk, mode, published, issued, durable, base, current,
                     highest>>
  BY DEF FrontierInv, JobInv, PublishManifest
<1>2. job'.kind = "output" /\ job'.view = job.view
  BY DEF PublishManifest, TypeOK, JobType
<1>3. OrderInv' /\ JobInv'
  BY <1>1, <1>2, Numbers DEF FrontierInv, OrderInv, JobInv
<1>4. FilesInv'
  BY <1>1, <1>2 DEF FrontierInv, FilesInv, Sorted, Below
<1> QED BY <1>3, <1>4 DEF FrontierInv

\* D moves to the commit on disk.
LEMMA PublishCompactionFrontier ==
  ASSUME TypeOK, FrontierInv, PublishCompaction
  PROVE  FrontierInv'
<1>1. /\ mode = "serving" /\ job.view = manifest /\ base' = job.view
      /\ UNCHANGED <<disk, mode, published, issued, durable, manifest,
                     current, highest>>
  BY DEF FrontierInv, JobInv, PublishCompaction
<1>2. job'.kind = "punch"
  BY DEF PublishCompaction, Reclamation, Idle
<1>3. OrderInv' /\ JobInv'
  BY <1>1, <1>2, Numbers DEF FrontierInv, OrderInv, JobInv
<1>4. FilesInv'
  BY <1>1, <1>2 DEF FrontierInv, FilesInv, Sorted, Below
<1> QED BY <1>3, <1>4 DEF FrontierInv

\* No batch end moves.
LEMMA PunchSegmentFrontier ==
  ASSUME TypeOK, FrontierInv, NEW s, PunchSegment(s)
  PROVE  FrontierInv'
<1> DEFINE bs == disk[s].batches
           new == [i \in DOMAIN bs |->
                     IF /\ HasPayload(bs[i]) /\ bs[i].last <= job.view.d
                        /\ ~Pinned(s, i)
                     THEN [bs[i] EXCEPT !.punched = TRUE] ELSE bs[i]]
<1>1. disk' = [disk EXCEPT ![s].batches = new]
  BY DEF PunchSegment
<1>2. ASSUME s \in DOMAIN disk
      PROVE  /\ DOMAIN new = DOMAIN bs
             /\ \A i \in DOMAIN bs : new[i].last = bs[i].last
  <2>1. \A i \in DOMAIN bs : bs[i] \in BatchType
    BY <1>2, CurrentTyped, LenProperties DEF TypeOK
  <2> QED BY <2>1 DEF BatchType
<1>3. s \in DOMAIN disk => disk'[s].batches = new
  BY <1>1 DEF TypeOK, DiskOK, SegmentType
<1>4. LastsKept /\ DOMAIN disk' = DOMAIN disk
  <2> HIDE DEF new
  <2> QED BY <1>1, <1>2, <1>3 DEF LastsKept
<1>5. mode = "serving" /\ job'.kind = "unlink"
  BY DEF FrontierInv, JobInv, PunchSegment, TypeOK, JobType
<1>6. FilesInv'
  BY <1>4, <1>5, FilesKept DEF FrontierInv, PunchSegment, TypeOK, CurrentOK
<1>7. OrderInv' /\ JobInv'
  BY <1>5 DEF FrontierInv, OrderInv, JobInv, PunchSegment
<1> QED BY <1>6, <1>7 DEF FrontierInv

\* The files that remain keep their batches.
LEMMA UnlinkSegmentFrontier ==
  ASSUME TypeOK, FrontierInv, NEW s, UnlinkSegment(s)
  PROVE  FrontierInv'
<1>1. mode = "serving" /\ job'.kind = "punch" /\ current \in DOMAIN disk
  BY DEF FrontierInv, JobInv, UnlinkSegment, TypeOK, JobType, CurrentOK
<1>2. LastsKept /\ current \in DOMAIN disk'
  BY <1>1 DEF LastsKept, UnlinkSegment, Removable
<1>3. FilesInv'
  BY <1>1, <1>2, FilesKept DEF FrontierInv, UnlinkSegment
<1>4. OrderInv' /\ JobInv'
  BY <1>1 DEF FrontierInv, OrderInv, JobInv, UnlinkSegment
<1> QED BY <1>3, <1>4 DEF FrontierInv

\* Files keep their batch ends; the frontiers are reset.
LEMMA CrashFrontier ==
  ASSUME TypeOK, FrontierInv, NEW power \in BOOLEAN, NEW lost, NEW gone,
         Crash(power, lost, gone)
  PROVE  FrontierInv'
<1>1. DOMAIN disk' = DOMAIN disk
  BY DEF Crash
<1>2. ASSUME NEW s \in DOMAIN disk
      PROVE  /\ DOMAIN disk'[s].batches = DOMAIN disk[s].batches
             /\ \A i \in DOMAIN disk[s].batches :
                  disk'[s].batches[i].last = disk[s].batches[i].last
  <2> DEFINE new == [i \in DOMAIN disk[s].batches |->
                       Settle(disk[s].batches[i], <<s, i>> \in lost, power)]
  <2>1. disk'[s].batches = new
    BY DEF Crash, TypeOK, DiskOK, SegmentType
  <2>2. \A i \in DOMAIN disk[s].batches : disk[s].batches[i] \in BatchType
    BY CurrentTyped, LenProperties DEF TypeOK
  <2>3. \A i \in DOMAIN disk[s].batches : new[i].last = disk[s].batches[i].last
    BY <2>2 DEF Settle, BatchType
  <2> QED BY <2>1, <2>3
<1>3. Sorted'
  BY <1>1, <1>2, SortedKept DEF LastsKept, FrontierInv, FilesInv
<1>4. /\ mode' = "down" /\ published' = 0 /\ issued' = 0 /\ durable' = 0
      /\ job' = Idle
  BY DEF Crash
<1>5. FilesInv' /\ JobInv'
  BY <1>3, <1>4 DEF FilesInv, JobInv, Idle
<1>6. OrderInv'
  BY <1>4 DEF OrderInv
<1> QED BY <1>5, <1>6 DEF FrontierInv

\* The recovered prefix covers the manifest and every accepted batch.
LEMMA InspectFrontier ==
  ASSUME TypeOK, FrontierInv, Inspect
  PROVE  FrontierInv'
<1>1. /\ Newest \in DOMAIN disk /\ Good(Newest) \in Goods(Newest)
      /\ Prefix >= manifest.d
  BY DEF Inspect, Kept, InspectOk
<1> DEFINE bs == disk[Newest].batches
           g == Good(Newest)
<1>2. bs \in Seq(BatchType) /\ disk[Newest].preceding \in Nat
  BY <1>1, CurrentTyped DEF TypeOK
<1>3. DOMAIN bs = 1..Len(bs) /\ Len(bs) \in Nat /\ g \in 0..Len(bs)
  BY <1>1, <1>2, LenProperties DEF Goods
<1>4. g < Len(bs) => ~Accepts(bs[g + 1])
  BY <1>1 DEF Goods
<1>5. Prefix = IF g = 0 THEN disk[Newest].preceding ELSE bs[g].last
  BY DEF Prefix, PrefixAt
<1>6. Prefix \in Nat
  BY <1>1, <1>3, PrefixTyped DEF Prefix, TypeOK
<1>7. ASSUME NEW i \in DOMAIN bs, \A j \in 1..i : Accepts(bs[j])
      PROVE  bs[i].last <= Prefix
  <2> HIDE DEF g
  <2>1. i <= g
    <3>1. SUFFICES ASSUME i > g PROVE FALSE
      BY <1>3
    <3>2. g + 1 \in 1..i /\ g < Len(bs)
      BY <1>3, <3>1
    <3> QED BY <1>4, <1>7, <3>2
  <2>2. g \in DOMAIN bs /\ g # 0
    BY <1>3, <2>1
  <2> QED BY <1>1, <1>5, <2>1, <2>2 DEF FrontierInv, FilesInv, Sorted
<1>8. /\ mode = "down" /\ mode' = "repair" /\ published' = Prefix
      /\ issued' = Prefix /\ base' = manifest /\ current' = Newest
      /\ UNCHANGED <<disk, highest, manifest, durable, job>>
  BY DEF Inspect
<1>9. AcceptedBelow'
  BY <1>7, <1>8 DEF AcceptedBelow, Accepts, HasPayload
<1>10. job.kind # "created"
  BY <1>8 DEF TypeOK, CurrentOK, Idle
<1>11. FilesInv'
  BY <1>8, <1>9, <1>10 DEF FrontierInv, FilesInv, Sorted
<1>12. OrderInv' /\ JobInv'
  BY <1>1, <1>6, <1>8, Numbers DEF FrontierInv, OrderInv, JobInv
<1> QED BY <1>11, <1>12 DEF FrontierInv

\* What is kept of the newest segment was accepted.
LEMMA RepairFileFrontier ==
  ASSUME TypeOK, FrontierInv, NEW s, RepairFile(s)
  PROVE  FrontierInv'
<1>1. /\ current \in DOMAIN disk /\ disk[current].batches \in Seq(BatchType)
      /\ mode = "repair" /\ job.kind = "idle"
      /\ UNCHANGED <<mode, job, published, issued, durable, manifest, base,
                     current, highest>>
  BY CurrentTyped DEF TypeOK, CurrentOK, RepairFile, Idle
<1>2. Sorted' /\ AcceptedBelow'
  <2>1. CASE s = current
    <3> DEFINE bs == disk[current].batches
               g == Good(current)
               keep == SubSeq(bs, 1, g)
               new == Synced(keep)
    <3>1. DOMAIN bs = 1..Len(bs) /\ Len(bs) \in Nat
      BY <1>1, LenProperties
    <3>2. g \in 0..Len(bs) /\ \A j \in 1..g : Accepts(bs[j])
      <4>1. g = 0 \/ g \in Goods(current)
        BY DEF Good, Greatest
      <4> QED BY <3>1, <4>1 DEF Goods
    <3>3. /\ keep \in Seq(BatchType) /\ Len(keep) = g
          /\ \A i \in 1..g : keep[i] = bs[i] /\ keep[i] \in BatchType
      <4>1. \A i \in 1..g : bs[i] \in BatchType
        BY <1>1, <3>1, <3>2, ElementOfSeq
      <4> HIDE DEF bs, g
      <4>2. g \in Nat
        BY <3>1, <3>2
      <4> QED BY <4>1, <4>2, SubSeqProperties
    <3>4. DOMAIN keep = 1..g
      BY <3>3, LenProperties
    <3>5. DOMAIN new = 1..g /\ \A i \in 1..g : new[i].last = bs[i].last
      <4> HIDE DEF bs, g, keep
      <4> QED BY <3>3, <3>4 DEF Synced, BatchType, new
    <3>6. disk' = [disk EXCEPT ![current].batches = new]
      BY <2>1 DEF RepairFile
    <3>7. disk'[current].batches = new
      BY <1>1, <3>6 DEF TypeOK, DiskOK, SegmentType
    <3>8. \A t \in DOMAIN disk' \ {current} :
            t \in DOMAIN disk /\ disk'[t] = disk[t]
      BY <3>6
    <3>9. 1..g \subseteq DOMAIN bs
      BY <3>1, <3>2
    <3>10. \A i \in 1..g : bs[i].last <= published
      <4>1. \A i \in 1..g : 1..i \subseteq 1..g
        BY <3>1, <3>2
      <4> QED BY <1>1, <3>2, <3>9, <4>1 DEF FrontierInv, FilesInv,
        AcceptedBelow
    <3> HIDE DEF g, new, bs
    <3>11. Sorted'
      <4>1. \A i, j \in 1..g : i <= j => bs[i].last <= bs[j].last
        BY <1>1, <3>9 DEF FrontierInv, FilesInv, Sorted, bs
      <4>2. ASSUME NEW t \in DOMAIN disk', NEW i \in DOMAIN disk'[t].batches,
                   NEW j \in DOMAIN disk'[t].batches, i <= j
            PROVE  disk'[t].batches[i].last <= disk'[t].batches[j].last
        <5>1. CASE t = current
          BY <3>5, <3>7, <4>1, <4>2, <5>1
        <5>2. CASE t # current
          BY <3>8, <4>2, <5>2 DEF FrontierInv, FilesInv, Sorted
        <5> QED BY <5>1, <5>2
      <4> QED BY <4>2 DEF Sorted
    <3>12. AcceptedBelow'
      BY <1>1, <3>5, <3>7, <3>10 DEF AcceptedBelow
    <3> QED BY <3>11, <3>12
  <2>2. CASE s # current
    <3>1. /\ current \in DOMAIN disk' /\ DOMAIN disk' \subseteq DOMAIN disk
          /\ \A t \in DOMAIN disk' : disk'[t] = disk[t]
      BY <1>1, <2>2 DEF RepairFile
    <3> QED
      BY <1>1, <3>1 DEF FrontierInv, FilesInv, Sorted, AcceptedBelow, Accepts
  <2> QED BY <2>1, <2>2
<1>3. FilesInv'
  BY <1>1, <1>2 DEF FilesInv
<1>4. OrderInv' /\ JobInv'
  BY <1>1 DEF FrontierInv, OrderInv, JobInv
<1> QED BY <1>3, <1>4 DEF FrontierInv

\* After the repair the newest segment holds accepted batches only.
LEMMA StartRecoveredFrontier ==
  ASSUME TypeOK, FrontierInv, StartRecovered
  PROVE  FrontierInv'
<1>1. /\ current \in DOMAIN disk /\ disk[current].batches \in Seq(BatchType)
      /\ mode = "repair" /\ job.kind = "idle" /\ mode' \in {"fresh", "live"}
      /\ UNCHANGED <<job, published, issued, durable, manifest, base, current,
                     highest>>
  BY CurrentTyped DEF TypeOK, CurrentOK, StartRecovered, Idle
<1>2. LastsKept /\ DOMAIN disk' = DOMAIN disk
  <2>1. ASSUME NEW t \in DOMAIN disk
        PROVE  /\ DOMAIN disk'[t].batches = DOMAIN disk[t].batches
               /\ \A i \in DOMAIN disk[t].batches :
                    disk'[t].batches[i].last = disk[t].batches[i].last
    <3>1. \A i \in DOMAIN disk[t].batches : disk[t].batches[i] \in BatchType
      BY CurrentTyped, LenProperties DEF TypeOK
    <3>2. disk'[t].batches = Synced(disk[t].batches)
      BY DEF StartRecovered, TypeOK, DiskOK, SegmentType
    <3> QED BY <3>1, <3>2 DEF Synced, BatchType
  <2>2. DOMAIN disk' = DOMAIN disk
    BY DEF StartRecovered
  <2> QED BY <2>1, <2>2 DEF LastsKept
<1>3. Below(current, published)
  <2>1. ~Rejects(current)
    BY <1>1 DEF StartRecovered, Doomed
  <2>2. \A i \in DOMAIN disk[current].batches :
          1..i \subseteq DOMAIN disk[current].batches
    BY <1>1, LenProperties
  <2> QED
    BY <1>1, <2>1, <2>2 DEF Rejects, AcceptedBelow, Below, FrontierInv,
      FilesInv
<1>4. Below(current, issued)
  <2>1. \A i \in DOMAIN disk[current].batches :
          disk[current].batches[i].last \in Nat
    BY <1>1, LastNat
  <2>2. published <= issued
    BY DEF FrontierInv, OrderInv
  <2> QED BY <1>3, <2>1, <2>2, Numbers DEF Below
<1>5. Sorted' /\ Below(current, issued)'
  BY <1>1, <1>2, <1>4, SortedKept, BelowKept DEF FrontierInv, FilesInv, Below
<1>6. FilesInv'
  BY <1>1, <1>5 DEF FilesInv
<1>7. OrderInv' /\ JobInv'
  BY <1>1 DEF FrontierInv, OrderInv, JobInv
<1> QED BY <1>6, <1>7 DEF FrontierInv

\* The recovery fence put E at P, above the manifest.
LEMMA FinishRecoveryFrontier ==
  ASSUME TypeOK, FrontierInv, FinishRecovery
  PROVE  FrontierInv'
<1>1. /\ mode \in {"live", "fence"} /\ mode' = "serving" /\ durable >= published
      /\ job.kind = "idle"
      /\ UNCHANGED <<disk, job, published, issued, durable, manifest, base,
                     current, highest>>
  BY DEF FinishRecovery, CoversFlush, Idle
<1>2. OrderInv' /\ JobInv'
  BY <1>1, Numbers DEF FrontierInv, OrderInv, JobInv
<1>3. FilesInv'
  BY <1>1 DEF FrontierInv, FilesInv, Sorted, Below
<1> QED BY <1>2, <1>3 DEF FrontierInv

\* Actions that leave the files and the frontiers alone.
LEMMA OtherFrontier ==
  ASSUME TypeOK, FrontierInv,
         UNCHANGED <<disk, highest, manifest, mode, published, issued,
                     durable, base, current>>,
         \/ job' = job
         \/ job'.kind \in {"idle", "prepared", "creating"}
         \/ mode = "serving" /\ job'.kind \in {"punch", "unlink"}
         \/ mode = "serving" /\ job'.kind = "selected" /\ job'.through = durable
  PROVE  FrontierInv'
<1>1. OrderInv'
  BY DEF FrontierInv, OrderInv
<1>2. JobInv'
  BY Numbers DEF FrontierInv, JobInv
<1>3. FilesInv'
  BY DEF FrontierInv, FilesInv, Sorted, Below, AcceptedBelow, Accepts
<1> QED BY <1>1, <1>2, <1>3 DEF FrontierInv

\* Steps of the guest preserve the invariant.
LEMMA GuestFrontier ==
  ASSUME TypeOK, FrontierInv, GuestStep \/ Fail \/ UNCHANGED vars
  PROVE  FrontierInv'
<1>1. UNCHANGED <<disk, highest, manifest, mode, published, issued, durable,
                  base, current, job>>
  BY DEF GuestStep, Fail, Admit, Retire, Attach, ReadPlan, ReadDone, vars
<1> QED BY <1>1, OtherFrontier

\* Steps of the background worker preserve the invariant.
LEMMA WorkerFrontier ==
  ASSUME TypeOK, FrontierInv, WorkerStep
  PROVE  FrontierInv'
<1> DEFINE Kept0 == UNCHANGED <<disk, highest, manifest, mode, published,
                                issued, durable, base, current>>
<1>1. ASSUME NEW fresh \in BOOLEAN, PrepareRotation(fresh) PROVE FrontierInv'
  <2>1. Kept0 /\ job'.kind = "prepared"
    BY <1>1 DEF PrepareRotation, Idle
  <2> QED BY <2>1, OtherFrontier
<1>2. CASE BeginCreate
  <2>1. Kept0 /\ job'.kind = "creating"
    BY <1>2 DEF BeginCreate, TypeOK, JobType
  <2> QED BY <2>1, OtherFrontier
<1>3. CASE CancelRotation \/ LoadError \/ DeferCompaction \/ ApplyReclamation
  <2>1. Kept0 /\ job'.kind = "idle"
    BY <1>3 DEF CancelRotation, LoadError, DeferCompaction,
      ApplyReclamation, Idle
  <2> QED BY <2>1, OtherFrontier
<1>4. CASE SelectCompaction
  <2>1. /\ Kept0 /\ mode = "serving"
        /\ job'.kind = "selected" /\ job'.through = durable
    BY <1>4 DEF SelectCompaction, Idle
  <2> QED BY <2>1, OtherFrontier
<1>5. CASE SelectReclamation
  <2>1. Kept0 /\ mode = "serving" /\ job'.kind = "punch"
    BY <1>5 DEF SelectReclamation, Reclamation, Idle
  <2> QED BY <2>1, OtherFrontier
<1> QED
  BY <1>1, <1>2, <1>3, <1>4, <1>5, FinishCreateFrontier,
    InstallRotationFrontier, LoadCompactionFrontier,
    PublishManifestFrontier, PublishCompactionFrontier,
    PunchSegmentFrontier, UnlinkSegmentFrontier DEF WorkerStep

\* Every step preserves the invariant.
LEMMA NextFrontier == TypeOK /\ FrontierInv /\ [Next]_vars => FrontierInv'
<1> SUFFICES ASSUME TypeOK, FrontierInv, [Next]_vars PROVE FrontierInv'
  OBVIOUS
<1>1. CASE AppendStep
  BY <1>1, PrepareAppendFrontier, WriteCompleteFrontier,
    PublishAppendFrontier, PrepareFenceFrontier, SyncDataFrontier,
    CompleteSyncFrontier DEF AppendStep
<1>2. CASE GuestStep \/ Fail \/ UNCHANGED vars
  BY <1>2, GuestFrontier
<1>3. CASE WorkerStep
  BY <1>3, WorkerFrontier
<1>4. CASE RecoveryStep
  BY <1>4, InspectFrontier, StartRecoveredFrontier,
    FinishRecoveryFrontier, RepairFileFrontier DEF RecoveryStep
<1>5. CASE CrashStep
  BY <1>5, CrashFrontier DEF CrashStep
<1> QED BY <1>1, <1>2, <1>3, <1>4, <1>5 DEF Next

\* A new image satisfies the invariant.
LEMMA InitFrontier == Init => FrontierInv
<1> SUFFICES ASSUME Init PROVE FrontierInv
  OBVIOUS
<1>1. /\ DOMAIN disk = {1} /\ disk[1].batches = <<>> /\ current = 1
      /\ mode = "serving" /\ job.kind = "idle"
      /\ published = 0 /\ issued = 0 /\ durable = 0
      /\ manifest.d = 0 /\ base.d = 0
  BY DEF Init, Idle, EmptyView
<1>2. DOMAIN disk[1].batches = {}
  BY <1>1
<1>3. FilesInv
  BY <1>1, <1>2 DEF FilesInv, Sorted, Below
<1>4. OrderInv /\ JobInv
  BY <1>1 DEF OrderInv, JobInv
<1> QED BY <1>3, <1>4 DEF FrontierInv

\* D <= E <= P <= issued in every serving state, for every geometry, queue
\* depth and number of crashes: a completion published out of order, a
\* compaction racing appends, a crash in the middle of a repair or a manifest
\* commit that was not yet installed never inverts the log's frontiers.
THEOREM FrontiersOrdered == Spec => []FrontierOrder
<1>1. FrontierInv => FrontierOrder
  BY DEF FrontierInv, OrderInv, FrontierOrder
<1> QED BY <1>1, TypeCorrect, InitFrontier, NextFrontier, PTL DEF Spec

-----------------------------------------------------------------------------
(* One segment file.                                                       *)

\* The mutation the first k batches of the file f reach, and all of them.
Pre(f, k) == IF k = 0 THEN f.preceding ELSE f.batches[k].last
End(f) == Pre(f, Len(f.batches))

\* f records the mutation n.
Has(f, n) == \E i \in DOMAIN f.batches : Covers(f.batches[i], n)

\* f holds the mutations of h that follow its preceding one, without a gap.
FileOK(f, h) ==
  /\ Len(f.batches) <= Capacity /\ f.preceding <= Len(h)
  /\ \A i, j \in 0..Len(f.batches) : i <= j => Pre(f, i) <= Pre(f, j)
  /\ \A i \in DOMAIN f.batches :
       /\ Pre(f, i) <= Len(h) /\ Pre(f, i) = Pre(f, i - 1) + Len(f.batches[i].data)
       /\ \A k \in DOMAIN f.batches[i].data :
            f.batches[i].data[k] = h[Pre(f, i - 1) + k]

AllSynced(f) == \A i \in DOMAIN f.batches : f.batches[i].st = "synced"

\* The first g batches of f reach k, and each has one of these states.
Through(f, g, k, states) ==
  /\ g \in 0..Len(f.batches) /\ k <= Pre(f, g)
  /\ \A i \in 1..g : f.batches[i].st \in states
Reaches(f, k, states) == \E g \in 0..Len(f.batches) : Through(f, g, k, states)
Intact == {"written", "synced"}

\* g batches of f precede the first bad one.
Keeps(f, g) ==
  /\ g \in 0..Len(f.batches)
  /\ \A i \in 1..g : f.batches[i].st # "bad"
  /\ g < Len(f.batches) => f.batches[g + 1].st = "bad"

\* Two files that differ in the states of their batches only.
Same(f, g) ==
  /\ f.epoch = g.epoch /\ f.preceding = g.preceding
  /\ Len(f.batches) = Len(g.batches)
  /\ \A i \in DOMAIN f.batches :
       f.batches[i].last = g.batches[i].last /\ f.batches[i].data = g.batches[i].data

\* A file, its batches and its prefixes have their types.
LEMMA FileTyped ==
  ASSUME NEW f \in SegmentType
  PROVE  /\ f.batches \in Seq(BatchType) /\ Len(f.batches) \in Nat
         /\ DOMAIN f.batches = 1..Len(f.batches)
         /\ f.preceding \in Nat /\ f.epoch \in Nat
         /\ \A i \in 1..Len(f.batches) :
              /\ f.batches[i] \in BatchType /\ f.batches[i].last \in Nat
              /\ f.batches[i].data \in Seq(Mutation)
              /\ Len(f.batches[i].data) \in Nat
              /\ DOMAIN f.batches[i].data = 1..Len(f.batches[i].data)
         /\ \A k \in 0..Len(f.batches) : Pre(f, k) \in Nat
         /\ End(f) \in Nat
<1>1. f.batches \in Seq(BatchType) /\ f.preceding \in Nat /\ f.epoch \in Nat
  BY DEF SegmentType
<1>2. Len(f.batches) \in Nat /\ DOMAIN f.batches = 1..Len(f.batches)
  BY <1>1, LenProperties
<1>3. ASSUME NEW i \in 1..Len(f.batches)
      PROVE  /\ f.batches[i] \in BatchType /\ f.batches[i].last \in Nat
             /\ f.batches[i].data \in Seq(Mutation)
             /\ Len(f.batches[i].data) \in Nat
             /\ DOMAIN f.batches[i].data = 1..Len(f.batches[i].data)
  <2>1. f.batches[i] \in BatchType
    BY <1>1, <1>3, ElementOfSeq
  <2>2. f.batches[i].last \in Nat /\ f.batches[i].data \in Seq(Mutation)
    BY <2>1 DEF BatchType
  <2> QED BY <2>1, <2>2, LenProperties
<1>4. ASSUME NEW k \in 0..Len(f.batches) PROVE Pre(f, k) \in Nat
  <2>1. CASE k = 0
    BY <1>1, <2>1 DEF Pre
  <2>2. CASE k # 0
    <3>1. k \in 1..Len(f.batches)
      BY <1>2, <2>2
    <3> QED BY <1>3, <2>2, <3>1 DEF Pre
  <2> QED BY <2>1, <2>2
<1>5. End(f) \in Nat
  BY <1>2, <1>4 DEF End
<1> QED BY <1>1, <1>2, <1>3, <1>4, <1>5

\* What a batch of a well-formed file covers, and that it holds it.
LEMMA CoversIs ==
  ASSUME NEW f \in SegmentType, NEW h, FileOK(f, h),
         NEW i \in 1..Len(f.batches), NEW n \in Int
  PROVE  /\ Covers(f.batches[i], n) <=> Pre(f, i - 1) < n /\ n <= Pre(f, i)
         /\ Covers(f.batches[i], n) => At(f.batches[i], n) = h[n]
<1> DEFINE bt == f.batches[i]
           p == Pre(f, i - 1)
           l == Len(bt.data)
<1>1. /\ p \in Nat /\ l \in Nat /\ bt.last \in Nat /\ bt.last = Pre(f, i)
      /\ DOMAIN bt.data = 1..l
  <2>1. i # 0 /\ i - 1 \in 0..Len(f.batches)
    BY FileTyped
  <2> QED BY <2>1, FileTyped DEF Pre
<1>2. bt.last = p + l /\ \A k \in 1..l : bt.data[k] = h[p + k]
  BY <1>1, FileTyped DEF FileOK
<1>3. First(bt) = p + 1
  <2>1. First(bt) = bt.last - l + 1
    BY DEF First
  <2> HIDE DEF p, l, bt
  <2> QED BY <1>1, <1>2, <2>1
<1>4. Covers(bt, n) <=> p < n /\ n <= Pre(f, i)
  <2> HIDE DEF p, bt
  <2> QED BY <1>1, <1>3 DEF Covers
<1>5. ASSUME Covers(bt, n) PROVE At(bt, n) = h[n]
  <2>1. At(bt, n) = bt.data[n - p]
    <3>1. At(bt, n) = bt.data[n - (p + 1) + 1]
      BY <1>3 DEF At
    <3>2. n - (p + 1) + 1 = n - p
      <4> HIDE DEF p
      <4> QED BY <1>1
    <3> QED BY <3>1, <3>2
  <2>2. n - p \in 1..l /\ p + (n - p) = n
    <3>1. p < n /\ n <= p + l
      BY <1>1, <1>2, <1>4, <1>5
    <3> HIDE DEF p, l
    <3> QED BY <1>1, <3>1
  <2> HIDE DEF p, l, bt
  <2> QED BY <1>2, <2>1, <2>2
<1> QED BY <1>4, <1>5

\* What a file records lies between its preceding mutation and its end.
LEMMA HasBetween ==
  ASSUME NEW f \in SegmentType, NEW h, FileOK(f, h), NEW n \in Int, Has(f, n)
  PROVE  f.preceding < n /\ n <= End(f) /\ n \in Nat /\ n # 0
<1>1. PICK i \in 1..Len(f.batches) : Covers(f.batches[i], n)
  BY FileTyped DEF Has
<1>2. Pre(f, i - 1) < n /\ n <= Pre(f, i)
  BY <1>1, CoversIs
<1>3. /\ i - 1 \in 0..Len(f.batches) /\ i \in 0..Len(f.batches)
      /\ 0 \in 0..Len(f.batches) /\ Len(f.batches) \in 0..Len(f.batches)
      /\ i <= Len(f.batches) /\ 0 <= i - 1
  BY FileTyped
<1>4. /\ Pre(f, 0) <= Pre(f, i - 1) /\ Pre(f, i) <= End(f)
      /\ Pre(f, i) \in Nat /\ Pre(f, i - 1) \in Nat /\ Pre(f, 0) = f.preceding
      /\ f.preceding \in Nat /\ End(f) \in Nat
  BY <1>3, FileTyped DEF FileOK, End, Pre
<1> QED BY <1>2, <1>4

\* A file ends no lower than any of its prefixes, and within the history.
LEMMA EndIs ==
  ASSUME NEW f \in SegmentType, NEW h, FileOK(f, h), Len(h) \in Nat
  PROVE  /\ \A k \in 0..Len(f.batches) : Pre(f, k) <= End(f)
         /\ f.preceding <= End(f) /\ End(f) <= Len(h)
<1>1. \A k \in 0..Len(f.batches) :
        k <= Len(f.batches) /\ Len(f.batches) \in 0..Len(f.batches)
        /\ 0 \in 0..Len(f.batches)
  BY FileTyped
<1>2. \A k \in 0..Len(f.batches) : Pre(f, k) <= End(f)
  BY <1>1 DEF FileOK, End
<1>3. f.preceding <= End(f)
  <2>1. 0 \in 0..Len(f.batches) /\ Pre(f, 0) = f.preceding
    BY FileTyped DEF Pre
  <2> QED BY <1>2, <2>1
<1>4. End(f) <= Len(h)
  <2>1. CASE Len(f.batches) = 0
    BY <2>1 DEF End, Pre, FileOK
  <2>2. CASE Len(f.batches) # 0
    <3>1. Len(f.batches) \in DOMAIN f.batches
      BY <2>2, FileTyped
    <3> QED BY <3>1 DEF End, FileOK
  <2> QED BY <2>1, <2>2
<1> QED BY <1>2, <1>3, <1>4

\* A file that changed only states is as well-formed, and records the same.
LEMMA SameFile ==
  ASSUME NEW f \in SegmentType, NEW g \in SegmentType, Same(f, g), NEW h
  PROVE  /\ DOMAIN g.batches = DOMAIN f.batches
         /\ \A k \in 0..Len(f.batches) : Pre(g, k) = Pre(f, k)
         /\ End(g) = End(f)
         /\ \A i \in DOMAIN f.batches : \A n :
              Covers(g.batches[i], n) <=> Covers(f.batches[i], n)
         /\ \A n : Has(g, n) <=> Has(f, n)
         /\ FileOK(f, h) => FileOK(g, h)
<1>1. /\ Len(f.batches) \in Nat /\ Len(g.batches) = Len(f.batches)
      /\ DOMAIN f.batches = 1..Len(f.batches)
      /\ DOMAIN g.batches = 1..Len(f.batches)
  BY FileTyped DEF Same
<1>2. ASSUME NEW k \in 0..Len(f.batches) PROVE Pre(g, k) = Pre(f, k)
  <2>1. CASE k = 0
    BY <2>1 DEF Pre, Same
  <2>2. CASE k # 0
    <3>1. k \in DOMAIN f.batches
      BY <1>1, <2>2
    <3> QED BY <2>2, <3>1 DEF Pre, Same
  <2> QED BY <2>1, <2>2
<1>3. End(g) = End(f)
  <2>1. Len(f.batches) \in 0..Len(f.batches)
    BY <1>1
  <2> QED BY <1>1, <1>2, <2>1 DEF End
<1>4. \A i \in DOMAIN f.batches : \A n :
        Covers(g.batches[i], n) <=> Covers(f.batches[i], n)
  BY DEF Same, Covers, First
<1>5. \A n : Has(g, n) <=> Has(f, n)
  BY <1>1, <1>4 DEF Has
<1>6. ASSUME FileOK(f, h) PROVE FileOK(g, h)
  <2>1. \A i, j \in 0..Len(g.batches) : i <= j => Pre(g, i) <= Pre(g, j)
    BY <1>1, <1>2, <1>6 DEF FileOK
  <2>2. ASSUME NEW i \in DOMAIN g.batches
        PROVE  /\ Pre(g, i) <= Len(h)
               /\ Pre(g, i) = Pre(g, i - 1) + Len(g.batches[i].data)
               /\ \A k \in DOMAIN g.batches[i].data :
                    g.batches[i].data[k] = h[Pre(g, i - 1) + k]
    <3>1. i \in DOMAIN f.batches /\ i - 1 \in 0..Len(f.batches)
          /\ i \in 0..Len(f.batches)
      BY <1>1
    <3>2. g.batches[i].data = f.batches[i].data
      BY <3>1 DEF Same
    <3>3. Pre(g, i) = Pre(f, i) /\ Pre(g, i - 1) = Pre(f, i - 1)
      BY <1>2, <3>1
    <3>4. /\ Pre(f, i) <= Len(h)
          /\ Pre(f, i) = Pre(f, i - 1) + Len(f.batches[i].data)
          /\ \A k \in DOMAIN f.batches[i].data :
               f.batches[i].data[k] = h[Pre(f, i - 1) + k]
      BY <1>6, <3>1 DEF FileOK
    <3> QED BY <3>2, <3>3, <3>4
  <2> QED BY <1>1, <1>6, <2>1, <2>2 DEF FileOK, Same
<1> QED BY <1>1, <1>2, <1>3, <1>4, <1>5, <1>6

\* States that only improve keep what a file reaches.
LEMMA SameReaches ==
  ASSUME NEW f \in SegmentType, NEW g \in SegmentType, Same(f, g),
         NEW k, NEW S, NEW T,
         \A i \in DOMAIN f.batches : f.batches[i].st \in S => g.batches[i].st \in T
  PROVE  Reaches(f, k, S) => Reaches(g, k, T)
<1>1. /\ Len(f.batches) \in Nat /\ Len(g.batches) = Len(f.batches)
      /\ DOMAIN f.batches = 1..Len(f.batches)
  BY FileTyped DEF Same
<1> SUFFICES ASSUME NEW c \in 0..Len(f.batches), Through(f, c, k, S)
             PROVE  Through(g, c, k, T)
  BY <1>1 DEF Reaches
<1>2. Pre(g, c) = Pre(f, c)
  BY SameFile
<1>3. \A i \in 1..c : i \in DOMAIN f.batches
  BY <1>1
<1> QED BY <1>1, <1>2, <1>3 DEF Through

\* A file reaches what lies below, in weaker states.
LEMMA ReachesLess ==
  ASSUME NEW f \in SegmentType, NEW k \in Nat, NEW m \in Nat, m <= k,
         NEW S, NEW T, S \subseteq T, Reaches(f, k, S)
  PROVE  Reaches(f, m, T)
<1>1. PICK g \in 0..Len(f.batches) : Through(f, g, k, S)
  BY DEF Reaches
<1>2. Pre(f, g) \in Nat
  BY FileTyped
<1>3. Through(f, g, m, T)
  BY <1>1, <1>2 DEF Through
<1> QED BY <1>3 DEF Reaches

\* A synced file reaches its end; any file reaches what precedes it.
LEMMA ReachesEnd ==
  ASSUME NEW f \in SegmentType, NEW k
  PROVE  /\ AllSynced(f) /\ k <= End(f) => Reaches(f, k, {"synced"})
         /\ k <= f.preceding => \A S : Reaches(f, k, S)
<1>1. Len(f.batches) \in Nat /\ DOMAIN f.batches = 1..Len(f.batches)
  BY FileTyped
<1>2. ASSUME AllSynced(f), k <= End(f) PROVE Reaches(f, k, {"synced"})
  <2>1. Through(f, Len(f.batches), k, {"synced"})
    BY <1>1, <1>2 DEF Through, AllSynced, End
  <2> QED BY <1>1, <2>1 DEF Reaches
<1>3. ASSUME k <= f.preceding, NEW S PROVE Reaches(f, k, S)
  <2>1. Through(f, 0, k, S)
    BY <1>1, <1>3 DEF Through, Pre
  <2> QED BY <1>1, <2>1 DEF Reaches
<1> QED BY <1>2, <1>3

\* The batches before the first bad one are unique, and reach what any
\* intact prefix reaches.
LEMMA KeepsIs ==
  ASSUME NEW f \in SegmentType, NEW h, FileOK(f, h), NEW g, Keeps(f, g)
  PROVE  /\ \A c : Keeps(f, c) => c = g
         /\ Pre(f, g) \in Nat /\ g \in Nat
         /\ \A k, S : Reaches(f, k, S) /\ "bad" \notin S /\ k \in Nat =>
              k <= Pre(f, g) /\ \E c \in 0..g : Through(f, c, k, S)
<1>1. /\ Len(f.batches) \in Nat /\ DOMAIN f.batches = 1..Len(f.batches)
      /\ g \in 0..Len(f.batches) /\ Pre(f, g) \in Nat /\ g \in Nat
  BY FileTyped DEF Keeps
<1>2. ASSUME NEW c, Keeps(f, c) PROVE c = g
  <2>1. c \in 0..Len(f.batches)
    BY <1>2 DEF Keeps
  <2>2. ~(c < g)
    <3> SUFFICES ASSUME c < g PROVE FALSE
      OBVIOUS
    <3>1. c < Len(f.batches) /\ c + 1 \in 1..g
      BY <1>1, <2>1
    <3> QED BY <1>2, <3>1 DEF Keeps
  <2>3. ~(g < c)
    <3> SUFFICES ASSUME g < c PROVE FALSE
      OBVIOUS
    <3>1. g < Len(f.batches) /\ g + 1 \in 1..c
      BY <1>1, <2>1
    <3> QED BY <1>2, <3>1 DEF Keeps
  <2> QED BY <1>1, <2>1, <2>2, <2>3
<1>3. ASSUME NEW k \in Nat, NEW S, Reaches(f, k, S), "bad" \notin S
      PROVE  k <= Pre(f, g) /\ \E c \in 0..g : Through(f, c, k, S)
  <2>1. PICK c \in 0..Len(f.batches) : Through(f, c, k, S)
    BY <1>3 DEF Reaches
  <2>2. c <= g
    <3> SUFFICES ASSUME g < c PROVE FALSE
      BY <1>1
    <3>1. g < Len(f.batches) /\ g + 1 \in 1..c
      BY <1>1
    <3> QED BY <1>3, <2>1, <3>1 DEF Keeps, Through
  <2>3. Pre(f, c) <= Pre(f, g) /\ Pre(f, c) \in Nat
    BY <1>1, <2>2, FileTyped DEF FileOK
  <2>4. k <= Pre(f, c)
    BY <2>1 DEF Through
  <2>5. c \in 0..g
    BY <1>1, <2>2
  <2> QED BY <1>1, <2>1, <2>3, <2>4, <2>5
<1> QED BY <1>1, <1>2, <1>3

\* The file f with one more batch, which continues it.
LEMMA AppendFile ==
  ASSUME NEW f \in SegmentType, NEW g \in SegmentType, NEW h, FileOK(f, h),
         NEW bt \in BatchType, g.preceding = f.preceding,
         g.batches = Append(f.batches, bt),
         Len(f.batches) + 1 <= Capacity, bt.last <= Len(h), Len(h) \in Nat,
         bt.last = End(f) + Len(bt.data),
         \A k \in DOMAIN bt.data : bt.data[k] = h[End(f) + k]
  PROVE  /\ Len(g.batches) = Len(f.batches) + 1
         /\ g.batches[Len(f.batches) + 1] = bt
         /\ \A i \in 1..Len(f.batches) : g.batches[i] = f.batches[i]
         /\ \A k \in 0..Len(f.batches) : Pre(g, k) = Pre(f, k)
         /\ End(g) = bt.last /\ End(f) <= End(g)
         /\ FileOK(g, h)
         /\ \A n \in Int : Has(f, n) \/ (End(f) < n /\ n <= bt.last) => Has(g, n)
         /\ \A k, S : Reaches(f, k, S) => Reaches(g, k, S)
<1> DEFINE l == Len(f.batches)
<1>1. /\ l \in Nat /\ DOMAIN f.batches = 1..l /\ f.batches \in Seq(BatchType)
      /\ Len(g.batches) = l + 1 /\ DOMAIN g.batches = 1..(l + 1)
      /\ \A i \in 1..l : g.batches[i] = f.batches[i]
      /\ g.batches[l + 1] = bt
  BY FileTyped, AppendProperties
<1>2. bt.last \in Nat /\ Len(bt.data) \in Nat /\ bt.data \in Seq(Mutation)
      /\ DOMAIN bt.data = 1..Len(bt.data)
  BY LenProperties DEF BatchType
<1>3. \A k \in 0..l : Pre(g, k) = Pre(f, k)
  BY <1>1 DEF Pre
<1>4. Pre(g, l + 1) = bt.last
  BY <1>1 DEF Pre
<1>5. End(g) = bt.last
  BY <1>1, <1>4 DEF End
<1>6. End(f) \in Nat /\ End(f) = Pre(f, l) /\ End(f) <= bt.last
  <2>1. End(f) \in Nat
    BY FileTyped
  <2> QED BY <1>2, <2>1 DEF End
<1>7. \A k \in 0..l : Pre(f, k) \in Nat /\ Pre(f, k) <= End(f)
  BY FileTyped, EndIs
<1>8. FileOK(g, h)
  <2>1. ASSUME NEW i \in 0..(l + 1), NEW j \in 0..(l + 1), i <= j
        PROVE  Pre(g, i) <= Pre(g, j)
    <3>1. CASE j \in 0..l
      <4>1. i \in 0..l
        BY <1>1, <2>1, <3>1
      <4> QED BY <1>3, <2>1, <3>1, <4>1 DEF FileOK
    <3>2. CASE j = l + 1 /\ i \in 0..l
      BY <1>2, <1>3, <1>4, <1>6, <1>7, <3>2
    <3>3. CASE j = l + 1 /\ i = l + 1
      BY <1>2, <1>4, <3>3
    <3> QED BY <1>1, <3>1, <3>2, <3>3
  <2>2. ASSUME NEW i \in 1..(l + 1)
        PROVE  /\ Pre(g, i) <= Len(h)
               /\ Pre(g, i) = Pre(g, i - 1) + Len(g.batches[i].data)
               /\ \A k \in DOMAIN g.batches[i].data :
                    g.batches[i].data[k] = h[Pre(g, i - 1) + k]
    <3>1. CASE i \in 1..l
      <4>1. i \in 0..l /\ i - 1 \in 0..l /\ i \in DOMAIN f.batches
        BY <1>1, <3>1
      <4>2. Pre(g, i) = Pre(f, i) /\ Pre(g, i - 1) = Pre(f, i - 1)
            /\ g.batches[i] = f.batches[i]
        BY <1>1, <1>3, <3>1, <4>1
      <4>3. /\ Pre(f, i) <= Len(h)
            /\ Pre(f, i) = Pre(f, i - 1) + Len(f.batches[i].data)
            /\ \A k \in DOMAIN f.batches[i].data :
                 f.batches[i].data[k] = h[Pre(f, i - 1) + k]
        BY <4>1 DEF FileOK
      <4> QED BY <4>2, <4>3
    <3>2. CASE i = l + 1
      <4>1. i - 1 = l /\ l \in 0..l
        BY <1>1, <3>2
      <4>2. Pre(g, i - 1) = End(f) /\ Pre(g, i) = bt.last /\ g.batches[i] = bt
        BY <1>1, <1>3, <1>4, <1>6, <3>2, <4>1
      <4> QED BY <4>2
    <3> QED BY <1>1, <3>1, <3>2
  <2>3. l + 1 <= Capacity /\ g.preceding <= Len(h)
    BY DEF FileOK
  <2> QED BY <1>1, <2>1, <2>2, <2>3 DEF FileOK
<1>9. ASSUME NEW n \in Int, Has(f, n) \/ (End(f) < n /\ n <= bt.last)
      PROVE  Has(g, n)
  <2>1. CASE Has(f, n)
    <3>1. PICK i \in 1..l : Covers(f.batches[i], n)
      BY <1>1, <2>1 DEF Has
    <3>2. i \in DOMAIN g.batches /\ Covers(g.batches[i], n)
      BY <1>1, <3>1
    <3> QED BY <3>2 DEF Has
  <2>2. CASE End(f) < n /\ n <= bt.last
    <3>1. l + 1 \in 1..Len(g.batches) /\ l + 1 - 1 = l /\ l \in 0..l
      BY <1>1
    <3>2. Pre(g, l) = End(f)
      BY <1>3, <1>6, <3>1
    <3>3. Covers(g.batches[l + 1], n)
      BY <1>4, <1>8, <2>2, <3>1, <3>2, CoversIs
    <3> QED BY <1>1, <3>1, <3>3 DEF Has
  <2> QED BY <1>9, <2>1, <2>2
<1>10. ASSUME NEW k, NEW S, Reaches(f, k, S) PROVE Reaches(g, k, S)
  <2>1. PICK c \in 0..l : Through(f, c, k, S)
    BY <1>10 DEF Reaches
  <2>2. c \in 0..Len(g.batches) /\ \A i \in 1..c : i \in 1..l
    BY <1>1
  <2>3. Pre(g, c) = Pre(f, c) /\ \A i \in 1..c : g.batches[i] = f.batches[i]
    BY <1>1, <1>3, <2>2
  <2>4. Through(g, c, k, S)
    BY <2>1, <2>2, <2>3 DEF Through
  <2> QED BY <2>2, <2>4 DEF Reaches
<1> QED BY <1>1, <1>3, <1>5, <1>6, <1>8, <1>9, <1>10

\* The file f cut to its first m batches, which are synced.
LEMMA TruncateFile ==
  ASSUME NEW f \in SegmentType, NEW g \in SegmentType, NEW h, FileOK(f, h),
         NEW m \in 0..Len(f.batches), g.preceding = f.preceding,
         Len(g.batches) = m,
         \A i \in 1..m : /\ g.batches[i].last = f.batches[i].last
                         /\ g.batches[i].data = f.batches[i].data
                         /\ g.batches[i].punched = f.batches[i].punched
                         /\ g.batches[i].st = "synced"
  PROVE  /\ AllSynced(g) /\ End(g) = Pre(f, m) /\ FileOK(g, h)
         /\ \A n \in Int : Has(f, n) /\ n <= Pre(f, m) => Has(g, n)
<1>1. /\ Len(f.batches) \in Nat /\ DOMAIN f.batches = 1..Len(f.batches)
      /\ m \in Nat /\ m <= Len(f.batches) /\ DOMAIN g.batches = 1..m
  BY FileTyped
<1>2. ASSUME NEW k \in 0..m PROVE Pre(g, k) = Pre(f, k)
  <2>1. CASE k = 0
    BY <2>1 DEF Pre
  <2>2. CASE k # 0
    <3>1. k \in 1..m
      BY <1>1, <2>2
    <3> QED BY <2>2, <3>1 DEF Pre
  <2> QED BY <2>1, <2>2
<1>3. End(g) = Pre(f, m)
  <2>1. m \in 0..m
    BY <1>1
  <2> QED BY <1>2, <2>1 DEF End
<1>4. AllSynced(g)
  BY <1>1 DEF AllSynced
<1>5. FileOK(g, h)
  <2>1. \A i \in 0..m : i \in 0..Len(f.batches)
    BY <1>1
  <2>2. ASSUME NEW i \in 0..m, NEW j \in 0..m, i <= j
        PROVE  Pre(g, i) <= Pre(g, j)
    BY <1>2, <2>1, <2>2 DEF FileOK
  <2>3. ASSUME NEW i \in 1..m
        PROVE  /\ Pre(g, i) <= Len(h)
               /\ Pre(g, i) = Pre(g, i - 1) + Len(g.batches[i].data)
               /\ \A k \in DOMAIN g.batches[i].data :
                    g.batches[i].data[k] = h[Pre(g, i - 1) + k]
    <3>1. i \in 0..m /\ i - 1 \in 0..m /\ i \in DOMAIN f.batches
      BY <1>1
    <3>2. /\ Pre(f, i) <= Len(h)
          /\ Pre(f, i) = Pre(f, i - 1) + Len(f.batches[i].data)
          /\ \A k \in DOMAIN f.batches[i].data :
               f.batches[i].data[k] = h[Pre(f, i - 1) + k]
      BY <3>1 DEF FileOK
    <3>3. Pre(g, i) = Pre(f, i) /\ Pre(g, i - 1) = Pre(f, i - 1)
          /\ g.batches[i].data = f.batches[i].data
      BY <1>2, <3>1
    <3> QED BY <3>2, <3>3
  <2>4. m <= Capacity /\ g.preceding <= Len(h)
    BY <1>1, ConstantsAssumption DEF FileOK
  <2> QED BY <1>1, <2>2, <2>3, <2>4 DEF FileOK
<1>6. ASSUME NEW n \in Int, Has(f, n), n <= Pre(f, m) PROVE Has(g, n)
  <2>1. PICK i \in 1..Len(f.batches) : Covers(f.batches[i], n)
    BY <1>1, <1>6 DEF Has
  <2>2. Pre(f, i - 1) < n
    BY <2>1, CoversIs
  <2>3. i - 1 \in 0..Len(f.batches) /\ i - 1 < m
    <3>1. i - 1 \in 0..Len(f.batches)
      BY <1>1
    <3>2. ASSUME m <= i - 1 PROVE FALSE
      <4>1. Pre(f, m) <= Pre(f, i - 1)
        BY <3>1, <3>2 DEF FileOK
      <4>2. Pre(f, m) \in Nat /\ Pre(f, i - 1) \in Nat
        BY <3>1, FileTyped
      <4> QED BY <1>6, <2>2, <4>1, <4>2
    <3> QED BY <1>1, <3>1, <3>2
  <2>4. i \in 1..m
    BY <1>1, <2>3
  <2>5. Covers(g.batches[i], n)
    BY <2>1, <2>4 DEF Covers, First
  <2> QED BY <1>1, <2>4, <2>5 DEF Has
<1> QED BY <1>3, <1>4, <1>5, <1>6

\* A history that agrees up to the end of the file serves it as well.
LEMMA OtherHistory ==
  ASSUME NEW f \in SegmentType, NEW h, NEW k, FileOK(f, h),
         Len(h) \in Nat, Len(k) \in Nat, End(f) <= Len(k),
         \A n \in 1..End(f) : k[n] = h[n]
  PROVE  FileOK(f, k)
<1>1. /\ Len(f.batches) \in Nat /\ DOMAIN f.batches = 1..Len(f.batches)
      /\ End(f) \in Nat /\ f.preceding \in Nat /\ f.preceding <= End(f)
  BY FileTyped, EndIs
<1>2. ASSUME NEW i \in DOMAIN f.batches
      PROVE  /\ Pre(f, i) <= Len(k)
             /\ \A j \in DOMAIN f.batches[i].data :
                  f.batches[i].data[j] = k[Pre(f, i - 1) + j]
  <2>1. i \in 0..Len(f.batches) /\ i - 1 \in 0..Len(f.batches)
    BY <1>1
  <2>2. /\ Pre(f, i) \in Nat /\ Pre(f, i - 1) \in Nat /\ Pre(f, i) <= End(f)
        /\ DOMAIN f.batches[i].data = 1..Len(f.batches[i].data)
        /\ Len(f.batches[i].data) \in Nat
    BY <1>1, <2>1, FileTyped, EndIs
  <2>3. Pre(f, i) = Pre(f, i - 1) + Len(f.batches[i].data)
    BY DEF FileOK
  <2>4. ASSUME NEW j \in DOMAIN f.batches[i].data
        PROVE  f.batches[i].data[j] = k[Pre(f, i - 1) + j]
    <3>1. Pre(f, i - 1) + j \in 1..End(f)
      <4> DEFINE a == Pre(f, i - 1)
                 b == Pre(f, i)
                 c == Len(f.batches[i].data)
                 e == End(f)
      <4>1. a \in Nat /\ b \in Nat /\ c \in Nat /\ e \in Nat /\ b = a + c
            /\ b <= e /\ j \in 1..c
        BY <1>1, <2>2, <2>3
      <4> HIDE DEF a, b, c, e
      <4>2. a + j \in 1..e
        BY <4>1
      <4> QED BY <4>2 DEF a, e
    <3>2. f.batches[i].data[j] = h[Pre(f, i - 1) + j]
      BY DEF FileOK
    <3> QED BY <3>1, <3>2
  <2> QED BY <1>1, <2>2, <2>4
<1>3. f.preceding <= Len(k)
  BY <1>1
<1> QED BY <1>2, <1>3 DEF FileOK

-----------------------------------------------------------------------------
(* Greatest and least members, and the newest mutation of a block.         *)

\* A set of naturals has a least member.
LEMMA LeastExists ==
  ASSUME NEW S \in SUBSET Nat, S # {}
  PROVE  \E m \in S : \A x \in S : m <= x
<1> DEFINE R == OpToRel(<, Nat)
<1>1. IsWellFoundedOn(R, Nat)
  BY NatLessThanWellFounded
<1>2. \E y \in S : \A z \in S : ~(<<z, y>> \in R)
  <2> HIDE DEF R
  <2> QED BY <1>1, WFMin
<1>3. \A a, b \in Nat : <<a, b>> \in R <=> a < b
  BY DEF OpToRel
<1>4. PICK y \in S : \A z \in S : ~(<<z, y>> \in R)
  BY <1>2
<1>5. \A z \in S : ~(z < y)
  <2> HIDE DEF R
  <2> QED BY <1>3, <1>4
<1> QED BY <1>5

\* Least is it.
LEMMA LeastIs ==
  ASSUME NEW S \in SUBSET Nat, S # {}
  PROVE  Least(S) \in S /\ \A x \in S : Least(S) <= x
<1>1. \E m \in S : \A x \in S : m <= x
  BY LeastExists
<1> QED BY <1>1 DEF Least

\* A bounded set of naturals has a greatest member, and Greatest is it.
LEMMA GreatestIs ==
  ASSUME NEW S \in SUBSET Nat, S # {}, NEW k \in Nat, \A x \in S : x <= k
  PROVE  Greatest(S) \in S /\ \A x \in S : x <= Greatest(S)
<1> DEFINE T == {k - x : x \in S}
<1>1. \A x \in S : k - x \in Nat
  OBVIOUS
<1>2. T \in SUBSET Nat /\ T # {}
  BY <1>1
<1>3. PICK y \in T : \A z \in T : y <= z
  <2> HIDE DEF T
  <2> QED BY <1>2, LeastExists
<1>4. PICK m \in S : y = k - m
  OBVIOUS
<1>5. \A x \in S : x <= m
  <2> SUFFICES ASSUME NEW x \in S PROVE x <= m
    OBVIOUS
  <2>1. k - m <= k - x
    BY <1>3, <1>4
  <2> QED BY <2>1
<1>6. \E a \in S : \A x \in S : x <= a
  BY <1>5
<1> QED BY <1>6 DEF Greatest

\* x is the newest mutation of b in lo+1..hi, 0 when there is none.
IsLast(h, lo, hi, b, x) ==
  \/ x = 0 /\ \A n \in (lo + 1)..hi : h[n].block # b
  \/ /\ x \in (lo + 1)..hi /\ h[x].block = b
     /\ \A n \in (x + 1)..hi : h[n].block # b

\* LastTouch is the newest mutation.
LEMMA LastTouchIs ==
  ASSUME NEW h, NEW lo \in Nat, NEW hi \in Nat, NEW b
  PROVE  IsLast(h, lo, hi, b, LastTouch(h, lo, hi, b))
<1> DEFINE S == {n \in (lo + 1)..hi : h[n].block = b}
<1>1. S \in SUBSET Nat /\ \A n \in S : n <= hi
  OBVIOUS
<1>2. LastTouch(h, lo, hi, b) = Greatest(S)
  BY DEF LastTouch
<1>3. CASE S = {}
  <2>1. Greatest(S) = 0
    BY <1>3 DEF Greatest
  <2> QED BY <1>2, <1>3, <2>1 DEF IsLast
<1>4. CASE S # {}
  <2>1. Greatest(S) \in S /\ \A x \in S : x <= Greatest(S)
    <3> HIDE DEF S
    <3> QED BY <1>1, <1>4, GreatestIs
  <2>2. PICK x : x = Greatest(S)
    OBVIOUS
  <2>3. x \in (lo + 1)..hi /\ h[x].block = b
    BY <2>1, <2>2
  <2>4. \A n \in (x + 1)..hi : h[n].block # b
    <3> SUFFICES ASSUME NEW n \in (x + 1)..hi, h[n].block = b PROVE FALSE
      OBVIOUS
    <3>1. n \in S
      BY <2>3
    <3> QED BY <2>1, <2>2, <2>3, <3>1
  <2> QED BY <1>2, <2>2, <2>3, <2>4 DEF IsLast
<1> QED BY <1>3, <1>4

\* Nothing else is.
LEMMA LastTouchOnly ==
  ASSUME NEW h, NEW lo \in Nat, NEW hi \in Nat, NEW b, NEW x,
         IsLast(h, lo, hi, b, x)
  PROVE  x = LastTouch(h, lo, hi, b)
<1>1. PICK y : y = LastTouch(h, lo, hi, b)
  OBVIOUS
<1>2. IsLast(h, lo, hi, b, y)
  BY <1>1, LastTouchIs
<1>3. x = y
  <2>1. ASSUME x \in (lo + 1)..hi, y \in (lo + 1)..hi, x < y PROVE FALSE
    <3>1. y \in (x + 1)..hi /\ x # 0
      BY <2>1
    <3>2. h[y].block = b
      BY <1>2, <2>1 DEF IsLast
    <3> QED BY <2>1, <3>1, <3>2 DEF IsLast
  <2>2. ASSUME x \in (lo + 1)..hi, y \in (lo + 1)..hi, y < x PROVE FALSE
    <3>1. x \in (y + 1)..hi /\ y # 0
      BY <2>2
    <3>2. h[x].block = b
      BY <2>2 DEF IsLast
    <3> QED BY <1>2, <2>2, <3>1, <3>2 DEF IsLast
  <2>3. CASE x \in (lo + 1)..hi /\ y \in (lo + 1)..hi
    BY <2>1, <2>2, <2>3
  <2>4. CASE ~(x \in (lo + 1)..hi)
    <3>1. x = 0 /\ \A n \in (lo + 1)..hi : h[n].block # b
      BY <2>4 DEF IsLast
    <3> QED BY <1>2, <3>1 DEF IsLast
  <2>5. CASE ~(y \in (lo + 1)..hi)
    <3>1. y = 0 /\ \A n \in (lo + 1)..hi : h[n].block # b
      BY <1>2, <2>5 DEF IsLast
    <3> QED BY <3>1 DEF IsLast
  <2> QED BY <2>3, <2>4, <2>5
<1> QED BY <1>1, <1>3

\* The newest mutation of a range is that of its upper part, else of its lower.
LEMMA LastTouchSplit ==
  ASSUME NEW h, NEW lo \in Nat, NEW d \in Nat, NEW hi \in Nat,
         lo <= d, d <= hi, NEW b
  PROVE  LET u == LastTouch(h, d, hi, b)
         IN  /\ LastTouch(h, lo, hi, b)
                  = IF u = 0 THEN LastTouch(h, lo, d, b) ELSE u
             /\ u # 0 => u > d
             /\ LastTouch(h, lo, d, b) <= d
<1>1. PICK u : u = LastTouch(h, d, hi, b)
  OBVIOUS
<1>2. PICK v : v = LastTouch(h, lo, d, b)
  OBVIOUS
<1>3. IsLast(h, d, hi, b, u) /\ IsLast(h, lo, d, b, v)
  BY <1>1, <1>2, LastTouchIs
<1>4. u # 0 => u \in (d + 1)..hi
  BY <1>3 DEF IsLast
<1>5. v # 0 => v \in (lo + 1)..d
  BY <1>3 DEF IsLast
<1>6. CASE u # 0
  <2>1. u \in (lo + 1)..hi
    BY <1>4, <1>6
  <2>2. IsLast(h, lo, hi, b, u)
    BY <1>3, <1>6, <2>1 DEF IsLast
  <2> QED BY <1>1, <1>2, <1>4, <1>5, <1>6, <2>2, LastTouchOnly
<1>7. CASE u = 0
  <2>1. \A n \in (d + 1)..hi : h[n].block # b
    BY <1>3, <1>7 DEF IsLast
  <2>2. IsLast(h, lo, hi, b, v)
    <3>1. CASE v = 0
      <4>1. \A n \in (lo + 1)..d : h[n].block # b
        BY <1>3, <3>1 DEF IsLast
      <4>2. \A n \in (lo + 1)..hi : n \in (lo + 1)..d \/ n \in (d + 1)..hi
        OBVIOUS
      <4> QED BY <2>1, <3>1, <4>1, <4>2 DEF IsLast
    <3>2. CASE v # 0
      <4>1. v \in (lo + 1)..hi /\ v \in Nat
        BY <1>5, <3>2
      <4>2. h[v].block = b /\ \A n \in (v + 1)..d : h[n].block # b
        BY <1>3, <3>2 DEF IsLast
      <4>3. \A n \in (v + 1)..hi : n \in (v + 1)..d \/ n \in (d + 1)..hi
        BY <4>1
      <4> QED BY <2>1, <4>1, <4>2, <4>3 DEF IsLast
    <3> QED BY <3>1, <3>2
  <2> QED BY <1>1, <1>2, <1>5, <1>7, <2>2, LastTouchOnly
<1> QED BY <1>6, <1>7

\* Only the mutations of the range matter.
LEMMA LastTouchSame ==
  ASSUME NEW h, NEW k, NEW lo \in Nat, NEW hi \in Nat, NEW b,
         \A n \in (lo + 1)..hi : h[n] = k[n]
  PROVE  LastTouch(h, lo, hi, b) = LastTouch(k, lo, hi, b)
<1>1. {n \in (lo + 1)..hi : h[n].block = b} = {n \in (lo + 1)..hi : k[n].block = b}
  OBVIOUS
<1> QED BY <1>1 DEF LastTouch

\* The image after the first k mutations of h.
Image(h, k) == Apply(EmptyView, h, k).map

\* Block by block.
LEMMA ImageIs ==
  ASSUME NEW h, NEW k \in Nat, NEW b \in Blocks
  PROVE  Image(h, k)[b] = LET n == LastTouch(h, 0, k, b)
                          IN  IF n = 0 THEN Zero ELSE Value(n, h[n])
BY DEF Image, Apply, EmptyView

\* An image is its mutations applied to an earlier one.
LEMMA ImageApply ==
  ASSUME NEW h, NEW k, NEW v, NEW hi \in Nat, v.d \in Nat, v.d <= hi,
         v.map = Image(h, v.d), \A n \in (v.d + 1)..hi : k[n] = h[n]
  PROVE  Apply(v, k, hi).map = Image(h, hi)
<1>1. ASSUME NEW b \in Blocks
      PROVE  (IF LastTouch(k, v.d, hi, b) = 0 THEN v.map[b]
              ELSE Value(LastTouch(k, v.d, hi, b), k[LastTouch(k, v.d, hi, b)]))
               = Image(h, hi)[b]
  <2>1. PICK u : u = LastTouch(h, v.d, hi, b)
    OBVIOUS
  <2>2. LastTouch(k, v.d, hi, b) = u
    BY <2>1, LastTouchSame
  <2>3. u # 0 => u \in (v.d + 1)..hi
    BY <2>1, LastTouchIs DEF IsLast
  <2>4. LastTouch(h, 0, hi, b) = IF u = 0 THEN LastTouch(h, 0, v.d, b) ELSE u
    <3>1. 0 \in Nat /\ 0 <= v.d
      OBVIOUS
    <3> QED BY <2>1, <3>1, LastTouchSplit
  <2>5. Image(h, hi)[b] = IF LastTouch(h, 0, hi, b) = 0 THEN Zero
                          ELSE Value(LastTouch(h, 0, hi, b), h[LastTouch(h, 0, hi, b)])
    BY ImageIs
  <2>6. Image(h, v.d)[b] = IF LastTouch(h, 0, v.d, b) = 0 THEN Zero
                           ELSE Value(LastTouch(h, 0, v.d, b), h[LastTouch(h, 0, v.d, b)])
    BY ImageIs
  <2>7. CASE u = 0
    BY <2>2, <2>4, <2>5, <2>6, <2>7
  <2>8. CASE u # 0
    BY <2>2, <2>3, <2>4, <2>5, <2>8
  <2> QED BY <2>7, <2>8
<1>2. Apply(v, k, hi).map =
        [b \in Blocks |-> IF LastTouch(k, v.d, hi, b) = 0 THEN v.map[b]
           ELSE Value(LastTouch(k, v.d, hi, b), k[LastTouch(k, v.d, hi, b)])]
  BY DEF Apply
<1>3. Image(h, hi) = [b \in Blocks |-> Image(h, hi)[b]]
  BY DEF Image, Apply
<1> HIDE DEF Image
<1> QED BY <1>1, <1>2, <1>3

\* Histories that agree on the first k mutations give the same image.
LEMMA ImageSame ==
  ASSUME NEW h, NEW g, NEW k \in Nat, \A n \in 1..k : h[n] = g[n]
  PROVE  Image(g, k) = Image(h, k)
<1>1. ASSUME NEW b \in Blocks PROVE Image(g, k)[b] = Image(h, k)[b]
  <2>1. LastTouch(g, 0, k, b) = LastTouch(h, 0, k, b)
    BY LastTouchSame
  <2>2. LastTouch(h, 0, k, b) # 0 => LastTouch(h, 0, k, b) \in 1..k
    <3>1. 0 \in Nat /\ 0 + 1 = 1
      OBVIOUS
    <3>2. IsLast(h, 0, k, b, LastTouch(h, 0, k, b))
      BY <3>1, LastTouchIs
    <3> QED BY <3>1, <3>2 DEF IsLast
  <2> QED BY <2>1, <2>2, ImageIs
<1>2. /\ Image(h, k) = [b \in Blocks |-> Image(h, k)[b]]
      /\ Image(g, k) = [b \in Blocks |-> Image(g, k)[b]]
  BY DEF Image, Apply
<1> HIDE DEF Image
<1> QED BY <1>1, <1>2

\* Some number of batches precedes the first bad one.
LEMMA KeepsExists ==
  ASSUME NEW f \in SegmentType PROVE \E g : Keeps(f, g)
<1> DEFINE B == {i \in 1..Len(f.batches) : f.batches[i].st = "bad"}
<1>1. Len(f.batches) \in Nat
  BY FileTyped
<1>2. CASE B = {}
  <2>1. Keeps(f, Len(f.batches))
    BY <1>1, <1>2 DEF Keeps
  <2> QED BY <2>1
<1>3. CASE B # {}
  <2>1. PICK m \in B : \A x \in B : m <= x
    <3>1. B \in SUBSET Nat
      BY <1>1
    <3> HIDE DEF B
    <3> QED BY <1>3, <3>1, LeastExists
  <2>2. m - 1 \in 0..Len(f.batches) /\ m - 1 + 1 = m /\ m \in Nat
    BY <1>1
  <2>3. \A i \in 1..m - 1 : i \notin B /\ i \in 1..Len(f.batches)
    BY <1>1, <2>1, <2>2
  <2>4. Keeps(f, m - 1)
    BY <2>1, <2>2, <2>3 DEF Keeps
  <2> QED BY <2>4
<1> QED BY <1>2, <1>3

-----------------------------------------------------------------------------
(* The inductive invariant.                                                *)

\* d maps tickets to files, h is the history, fl the mutation below which the
\* log may forget, lv the mutations whose guest still waits.
Files(d, h) == \A s \in DOMAIN d : FileOK(d[s], h)
Older(d) ==
  \A s, t \in DOMAIN d : s < t => End(d[s]) <= d[t].preceding /\ AllSynced(d[s])
Punched(d, fl) ==
  \A s \in DOMAIN d : \A i \in DOMAIN d[s].batches :
    d[s].batches[i].punched => d[s].batches[i].last <= fl
Cover(d, fl, lv) ==
  \A s \in DOMAIN d : \A n \in 1..End(d[s]) :
    fl < n \/ n \in lv => \E t \in DOMAIN d : Has(d[t], n)
Top(d, s) == s \in DOMAIN d /\ \A t \in DOMAIN d : t <= s

Running == mode \notin {"down", "repair"}
Floor == IF mode = "down" THEN manifest.d ELSE base.d

\* The files together hold every mutation above the floor or in flight, each
\* once; only the last file has batches that are not synced.
DiskInv ==
  /\ Files(disk, history) /\ Older(disk)
  /\ Punched(disk, Floor) /\ Cover(disk, Floor, live)

\* Names without a header are newer than every file.
NamesInv ==
  /\ DOMAIN disk # {} /\ \A s \in DOMAIN disk : 1 <= s /\ s <= highest
  /\ \A t \in stub : \A s \in DOMAIN disk : s < t
  /\ Running => \A t \in stub : t = highest + 1 /\ job.kind = "creating"

\* The current segment is the newest, but for the one a rotation has created.
CurrentInv ==
  /\ mode # "down" => \A s \in DOMAIN disk :
       (s <= current /\ s \in segs) \/ (job.kind = "created" /\ s = highest)
  /\ job.kind = "created" =>
       /\ highest > current /\ disk[highest].batches = <<>>
       /\ disk[highest].preceding = published
  /\ Rotating => /\ AllSynced(disk[current]) /\ cohort = NoCohort
                 /\ issued = published

\* Repair keeps the batches up to the first bad one; they end at P.
RepairInv ==
  mode = "repair" =>
    /\ published = issued
    /\ \E g : Keeps(disk[current], g) /\ Pre(disk[current], g) = published

\* Only the newest fence may be open, and only in a cohort.
Fences(bs, open) ==
  \A i \in DOMAIN bs :
    IsFence(bs[i]) => bs[i].st = "synced" \/ (open /\ i = Len(bs))

\* A batch that is not synced is above E, and its fence has room.
Settled(bs, e, room) ==
  \A i \in DOMAIN bs : bs[i].st = "synced" \/ (bs[i].last > e /\ room)

\* Batches of f up to P are written, and P is the end of one.
PublishedAt(f, p) ==
  \E g \in 0..Len(f.batches) : Through(f, g, p, Intact) /\ Pre(f, g) = p

StatusInv ==
  Running =>
    /\ End(disk[current]) = issued
    /\ \A i \in DOMAIN disk[current].batches : disk[current].batches[i].st # "bad"
    /\ Fences(disk[current].batches, cohort # NoCohort)
    /\ cohort = NoCohort =>
         Settled(disk[current].batches, durable,
                 FenceFits /\ mode \in {"live", "serving"})
    /\ PublishedAt(disk[current], published)

\* What a FLUSH reported is synced in the newest file or precedes it.
AnchorInv ==
  /\ \A s \in DOMAIN disk : Top(disk, s) => Reaches(disk[s], promised, {"synced"})
  /\ mode # "down" => promised <= published
  /\ durable <= promised /\ manifest.d <= promised

\* The carrier owns every mutation it has not published, and fits the files.
CarrierInv ==
  /\ live \subseteq 1..Len(history)
  /\ attach = 0 => live = {}
  /\ attach = 0 /\ Running => issued = Len(history) /\ published = Len(history)
  /\ attach # 0 =>
       /\ \A n \in (acked + 1)..Len(history) : n \in live
       /\ \A s \in DOMAIN disk : Top(disk, s) => disk[s].epoch = attach
       /\ ~Running => \A s \in DOMAIN disk :
            Top(disk, s) => Reaches(disk[s], acked, Intact)
       /\ mode # "down" => acked <= published
  /\ Rotating /\ job.fresh => attach = 0
  /\ mode \in {"fresh", "fence"} => attach = 0

\* Every view is the image at its D.
MapInv ==
  /\ manifest.map = Image(history, manifest.d)
  /\ mode # "down" => base.map = Image(history, base.d)
  /\ job.kind = "loaded" => job.view.map = Image(history, job.view.d)

\* A reclamation works for the installed view and spares what is in flight.
ReclaimInv ==
  job.kind \in {"punch", "unlink"} =>
    /\ job.view = base /\ job.oldest <= Len(history)
    /\ \A n \in live : job.oldest <= n /\ (job.oldest = 0 => n > base.d)

LogInv ==
  /\ DiskInv /\ NamesInv /\ CurrentInv /\ RepairInv /\ StatusInv
  /\ AnchorInv /\ CarrierInv /\ MapInv /\ ReclaimInv

\* What the proofs keep using.
LEMMA Basics ==
  ASSUME TypeOK, FrontierInv, LogInv
  PROVE  /\ DOMAIN disk \subseteq Nat /\ highest \in Nat
         /\ \A s \in DOMAIN disk : disk[s] \in SegmentType /\ FileOK(disk[s], history)
         /\ history \in Seq(Mutation) /\ Len(history) \in Nat
         /\ mode # "down" => current \in DOMAIN disk
         /\ mode # "down" /\ job.kind # "created" => Top(disk, current)
         /\ job.kind = "created" => Top(disk, highest) /\ mode # "down"
         /\ mode # "down" => issued <= Len(history) /\ published <= Len(history)
         /\ \A s, t : Top(disk, s) /\ Top(disk, t) => s = t
<1>1. /\ DOMAIN disk \subseteq Nat /\ highest \in Nat
      /\ \A s \in DOMAIN disk : disk[s] \in SegmentType /\ FileOK(disk[s], history)
      /\ history \in Seq(Mutation) /\ Len(history) \in Nat
  BY LenProperties DEF TypeOK, DiskOK, GuestOK, LogInv, DiskInv, Files
<1>2. mode # "down" => current \in DOMAIN disk
  BY DEF TypeOK, CurrentOK
<1>3. mode # "down" /\ job.kind # "created" => Top(disk, current)
  BY <1>2 DEF LogInv, CurrentInv, Top
<1>4. job.kind = "created" => Top(disk, highest) /\ mode # "down"
  BY <1>1 DEF LogInv, NamesInv, Top, TypeOK, CurrentOK, Idle
<1>5. \A s, t : Top(disk, s) /\ Top(disk, t) => s = t
  BY <1>1 DEF Top
<1>6. mode # "down" => issued <= Len(history)
  <2>1. CASE Running
    BY <1>1, <1>2, <2>1, EndIs DEF LogInv, StatusInv, Running
  <2>2. CASE mode = "repair"
    <3>1. PICK g : Keeps(disk[current], g) /\ Pre(disk[current], g) = published
      BY <2>2 DEF LogInv, RepairInv
    <3>2. g \in 0..Len(disk[current].batches)
      BY <3>1 DEF Keeps
    <3>3. Pre(disk[current], g) <= End(disk[current])
          /\ End(disk[current]) <= Len(history)
          /\ Pre(disk[current], g) \in Nat /\ End(disk[current]) \in Nat
      BY <1>1, <1>2, <2>2, <3>2, EndIs, FileTyped
    <3> QED BY <1>1, <2>2, <3>1, <3>3 DEF LogInv, RepairInv
  <2> QED BY <2>1, <2>2 DEF Running
<1>7. mode # "down" => published <= Len(history)
  BY <1>1, <1>6, Numbers DEF FrontierInv, OrderInv
<1> QED BY <1>1, <1>2, <1>3, <1>4, <1>5, <1>6, <1>7

\* The empty log satisfies the invariant.
LEMMA InitLog == ASSUME Init PROVE LogInv
<1> DEFINE f == [epoch |-> 1, preceding |-> 0, batches |-> <<>>]
<1>1. disk = [s \in {1} |-> f] /\ disk[1] = f /\ DOMAIN disk = {1}
  BY DEF Init
<1>2. f \in SegmentType /\ Len(f.batches) = 0 /\ DOMAIN f.batches = {}
  BY EmptySeq DEF SegmentType
<1>3. Pre(f, 0) = 0 /\ End(f) = 0
  BY <1>2 DEF Pre, End
<1>4. history = <<>> /\ Len(history) = 0
  BY DEF Init
<1>5. FileOK(f, history)
  BY <1>2, <1>3, <1>4, ConstantsAssumption DEF FileOK
<1>6. AllSynced(f) /\ \A S : Reaches(f, 0, S)
  <2>1. 0 <= f.preceding
    OBVIOUS
  <2> HIDE DEF f
  <2> QED BY <1>2, <2>1, ReachesEnd DEF AllSynced
<1>7. PublishedAt(f, 0)
  BY <1>2, <1>3 DEF PublishedAt, Through
<1>8. manifest.map = Image(history, 0) /\ base.map = Image(history, 0)
  <2>1. ASSUME NEW b \in Blocks PROVE Image(history, 0)[b] = Zero
    <3>1. LastTouch(history, 0, 0, b) = 0
      <4>1. IsLast(history, 0, 0, b, 0)
        BY DEF IsLast
      <4> QED BY <4>1, LastTouchOnly
    <3> QED BY <3>1, ImageIs
  <2>2. Image(history, 0) = [b \in Blocks |-> Image(history, 0)[b]]
    BY DEF Image, Apply
  <2>3. Image(history, 0) = [b \in Blocks |-> Zero]
    <3> HIDE DEF Image
    <3> QED BY <2>1, <2>2
  <2> QED BY <2>3 DEF Init, EmptyView
<1> HIDE DEF f
<1>9. DiskInv
  BY <1>1, <1>2, <1>3, <1>5 DEF DiskInv, Files, Older, Punched, Cover
<1>10. NamesInv /\ CurrentInv /\ RepairInv
  BY <1>1 DEF NamesInv, CurrentInv, RepairInv, Init, Idle, Rotating
<1>11. StatusInv
  BY <1>1, <1>2, <1>3, <1>7 DEF StatusInv, Fences, Settled, Init
<1>12. AnchorInv /\ CarrierInv /\ MapInv /\ ReclaimInv
  BY <1>1, <1>4, <1>6, <1>8 DEF AnchorInv, CarrierInv, MapInv, ReclaimInv, Init,
    EmptyView, Idle, Rotating, Running
<1> QED BY <1>9, <1>10, <1>11, <1>12 DEF LogInv

-----------------------------------------------------------------------------
(* One lemma per action.  First those that leave the files alone.          *)

\* The new mutation is above everything the files hold.
LEMMA AdmitLog ==
  ASSUME TypeOK, FrontierInv, LogInv, NEW b \in Blocks, NEW zero \in Kinds,
         Admit(b, zero)
  PROVE  LogInv'
<1> DEFINE l == Len(history)
           m == [block |-> b, zero |-> zero, epoch |-> attach]
<1>1. /\ history' = Append(history, m) /\ live' = live \cup {l + 1}
      /\ UNCHANGED <<media, acked, attach, mode, failed, frontiers, memory, job,
                     plans, promised>>
      /\ mode = "serving" /\ attach # 0
  BY DEF Admit
<1>2. /\ l \in Nat /\ history' \in Seq(Mutation) /\ Len(history') = l + 1
      /\ \A n \in 1..l : history'[n] = history[n]
  <2>1. m \in Mutation
    BY ConstantsAssumption DEF TypeOK, GuestOK, Mutation
  <2> QED BY <1>1, <2>1, Basics, AppendProperties
<1>3. \A s \in DOMAIN disk : End(disk[s]) \in Nat /\ End(disk[s]) <= l
  BY Basics, FileTyped, EndIs
<1>4. Files(disk, history')
  <2> SUFFICES ASSUME NEW s \in DOMAIN disk PROVE FileOK(disk[s], history')
    BY DEF Files
  <2>1. End(disk[s]) <= Len(history')
        /\ \A n \in 1..End(disk[s]) : history'[n] = history[n]
    BY <1>2, <1>3
  <2> HIDE DEF l, m
  <2> QED BY <1>2, <2>1, Basics, OtherHistory DEF l
<1>5. DiskInv'
  <2>1. Cover(disk, base.d, live')
    <3> SUFFICES ASSUME NEW s \in DOMAIN disk, NEW n \in 1..End(disk[s]),
                        base.d < n \/ n \in live'
                 PROVE  \E t \in DOMAIN disk : Has(disk[t], n)
      BY DEF Cover
    <3>1. n # l + 1
      BY <1>2, <1>3
    <3> QED BY <1>1, <3>1 DEF LogInv, DiskInv, Cover, Floor
  <2> QED BY <1>1, <1>4, <2>1 DEF LogInv, DiskInv, Floor
<1>6. MapInv'
  <2>1. ASSUME NEW k \in Nat, k <= l PROVE Image(history', k) = Image(history, k)
    <3>1. \A n \in 1..k : history[n] = history'[n]
      BY <1>2, <2>1
    <3> QED BY <3>1, ImageSame
  <2>2. /\ manifest.d \in Nat /\ manifest.d <= l /\ base.d \in Nat /\ base.d <= l
        /\ job.view.d \in Nat /\ (job.kind = "loaded" => job.view.d <= l)
    BY SMTT(30), <1>1, <1>2, Basics, Numbers DEF FrontierInv, OrderInv, JobInv
  <2> HIDE DEF l, m
  <2> QED BY <1>1, <2>1, <2>2 DEF LogInv, MapInv
<1>7. CarrierInv'
  <2>1. live' \subseteq 1..Len(history')
    <3>1. live \subseteq 1..l
      BY DEF LogInv, CarrierInv
    <3> HIDE DEF l, m
    <3>2. \A n \in 1..l : n \in 1..Len(history')
      BY <1>2
    <3>3. l + 1 \in 1..Len(history')
      BY <1>2
    <3> QED BY <1>1, <3>1, <3>2, <3>3
  <2>2. \A n \in (acked + 1)..Len(history') : n \in live'
    <3>1. acked \in Nat
      BY DEF TypeOK, GuestOK
    <3> QED BY <1>1, <1>2, <3>1 DEF LogInv, CarrierInv
  <2> HIDE DEF l, m
  <2> QED BY <1>1, <2>1, <2>2 DEF LogInv, CarrierInv, Running, Rotating
<1>8. ReclaimInv'
  <2>1. base.d < l + 1
    BY <1>1, <1>2, Basics, Numbers DEF FrontierInv, OrderInv
  <2>2. job.oldest \in Nat
    BY DEF TypeOK, JobType
  <2>3. job.kind \in {"punch", "unlink"} =>
          job.oldest <= l + 1 /\ job.oldest <= Len(history')
    BY <1>2, <2>2 DEF LogInv, ReclaimInv
  <2> HIDE DEF l, m
  <2> QED BY <1>1, <2>1, <2>3 DEF LogInv, ReclaimInv
<1>9. NamesInv' /\ CurrentInv' /\ RepairInv' /\ StatusInv' /\ AnchorInv'
  BY <1>1 DEF LogInv, NamesInv, CurrentInv, RepairInv, StatusInv, AnchorInv,
    Running, Rotating, FenceFits
<1> QED BY <1>5, <1>6, <1>7, <1>8, <1>9 DEF LogInv

\* A step that leaves files, frontiers and carrier alone and opens no
\* transaction that the invariant speaks of.
LEMMA QuietLog ==
  ASSUME TypeOK, LogInv,
         UNCHANGED <<disk, stub, highest, manifest, history, attach, acked, mode,
                     published, issued, durable, cohort, base, current, promised>>,
         live' \subseteq live, attach # 0 => live \ live' \subseteq 1..acked,
         \A s \in DOMAIN disk : s \in segs => s \in segs',
         \/ job' = job
         \/ /\ job'.kind \notin {"prepared", "creating", "created", "loaded",
                                 "punch", "unlink"}
            /\ job.kind \notin {"creating", "created"}
  PROVE  LogInv'
<1>1. DiskInv'
  <2>1. Cover(disk, Floor, live')
    BY DEF LogInv, DiskInv, Cover
  <2> QED BY <2>1 DEF LogInv, DiskInv, Floor
<1>2. NamesInv' /\ RepairInv' /\ StatusInv' /\ AnchorInv' /\ MapInv'
  BY DEF LogInv, NamesInv, RepairInv, StatusInv, AnchorInv, MapInv, Running,
    FenceFits
<1>3. CurrentInv'
  BY DEF LogInv, CurrentInv, Rotating
<1>4. ReclaimInv'
  BY DEF LogInv, ReclaimInv
<1>5. CarrierInv'
  <2>1. acked \in Nat /\ Len(history) \in Nat
    BY LenProperties DEF TypeOK, GuestOK
  <2>2. attach # 0 => \A n \in (acked + 1)..Len(history) : n \in live'
    <3> SUFFICES ASSUME attach # 0, NEW n \in (acked + 1)..Len(history)
                 PROVE  n \in live'
      OBVIOUS
    <3>1. n \in live /\ n \notin 1..acked
      BY <2>1 DEF LogInv, CarrierInv
    <3> QED BY <3>1
  <2>3. attach = 0 => live' = {}
    BY DEF LogInv, CarrierInv
  <2>4. live' \subseteq 1..Len(history)
    BY DEF LogInv, CarrierInv
  <2>5. (Rotating /\ job.fresh)' => attach' = 0
    BY DEF LogInv, CarrierInv, Rotating
  <2> QED BY <2>2, <2>3, <2>4, <2>5 DEF LogInv, CarrierInv, Running
<1> QED BY <1>1, <1>2, <1>3, <1>4, <1>5 DEF LogInv

\* A retired mutation is acknowledged.
LEMMA RetireLog ==
  ASSUME TypeOK, LogInv, NEW n \in live, Retire(n) PROVE LogInv'
<1>1. n \in 1..acked
  BY DEF Retire, LogInv, CarrierInv, TypeOK, GuestOK
<1> QED BY <1>1, QuietLog DEF Retire

\* Reads and failures change nothing the files depend on.
LEMMA ReadFailLog ==
  ASSUME TypeOK, LogInv,
         Fail \/ \E r \in Readers : ReadDone(r) \/ \E b \in Blocks : ReadPlan(r, b)
  PROVE  LogInv'
BY QuietLog DEF Fail, ReadDone, ReadPlan

\* A transaction that begins or ends without a trace on disk.
LEMMA JobLog ==
  ASSUME TypeOK, LogInv,
         CancelRotation \/ SelectCompaction \/ LoadError \/ DeferCompaction
           \/ ApplyReclamation
  PROVE  LogInv'
<1>1. CASE CancelRotation
  BY <1>1, QuietLog DEF CancelRotation, Idle
<1>2. CASE SelectCompaction
  <2>1. job'.kind = "selected"
    BY <1>2 DEF SelectCompaction, Idle
  <2> QED BY <1>2, <2>1, QuietLog DEF SelectCompaction, Idle
<1>3. CASE LoadError
  BY <1>3, QuietLog DEF LoadError, Idle
<1>4. CASE DeferCompaction
  BY <1>4, QuietLog DEF DeferCompaction, Idle
<1>5. CASE ApplyReclamation
  BY <1>5, QuietLog DEF ApplyReclamation, Idle
<1> QED BY <1>1, <1>2, <1>3, <1>4, <1>5

\* All of the current segment is synced when a rotation is prepared, and a
\* fresh one has no carrier.
LEMMA PrepareRotationLog ==
  ASSUME TypeOK, FrontierInv, LogInv, NEW fresh \in BOOLEAN,
         PrepareRotation(fresh)
  PROVE  LogInv'
<1>1. /\ Running /\ job = Idle /\ cohort = NoCohort /\ issued = published
      /\ attach' = (IF fresh THEN 0 ELSE attach)
      /\ UNCHANGED <<media, history, live, acked, mode, failed, frontiers, memory,
                     plans, promised, crashes>>
      /\ job' = [Idle EXCEPT !.kind = "prepared", !.fresh = fresh]
  BY DEF PrepareRotation, Healthy, Running
<1>2. job'.kind = "prepared" /\ job'.fresh = fresh
  BY <1>1 DEF Idle
<1>3. /\ current \in DOMAIN disk /\ Len(history) \in Nat
      /\ disk[current] \in SegmentType /\ FileOK(disk[current], history)
  BY <1>1, Basics DEF Running
<1>4. AllSynced(disk[current])
  <2>1. Settled(disk[current].batches, durable,
                FenceFits /\ mode \in {"live", "serving"})
    BY <1>1 DEF LogInv, StatusInv
  <2>2. CASE durable = published
    <3> SUFFICES ASSUME NEW i \in DOMAIN disk[current].batches
                 PROVE  ~(disk[current].batches[i].last > durable)
      BY <2>1 DEF AllSynced, Settled
    <3>1. disk[current].batches[i].last <= issued
      BY <1>1 DEF FrontierInv, FilesInv, Below, Running
    <3>2. disk[current].batches[i].last \in Nat
      BY <1>3, FileTyped
    <3> QED BY <1>1, <2>2, <3>1, <3>2, Numbers
  <2>3. CASE ~FenceFits \/ mode = "fresh"
    BY <2>1, <2>3 DEF Settled, AllSynced
  <2> QED BY <2>2, <2>3 DEF PrepareRotation, Drained, ReplayRotates
<1>5. fresh => live = {} /\ published = Len(history)
  <2>1. CASE mode = "serving"
    BY <2>1 DEF PrepareRotation
  <2>2. CASE mode = "fresh"
    BY <1>1, <2>2 DEF LogInv, CarrierInv
  <2> QED BY <2>1, <2>2 DEF PrepareRotation
<1>6. CurrentInv'
  BY <1>1, <1>2, <1>4 DEF LogInv, CurrentInv, Rotating, Idle
<1>7. CarrierInv'
  BY <1>1, <1>2, <1>5 DEF LogInv, CarrierInv, Rotating, Running
<1>8. DiskInv' /\ NamesInv' /\ RepairInv' /\ StatusInv' /\ AnchorInv' /\ MapInv'
  BY <1>1, <1>2 DEF LogInv, DiskInv, NamesInv, RepairInv, StatusInv, AnchorInv,
    MapInv, Running, FenceFits, Floor, Idle
<1>9. ReclaimInv'
  BY <1>2 DEF ReclaimInv
<1> QED BY <1>6, <1>7, <1>8, <1>9 DEF LogInv

\* The new name is above every file.
LEMMA BeginCreateLog ==
  ASSUME TypeOK, FrontierInv, LogInv, BeginCreate PROVE LogInv'
<1>1. /\ Running /\ job.kind = "prepared" /\ stub' = stub \cup {highest + 1}
      /\ job' = [job EXCEPT !.kind = "creating"]
      /\ UNCHANGED <<disk, highest, manifest, guest, mode, failed, frontiers,
                     memory, plans, promised, crashes>>
  BY DEF BeginCreate, Healthy, Running
<1>2. job'.kind = "creating" /\ job'.fresh = job.fresh
  BY <1>1 DEF TypeOK, JobType
<1>3. NamesInv'
  <2>1. \A s \in DOMAIN disk : s < highest + 1
    BY Basics DEF LogInv, NamesInv
  <2> QED BY <1>1, <1>2, <2>1 DEF LogInv, NamesInv, Running
<1>4. CurrentInv' /\ CarrierInv'
  BY <1>1, <1>2 DEF LogInv, CurrentInv, CarrierInv, Rotating, Running
<1>5. DiskInv' /\ RepairInv' /\ StatusInv' /\ AnchorInv' /\ MapInv' /\ ReclaimInv'
  BY <1>1, <1>2 DEF LogInv, DiskInv, RepairInv, StatusInv, AnchorInv,
    MapInv, ReclaimInv, Running, FenceFits, Floor
<1> QED BY <1>3, <1>4, <1>5 DEF LogInv

\* The created file is the newest, and ends at P.
LEMMA InstallRotationLog ==
  ASSUME TypeOK, FrontierInv, LogInv, InstallRotation PROVE LogInv'
<1>1. /\ Running /\ job.kind = "created" /\ job' = Idle
      /\ current' = highest /\ segs' = segs \cup {highest}
      /\ mode' = (IF mode = "fresh" THEN "fence" ELSE mode)
      /\ UNCHANGED <<media, guest, failed, published, issued, durable, cohort,
                     index, base, cursor, plans, promised, crashes>>
  BY DEF InstallRotation, Healthy, Running
<1>2. Running' /\ mode' # "down" /\ mode # "down" /\ mode' # "repair"
  BY <1>1 DEF Running
<1>3. /\ highest \in DOMAIN disk /\ disk[highest] \in SegmentType
      /\ disk[highest].batches = <<>> /\ disk[highest].preceding = published
      /\ issued = published /\ cohort = NoCohort
  BY <1>1, Basics DEF LogInv, CurrentInv, Rotating, Top
<1>4. Len(disk[highest].batches) = 0 /\ DOMAIN disk[highest].batches = {}
  BY <1>3
<1>5. Pre(disk[highest], 0) = published /\ End(disk[highest]) = published
  BY <1>3, <1>4 DEF Pre, End
<1>6. PublishedAt(disk[highest], published)
  BY <1>4, <1>5, Numbers DEF PublishedAt, Through
<1>7. StatusInv'
  BY <1>1, <1>3, <1>4, <1>5, <1>6 DEF StatusInv, Fences, Settled
<1>8. CurrentInv'
  BY <1>1, <1>2, Basics DEF LogInv, CurrentInv, NamesInv, Rotating, Idle, Top
<1>9. DiskInv' /\ RepairInv' /\ AnchorInv' /\ MapInv' /\ ReclaimInv'
  BY <1>1, <1>2 DEF LogInv, DiskInv, RepairInv, AnchorInv, MapInv, ReclaimInv,
    Floor, Idle
<1>10. NamesInv' /\ CarrierInv'
  BY <1>1, <1>2 DEF LogInv, NamesInv, CarrierInv, Running, Idle, Rotating
<1> QED BY <1>7, <1>8, <1>9, <1>10 DEF LogInv

\* A carrier is attached to an image without unpublished mutations.
LEMMA AttachLog ==
  ASSUME TypeOK, FrontierInv, LogInv, Attach PROVE LogInv'
<1>1. /\ mode = "serving" /\ attach = 0 /\ ~Rotating
      /\ attach' = disk[current].epoch /\ acked' = published
      /\ UNCHANGED <<media, history, live, mode, failed, frontiers, memory, job,
                     plans, promised, crashes>>
  BY DEF Attach
<1>2. Running /\ published = Len(history)
  BY <1>1 DEF Running, LogInv, CarrierInv
<1>3. \A s \in DOMAIN disk : Top(disk, s) => disk[s].epoch = attach'
  BY <1>1, Basics DEF Rotating
<1>4. \A n \in (acked' + 1)..Len(history) : n \in live
  BY <1>1, <1>2, Basics
<1>5. acked' <= published
  BY <1>1, Numbers
<1>6. CarrierInv'
  BY <1>1, <1>2, <1>3, <1>4, <1>5 DEF LogInv, CarrierInv, Running, Rotating
<1>7. /\ DiskInv' /\ NamesInv' /\ CurrentInv' /\ RepairInv' /\ StatusInv'
      /\ AnchorInv' /\ MapInv' /\ ReclaimInv'
  BY <1>1 DEF LogInv, DiskInv, NamesInv, CurrentInv, RepairInv, StatusInv,
    AnchorInv, MapInv, ReclaimInv, Running, FenceFits, Floor, Rotating
<1> QED BY <1>6, <1>7 DEF LogInv

\* Replay is complete.
LEMMA FinishRecoveryLog ==
  ASSUME TypeOK, FrontierInv, LogInv, FinishRecovery PROVE LogInv'
<1>1. /\ mode \in {"live", "fence"} /\ mode' = "serving" /\ job = Idle
      /\ UNCHANGED <<media, guest, failed, frontiers, memory, job, plans, promised,
                     crashes>>
  BY DEF FinishRecovery
<1>2. Running /\ Running' /\ mode # "down" /\ mode' # "down"
  BY <1>1 DEF Running
<1>3. StatusInv'
  BY <1>1, <1>2 DEF LogInv, StatusInv, Settled, FenceFits
<1>4. CarrierInv' /\ NamesInv' /\ CurrentInv'
  BY <1>1, <1>2 DEF LogInv, CarrierInv, NamesInv, CurrentInv, Rotating
<1>5. DiskInv' /\ RepairInv' /\ AnchorInv' /\ MapInv' /\ ReclaimInv'
  BY <1>1, <1>2 DEF LogInv, DiskInv, RepairInv, AnchorInv, MapInv, ReclaimInv,
    Floor
<1> QED BY <1>3, <1>4, <1>5 DEF LogInv

\* The batch published is the next one, and all before it are written.
LEMMA PublishAppendLog ==
  ASSUME TypeOK, FrontierInv, LogInv, NEW i \in 1..Capacity, PublishAppend(i)
  PROVE  LogInv'
<1> DEFINE f == disk[current]
           bt == f.batches[i]
<1>1. /\ Running /\ i \in DOMAIN f.batches
      /\ bt.st = "written" /\ bt.data # <<>> /\ First(bt) = published + 1
      /\ published' = bt.last /\ acked' = (IF attach # 0 THEN bt.last ELSE acked)
      /\ UNCHANGED <<media, history, live, attach, mode, failed, issued, durable,
                     fenced, cohort, base, segs, current, cursor, job, plans,
                     promised, crashes>>
  BY DEF PublishAppend, Healthy, Running, IsFence
<1>2. /\ f \in SegmentType /\ FileOK(f, history) /\ Len(history) \in Nat
      /\ i \in 1..Len(f.batches) /\ Len(f.batches) \in Nat
      /\ DOMAIN f.batches = 1..Len(f.batches)
  BY <1>1, Basics, FileTyped DEF Running
<1>3. /\ i \in 0..Len(f.batches) /\ i - 1 \in 0..Len(f.batches) /\ i # 0
  BY <1>2
<1>4. /\ bt.last = Pre(f, i) /\ Pre(f, i) \in Nat /\ Pre(f, i - 1) \in Nat
      /\ Len(bt.data) \in Nat /\ Len(bt.data) # 0
      /\ Pre(f, i) = Pre(f, i - 1) + Len(bt.data)
  <2>1. bt.data \in Seq(Mutation)
    BY <1>2, FileTyped
  <2>2. Len(bt.data) # 0
    BY <1>1, <2>1, EmptySeq
  <2> QED BY <1>2, <1>3, <2>2, FileTyped DEF FileOK, Pre
<1>5. published = Pre(f, i - 1) /\ published < bt.last
  <2> DEFINE x == bt.last
             y == Len(bt.data)
             z == Pre(f, i - 1)
  <2>1. /\ x = z + y /\ x \in Nat /\ y \in Nat /\ z \in Nat /\ y # 0
        /\ x - y + 1 = published + 1 /\ published \in Nat
    BY <1>1, <1>4, Numbers DEF First
  <2> HIDE DEF x, y, z
  <2>2. published = z /\ published < x
    BY <2>1
  <2> QED BY <2>2 DEF x, z
<1>6. bt.last <= issued /\ published < issued
  <2>1. bt.last <= issued
    BY <1>1 DEF FrontierInv, FilesInv, Below, Running
  <2> QED BY <1>4, <1>5, <2>1, Numbers
<1>7. ~Rotating /\ attach # 0
  BY <1>1, <1>6, Basics, Numbers DEF LogInv, CurrentInv, CarrierInv
<1>8. PublishedAt(f, bt.last)
  <2>1. PICK g \in 0..Len(f.batches) :
          Through(f, g, published, Intact) /\ Pre(f, g) = published
    BY <1>1 DEF LogInv, StatusInv, PublishedAt
  <2>2. ASSUME NEW j \in 1..i PROVE f.batches[j].st \in Intact
    <3>1. CASE j = i
      BY <1>1, <3>1 DEF Intact
    <3>2. CASE j <= g
      <4>1. j \in 1..g
        BY <1>2, <2>1, <3>2
      <4> QED BY <2>1, <4>1 DEF Through
    <3>3. CASE j # i /\ g < j
      <4>1. /\ j \in 1..Len(f.batches) /\ j - 1 \in 0..Len(f.batches)
            /\ j \in 0..Len(f.batches) /\ g <= j - 1 /\ j <= i - 1
            /\ j # Len(f.batches)
        BY <1>2, <1>3, <3>3
      <4>2. Pre(f, g) <= Pre(f, j - 1) /\ Pre(f, j) <= Pre(f, i - 1)
        BY <1>2, <1>3, <4>1 DEF FileOK
      <4>3. /\ Pre(f, j - 1) \in Nat /\ Pre(f, j) \in Nat
            /\ Pre(f, j) = Pre(f, j - 1) + Len(f.batches[j].data)
            /\ f.batches[j].data \in Seq(Mutation) /\ Len(f.batches[j].data) \in Nat
        BY <1>2, <4>1, FileTyped DEF FileOK
      <4>4. Len(f.batches[j].data) = 0
        <5> DEFINE x == Pre(f, j - 1)
                   y == Pre(f, j)
                   z == Len(f.batches[j].data)
        <5>1. /\ x \in Nat /\ y \in Nat /\ z \in Nat /\ published \in Nat
              /\ published <= x /\ y <= published /\ y = x + z
          BY <1>5, <2>1, <4>2, <4>3, Numbers
        <5> HIDE DEF x, y, z
        <5>2. z = 0
          BY <5>1
        <5> QED BY <5>2 DEF z
      <4>5. IsFence(f.batches[j])
        BY <4>3, <4>4, EmptySeq DEF IsFence
      <4>6. f.batches[j].st = "synced"
        BY <1>1, <1>2, <4>1, <4>5 DEF LogInv, StatusInv, Fences
      <4> QED BY <4>6 DEF Intact
    <3> QED BY <1>2, <2>1, <3>1, <3>2, <3>3
  <2>3. bt.last <= Pre(f, i)
    BY <1>4
  <2> QED BY <1>3, <1>4, <2>2, <2>3 DEF PublishedAt, Through
<1> HIDE DEF f
<1>9. StatusInv'
  <2>1. UNCHANGED <<disk, current, mode, issued, cohort, durable>>
    BY <1>1
  <2> QED BY <1>1, <1>8, <2>1 DEF LogInv, StatusInv, Running, FenceFits, f
<1>10. CurrentInv' /\ RepairInv'
  BY <1>1, <1>7 DEF LogInv, CurrentInv, RepairInv, Rotating, Running
<1>11. AnchorInv'
  <2>1. promised <= published'
    BY <1>1, <1>4, <1>5, Numbers DEF LogInv, AnchorInv, TypeOK, LogOK, Running
  <2> QED BY <1>1, <2>1 DEF LogInv, AnchorInv
<1>12. CarrierInv'
  <2>1. acked' = published' /\ acked \in Nat /\ acked <= published
    BY <1>1, <1>7 DEF LogInv, CarrierInv, TypeOK, GuestOK, Running
  <2>2. published' \in Nat /\ acked <= published'
    BY <1>1, <1>4, <1>5, <2>1, Numbers
  <2>3. \A n \in (acked' + 1)..Len(history) : n \in (acked + 1)..Len(history)
    <3> SUFFICES ASSUME NEW a \in Nat, NEW c \in Nat, NEW l \in Nat, a <= c,
                        NEW n \in (c + 1)..l
                 PROVE  n \in (a + 1)..l
      BY <1>2, <2>1, <2>2
    <3> QED OBVIOUS
  <2> QED
    BY <1>1, <1>7, <2>1, <2>2, <2>3 DEF LogInv, CarrierInv, Running, Rotating
<1>13. DiskInv' /\ NamesInv' /\ MapInv' /\ ReclaimInv'
  BY <1>1 DEF LogInv, DiskInv, NamesInv, MapInv, ReclaimInv, Running, Floor
<1> QED BY <1>9, <1>10, <1>11, <1>12, <1>13 DEF LogInv

\* A completed sync covers the whole current segment, which is the newest.
LEMMA CompleteSyncLog ==
  ASSUME TypeOK, FrontierInv, LogInv, CompleteSync PROVE LogInv'
<1>1. /\ Running /\ cohort # NoCohort /\ issued = published /\ published = cohort
      /\ AllSynced(disk[current]) /\ durable' = cohort /\ cohort' = NoCohort
      /\ promised' = (IF promised < cohort THEN cohort ELSE promised)
      /\ UNCHANGED <<media, guest, mode, failed, published, issued, memory, job,
                     plans, crashes>>
  BY DEF CompleteSync, Healthy, Running, SyncReady, SyncSucceeded, AllSynced
<1>2. ~Rotating
  BY <1>1 DEF LogInv, CurrentInv
<1>3. Top(disk, current) /\ disk[current] \in SegmentType /\ current \in DOMAIN disk
  BY <1>1, <1>2, Basics DEF Rotating, Running
<1>4. promised' = published /\ promised <= published /\ published \in Nat
  BY <1>1, Numbers DEF LogInv, AnchorInv, TypeOK, LogOK, Running
<1>5. Reaches(disk[current], published, {"synced"})
  <2>1. published <= End(disk[current])
    BY <1>1, Numbers DEF LogInv, StatusInv
  <2> QED BY <1>1, <1>3, <2>1, ReachesEnd
<1>6. AnchorInv'
  <2>1. \A s \in DOMAIN disk : Top(disk, s) => s = current
    BY <1>3, Basics
  <2>2. manifest.d <= published /\ durable' <= published
    BY <1>1, Numbers DEF FrontierInv, OrderInv, Running
  <2> QED BY <1>1, <1>4, <1>5, <2>1, <2>2, Numbers DEF AnchorInv
<1>7. StatusInv'
  <2>1. AllSynced(disk[current])'
    BY <1>1
  <2>2. Fences(disk[current].batches, FALSE)
        /\ \A e, room : Settled(disk[current].batches, e, room)
    BY <1>1 DEF AllSynced, Fences, Settled
  <2>3. cohort' = NoCohort /\ UNCHANGED <<disk, current, mode, issued, published>>
    BY <1>1
  <2> QED BY <1>1, <2>2, <2>3 DEF LogInv, StatusInv, Running, Fences, FenceFits
<1>8. /\ DiskInv' /\ NamesInv' /\ RepairInv' /\ CarrierInv' /\ MapInv'
      /\ ReclaimInv'
  BY <1>1 DEF LogInv, DiskInv, NamesInv, RepairInv, CarrierInv, MapInv,
    ReclaimInv, Running, Floor, Rotating
<1>9. CurrentInv'
  BY <1>1, <1>2 DEF LogInv, CurrentInv, Rotating
<1> QED BY <1>6, <1>7, <1>8, <1>9 DEF LogInv

\* What the files of S store as mutation n is mutation n.
LEMMA StoredIs ==
  ASSUME TypeOK, FrontierInv, LogInv, NEW S, NEW n \in Int, Places(S, n) # {}
  PROVE  Stored(S, n) = history[n]
<1>1. PICK p \in Places(S, n) : Stored(S, n) = At(disk[p[1]].batches[p[2]], n)
  BY DEF Stored
<1>2. /\ p[1] \in DOMAIN disk /\ p[2] \in 1..Capacity
      /\ p[2] <= Len(disk[p[1]].batches) /\ Covers(disk[p[1]].batches[p[2]], n)
  BY DEF Places
<1>3. disk[p[1]] \in SegmentType /\ FileOK(disk[p[1]], history)
  BY <1>2, Basics
<1>4. p[2] \in 1..Len(disk[p[1]].batches)
  BY <1>2, <1>3, FileTyped, ConstantsAssumption
<1> QED BY <1>1, <1>2, <1>3, <1>4, CoversIs

\* The loaded view is the image at the cut.
LEMMA LoadCompactionLog ==
  ASSUME TypeOK, FrontierInv, LogInv, LoadCompaction PROVE LogInv'
<1> DEFINE S == Scanned(job.cursor)
           k == Recorded(S, base.d, Cut)
<1>1. /\ Running /\ job.kind = "selected" /\ Cut \in Cuts /\ Readable(Cut)
      /\ job' = [job EXCEPT
                   !.kind = "loaded", !.view = Apply(base, k, Cut),
                   !.cursor = [seg |-> ScanEnd(Cut), seq |-> Cut]]
      /\ UNCHANGED <<media, guest, mode, failed, frontiers, memory, plans,
                     promised, crashes>>
  BY DEF LoadCompaction, Healthy, Running
<1>2. job'.kind = "loaded" /\ job'.view = Apply(base, k, Cut)
  <2> HIDE DEF k
  <2> QED BY <1>1 DEF TypeOK, JobType
<1>3. base.d \in Nat /\ Cut \in (base.d + 1)..job.through /\ job.through \in Nat
  BY <1>1, Numbers DEF Cuts
<1>4. Cut \in Nat /\ base.d <= Cut
  <2> SUFFICES ASSUME NEW c, NEW d \in Nat, NEW t \in Nat, c \in (d + 1)..t
               PROVE  c \in Nat /\ d <= c
    BY <1>3
  <2> QED OBVIOUS
<1>5. \A n \in (base.d + 1)..Cut : k[n] = history[n]
  <2> SUFFICES ASSUME NEW n \in (base.d + 1)..Cut PROVE k[n] = history[n]
    OBVIOUS
  <2>1. k[n] = Stored(S, n)
    BY DEF Recorded
  <2>2. Places(S, n) # {}
    BY <1>1 DEF Readable
  <2>3. n \in Int
    BY <1>3, <1>4
  <2> QED BY <2>1, <2>2, <2>3, StoredIs
<1>6. base.map = Image(history, base.d)
  BY <1>1 DEF LogInv, MapInv, Running
<1>7. Apply(base, k, Cut).map = Image(history, Cut) /\ Apply(base, k, Cut).d = Cut
  <2>1. Apply(base, k, Cut).d = Cut
    BY DEF Apply
  <2> HIDE DEF k
  <2> QED BY <1>3, <1>4, <1>5, <1>6, <2>1, ImageApply
<1> HIDE DEF k
<1>8. MapInv'
  BY <1>1, <1>2, <1>7 DEF LogInv, MapInv
<1>9. /\ DiskInv' /\ NamesInv' /\ CurrentInv' /\ RepairInv' /\ StatusInv'
      /\ AnchorInv' /\ CarrierInv' /\ ReclaimInv'
  BY <1>1, <1>2 DEF LogInv, DiskInv, NamesInv, CurrentInv, RepairInv, StatusInv,
    AnchorInv, CarrierInv, ReclaimInv, Running, FenceFits, Floor, Rotating
<1> QED BY <1>8, <1>9 DEF LogInv

\* The commit on disk is the loaded view, no further than E.
LEMMA PublishManifestLog ==
  ASSUME TypeOK, FrontierInv, LogInv, PublishManifest PROVE LogInv'
<1>1. /\ job.kind = "loaded" /\ manifest' = job.view
      /\ job' = [job EXCEPT !.kind = "output"]
      /\ UNCHANGED <<disk, stub, highest, guest, mode, failed, frontiers, memory,
                     plans, promised, crashes>>
  BY DEF PublishManifest
<1>2. job'.kind = "output" /\ mode = "serving"
  BY <1>1 DEF TypeOK, JobType, FrontierInv, JobInv
<1>3. MapInv'
  BY <1>1, <1>2 DEF LogInv, MapInv
<1>4. AnchorInv'
  <2>1. job.view.d <= promised
    BY <1>1, Numbers DEF LogInv, AnchorInv, FrontierInv, JobInv, TypeOK, LogOK
  <2> QED BY <1>1, <2>1 DEF LogInv, AnchorInv
<1>5. /\ DiskInv' /\ NamesInv' /\ CurrentInv' /\ RepairInv' /\ StatusInv'
      /\ CarrierInv' /\ ReclaimInv'
  BY <1>1, <1>2 DEF LogInv, DiskInv, NamesInv, CurrentInv, RepairInv, StatusInv,
    CarrierInv, ReclaimInv, Running, FenceFits, Floor, Rotating
<1> QED BY <1>3, <1>4, <1>5 DEF LogInv

\* What a reclamation records about the mutations in flight.
LEMMA ReclamationIs ==
  ASSUME TypeOK, FrontierInv, LogInv, NEW v, job' = Reclamation(v),
         mode # "down", v.d \in Nat, v.d <= Len(history)
  PROVE  /\ job'.kind = "punch" /\ job'.view = v /\ job'.oldest <= Len(history)
         /\ \A n \in live : job'.oldest <= n /\ job'.oldest # 0
<1>1. job'.kind = "punch" /\ job'.view = v /\ job'.oldest = Least(live)
  BY DEF Reclamation, Idle
<1>2. live \subseteq 1..Len(history) /\ Len(history) \in Nat
  BY Basics DEF LogInv, CarrierInv
<1>3. CASE live = {}
  <2>1. Least(live) = 0
    BY <1>3 DEF Least
  <2> QED BY <1>1, <1>2, <1>3, <2>1
<1>4. CASE live # {}
  <2>1. live \in SUBSET Nat
    BY <1>2
  <2>2. Least(live) \in live /\ \A x \in live : Least(live) <= x
    BY <1>4, <2>1, LeastIs
  <2>3. Least(live) \in 1..Len(history)
    BY <1>2, <2>2
  <2>4. Least(live) <= Len(history) /\ Least(live) # 0
    BY <1>2, <2>3
  <2> QED BY <1>1, <2>2, <2>4
<1> QED BY <1>3, <1>4

\* The output becomes the base, and D rises.
LEMMA PublishCompactionLog ==
  ASSUME TypeOK, FrontierInv, LogInv, PublishCompaction PROVE LogInv'
<1>1. /\ Running /\ job.kind = "output" /\ base' = job.view
      /\ job' = Reclamation(job.view)
      /\ UNCHANGED <<media, guest, mode, failed, frontiers, segs, current, plans,
                     promised, crashes>>
  BY DEF PublishCompaction, Healthy, Running
<1>2. /\ job.view = manifest /\ mode = "serving" /\ base.d <= manifest.d
      /\ manifest.d \in Nat /\ base.d \in Nat /\ manifest.d <= Len(history)
  BY <1>1, Numbers, Basics DEF FrontierInv, OrderInv, JobInv, Running
<1>3. /\ job'.kind = "punch" /\ job'.view = base' /\ job'.oldest <= Len(history)
      /\ \A n \in live : job'.oldest <= n /\ job'.oldest # 0
  BY <1>1, <1>2, ReclamationIs
<1>4. DiskInv'
  <2>1. Punched(disk, manifest.d)
    <3> SUFFICES ASSUME NEW s \in DOMAIN disk, NEW i \in DOMAIN disk[s].batches,
                        disk[s].batches[i].punched
                 PROVE  disk[s].batches[i].last <= manifest.d
      BY DEF Punched
    <3>1. disk[s].batches[i].last <= base.d
      BY <1>2 DEF LogInv, DiskInv, Punched, Floor
    <3>2. disk[s].batches[i].last \in Nat
      BY Basics, FileTyped
    <3> QED BY <1>2, <3>1, <3>2
  <2>2. Cover(disk, manifest.d, live)
    <3> SUFFICES ASSUME NEW s \in DOMAIN disk, NEW n \in 1..End(disk[s]),
                        manifest.d < n \/ n \in live
                 PROVE  \E t \in DOMAIN disk : Has(disk[t], n)
      BY DEF Cover
    <3>1. base.d < n \/ n \in live
      <4>1. n \in Nat
        BY Basics, FileTyped
      <4> QED BY <1>2, <4>1
    <3> QED BY <1>2, <3>1 DEF LogInv, DiskInv, Cover, Floor
  <2> QED BY <1>1, <1>2, <2>1, <2>2 DEF LogInv, DiskInv, Floor
<1>5. MapInv'
  BY <1>1, <1>2, <1>3 DEF LogInv, MapInv
<1>6. ReclaimInv'
  BY <1>1, <1>2, <1>3 DEF ReclaimInv
<1>7. /\ NamesInv' /\ CurrentInv' /\ RepairInv' /\ StatusInv'
      /\ AnchorInv' /\ CarrierInv'
  BY <1>1, <1>2, <1>3 DEF LogInv, NamesInv, CurrentInv, RepairInv, StatusInv,
    AnchorInv, CarrierInv, Running, FenceFits, Rotating
<1> QED BY <1>4, <1>5, <1>6, <1>7 DEF LogInv

\* A retried reclamation works for the installed view.
LEMMA SelectReclamationLog ==
  ASSUME TypeOK, FrontierInv, LogInv, SelectReclamation PROVE LogInv'
<1>1. /\ mode = "serving" /\ job = Idle /\ job' = Reclamation(base)
      /\ UNCHANGED <<media, guest, mode, failed, frontiers, memory, plans,
                     promised, crashes>>
  BY DEF SelectReclamation
<1>2. base.d \in Nat /\ base.d <= Len(history)
  BY <1>1, Numbers, Basics DEF FrontierInv, OrderInv
<1>3. /\ job'.kind = "punch" /\ job'.view = base /\ job'.oldest <= Len(history)
      /\ \A n \in live : job'.oldest <= n /\ job'.oldest # 0
  BY <1>1, <1>2, ReclamationIs
<1>4. ReclaimInv'
  BY <1>1, <1>3 DEF ReclaimInv
<1>5. /\ DiskInv' /\ NamesInv' /\ CurrentInv' /\ RepairInv' /\ StatusInv'
      /\ AnchorInv' /\ CarrierInv' /\ MapInv'
  BY <1>1, <1>3 DEF LogInv, DiskInv, NamesInv, CurrentInv, RepairInv, StatusInv,
    AnchorInv, CarrierInv, MapInv, Running, FenceFits, Floor, Rotating, Idle
<1> QED BY <1>4, <1>5 DEF LogInv

-----------------------------------------------------------------------------
(* Steps that append a batch to the current segment.                       *)

\* A file uses a block for its header and one for each batch, at least.
LEMMA UsedIs ==
  ASSUME NEW bs \in Seq(BatchType)
  PROVE  Used(bs) \in Nat /\ 1 + Len(bs) <= Used(bs)
<1> DEFINE P == PayloadOf(bs, DOMAIN bs)
<1>1. Len(bs) \in Nat /\ DOMAIN bs = 1..Len(bs)
  BY LenProperties
<1>2. IsFiniteSet(1..Len(bs)) /\ IsFiniteSet(1..PackLimit)
  <2>1. 1 \in Int /\ Len(bs) \in Int /\ PackLimit \in Int
    BY <1>1, ConstantsAssumption
  <2> QED BY <2>1, FS_Interval
<1>3. IsFiniteSet((1..Len(bs)) \X (1..PackLimit))
  BY <1>2, FS_Product
<1>4. P \subseteq (1..Len(bs)) \X (1..PackLimit)
  BY <1>1 DEF PayloadOf
<1>5. Cardinality(P) \in Nat
  BY <1>3, <1>4, FS_Subset, FS_CardinalityType
<1>6. Used(bs) = 1 + Len(bs) + Cardinality(P)
  BY DEF Used
<1> HIDE DEF P
<1> QED BY <1>1, <1>5, <1>6

\* States do not matter for the space a file uses.
LEMMA UsedSame ==
  ASSUME NEW f \in SegmentType, NEW g \in SegmentType, Same(f, g)
  PROVE  Used(g.batches) = Used(f.batches)
<1>1. DOMAIN g.batches = DOMAIN f.batches
  BY SameFile
<1>2. PayloadOf(g.batches, DOMAIN g.batches) = PayloadOf(f.batches, DOMAIN f.batches)
  BY <1>1 DEF PayloadOf, Same
<1> QED BY <1>2 DEF Used, Same

\* The current segment gets a batch that continues it.
LEMMA GrowLog ==
  ASSUME TypeOK, TypeOK', FrontierInv, LogInv, Running, ~Rotating,
         NEW bt \in BatchType, bt.st = "issued", bt.punched = FALSE,
         bt.last = issued + Len(bt.data), bt.last <= Len(history),
         \A k \in DOMAIN bt.data : bt.data[k] = history[issued + k],
         Len(disk[current].batches) + 1 <= Capacity,
         disk' = [disk EXCEPT ![current].batches = Append(@, bt)],
         UNCHANGED <<stub, highest, manifest, guest, mode, base, segs, current,
                     published, durable, job, promised>>,
         attach = 0 => issued' = issued
  PROVE  /\ DiskInv' /\ NamesInv' /\ CurrentInv' /\ RepairInv' /\ AnchorInv'
         /\ CarrierInv' /\ MapInv' /\ ReclaimInv'
         /\ disk'[current].batches = Append(disk[current].batches, bt)
         /\ End(disk'[current]) = bt.last
         /\ \A i \in DOMAIN disk'[current].batches :
              disk'[current].batches[i].st # "bad"
         /\ PublishedAt(disk'[current], published)
<1> DEFINE f == disk[current]
           g == disk'[current]
           l == Len(f.batches)
<1>1. /\ current \in DOMAIN disk /\ Top(disk, current) /\ f \in SegmentType
      /\ FileOK(f, history) /\ Len(history) \in Nat /\ End(f) = issued
      /\ DOMAIN disk' = DOMAIN disk /\ g \in SegmentType
  <2>1. current \in DOMAIN disk /\ Top(disk, current) /\ f \in SegmentType
        /\ FileOK(f, history) /\ Len(history) \in Nat
    BY Basics DEF Running, Rotating
  <2>2. DOMAIN disk' = DOMAIN disk
    OBVIOUS
  <2>3. g \in SegmentType
    BY <2>1, <2>2 DEF TypeOK, DiskOK
  <2>4. End(f) = issued
    BY DEF LogInv, StatusInv
  <2> QED BY <2>1, <2>2, <2>3, <2>4
<1>2. /\ g.batches = Append(f.batches, bt) /\ g.preceding = f.preceding
      /\ g.epoch = f.epoch
      /\ \A s \in DOMAIN disk \ {current} : disk'[s] = disk[s]
  BY <1>1 DEF SegmentType
<1> HIDE DEF f, g
<1>3. /\ Len(g.batches) = l + 1 /\ g.batches[l + 1] = bt
      /\ \A i \in 1..l : g.batches[i] = f.batches[i]
      /\ \A k \in 0..l : Pre(g, k) = Pre(f, k)
      /\ End(g) = bt.last /\ End(f) <= End(g) /\ FileOK(g, history)
      /\ \A n \in Int : Has(f, n) \/ (End(f) < n /\ n <= bt.last) => Has(g, n)
      /\ \A k, S : Reaches(f, k, S) => Reaches(g, k, S)
  BY <1>1, <1>2, AppendFile DEF f
<1>4. l \in Nat /\ DOMAIN g.batches = 1..(l + 1) /\ DOMAIN f.batches = 1..l
  BY <1>1, <1>3, FileTyped
<1>5. DiskInv'
  <2>1. Files(disk', history)
    BY <1>1, <1>2, <1>3, Basics DEF Files, g
  <2>2. Older(disk')
    <3> SUFFICES ASSUME NEW s \in DOMAIN disk, NEW t \in DOMAIN disk, s < t
                 PROVE  End(disk'[s]) <= disk'[t].preceding /\ AllSynced(disk'[s])
      BY <1>1 DEF Older
    <3>1. s # current
      BY <1>1, Basics DEF Top
    <3>2. disk'[s] = disk[s] /\ disk'[t].preceding = disk[t].preceding
      BY <1>2, <3>1 DEF f, g
    <3> QED BY <3>2 DEF LogInv, DiskInv, Older
  <2>3. Punched(disk', Floor)
    <3> SUFFICES ASSUME NEW s \in DOMAIN disk, NEW i \in DOMAIN disk'[s].batches,
                        disk'[s].batches[i].punched
                 PROVE  disk'[s].batches[i].last <= Floor
      BY <1>1 DEF Punched
    <3>1. CASE s # current
      BY <1>2, <3>1 DEF LogInv, DiskInv, Punched
    <3>2. CASE s = current
      <4>1. i \in 1..(l + 1)
        BY <1>4, <3>2 DEF g
      <4>2. i # l + 1
        BY <1>3, <3>2 DEF g
      <4>3. i \in DOMAIN f.batches /\ g.batches[i] = f.batches[i]
        BY <1>3, <1>4, <4>1, <4>2
      <4> QED BY <1>1, <3>2, <4>3 DEF LogInv, DiskInv, Punched, f, g
    <3> QED BY <3>1, <3>2
  <2>4. Cover(disk', Floor, live)
    <3> SUFFICES ASSUME NEW s \in DOMAIN disk, NEW n \in 1..End(disk'[s]),
                        Floor < n \/ n \in live
                 PROVE  \E t \in DOMAIN disk : Has(disk'[t], n)
      BY <1>1 DEF Cover
    <3>1. n \in Nat /\ n # 0 /\ n <= End(disk'[s]) /\ End(disk'[s]) \in Nat
      <4>1. End(disk'[s]) \in Nat
        BY <1>1, FileTyped DEF TypeOK, DiskOK
      <4> QED BY <4>1
    <3>2. CASE s = current /\ issued < n
      <4>1. Has(g, n)
        <5>1. n <= bt.last /\ n \in Int /\ End(f) < n
          BY <1>1, <1>3, <3>1, <3>2 DEF g
        <5> QED BY <1>3, <5>1
      <4> QED BY <1>1, <4>1 DEF g
    <3>3. CASE s # current \/ ~(issued < n)
      <4>1. n \in 1..End(disk[s])
        <5>1. CASE s # current
          BY <1>2, <5>1
        <5>2. CASE s = current
          BY <1>1, <3>1, <3>3, <5>2, Numbers DEF f
        <5> QED BY <5>1, <5>2
      <4>2. PICK t \in DOMAIN disk : Has(disk[t], n)
        BY <4>1 DEF LogInv, DiskInv, Cover
      <4>3. Has(disk'[t], n)
        <5>1. n \in Int
          BY <3>1
        <5>2. CASE t # current
          BY <1>2, <4>2, <5>2
        <5>3. CASE t = current
          <6>1. Has(f, n)
            BY <4>2, <5>3 DEF f
          <6>2. Has(g, n)
            BY <1>3, <5>1, <6>1
          <6> QED BY <5>3, <6>2 DEF g
        <5> QED BY <5>2, <5>3
      <4> QED BY <4>3
    <3> QED BY <3>2, <3>3
  <2>5. Floor' = Floor /\ UNCHANGED <<history, live>>
    BY DEF Floor
  <2> QED BY <2>1, <2>2, <2>3, <2>4, <2>5 DEF DiskInv
<1>6. \A s : Top(disk', s) <=> Top(disk, s)
  BY <1>1 DEF Top
<1>7. AnchorInv'
  <2>1. ASSUME NEW s \in DOMAIN disk, Top(disk, s)
        PROVE  Reaches(disk'[s], promised, {"synced"})
    BY <1>1, <1>2, <1>3, <2>1, Basics DEF LogInv, AnchorInv, f, g
  <2> QED BY <1>1, <1>6, <2>1 DEF LogInv, AnchorInv
<1>8. CarrierInv'
  <2>1. \A s \in DOMAIN disk : disk'[s].epoch = disk[s].epoch
    BY <1>2 DEF f, g
  <2>2. Running' /\ Running /\ mode' # "down"
    BY DEF Running
  <2>3. (Rotating)' = Rotating
    BY DEF Rotating
  <2> QED BY <1>1, <1>6, <2>1, <2>2, <2>3 DEF LogInv, CarrierInv
<1>9. NamesInv' /\ RepairInv' /\ MapInv' /\ ReclaimInv'
  BY <1>1 DEF LogInv, NamesInv, RepairInv, MapInv, ReclaimInv, Running
<1>10. CurrentInv'
  BY <1>1 DEF LogInv, CurrentInv, Rotating
<1>11. \A i \in DOMAIN g.batches : g.batches[i].st # "bad"
  <2>1. \A i \in DOMAIN f.batches : f.batches[i].st # "bad"
    BY DEF LogInv, StatusInv, f
  <2> QED BY <1>3, <1>4, <2>1
<1>12. PublishedAt(g, published)
  <2>1. PICK c \in 0..l : Through(f, c, published, Intact) /\ Pre(f, c) = published
    BY DEF LogInv, StatusInv, PublishedAt, f
  <2>2. c \in 0..Len(g.batches) /\ \A i \in 1..c : i \in 1..l
    BY <1>3, <1>4
  <2>3. Pre(g, c) = Pre(f, c) /\ \A i \in 1..c : g.batches[i] = f.batches[i]
    BY <1>3, <2>2
  <2> QED BY <2>1, <2>2, <2>3 DEF PublishedAt, Through
<1> QED
  BY <1>2, <1>3, <1>5, <1>7, <1>8, <1>9, <1>10, <1>11, <1>12 DEF f, g

\* The batch holds the mutations after issued, and its fence has room.
LEMMA PrepareAppendLog ==
  ASSUME TypeOK, TypeOK', FrontierInv, LogInv, NEW n \in 1..MaxMutations,
         PrepareAppend(n)
  PROVE  LogInv'
<1> DEFINE bt == NextBatch(n)
           bs == disk[current].batches
<1>1. /\ Running /\ ~Rotating /\ cohort = NoCohort /\ cohort' = cohort
      /\ issued < n /\ n <= Len(history) /\ issued' = n /\ mode \in {"serving", "live"}
      /\ Used(Append(bs, bt)) + 1 <= Capacity
      /\ disk' = [disk EXCEPT ![current].batches = Append(@, bt)]
      /\ UNCHANGED <<stub, highest, manifest, guest, mode, base, segs, current,
                     published, durable, job, promised>>
  BY DEF PrepareAppend, Running, Fits
<1>2. n \in Nat /\ issued \in Nat /\ durable \in Nat /\ durable <= issued
  BY SMTT(30), ConstantsAssumption, Numbers, <1>1 DEF FrontierInv, OrderInv
<1>3. /\ history \in Seq(Mutation) /\ Len(history) \in Nat /\ current \in DOMAIN disk
      /\ bs \in Seq(BatchType)
  BY <1>1, Basics, FileTyped DEF Running
<1>4. /\ bt.last = n /\ bt.data = SubSeq(history, issued + 1, n)
      /\ bt.st = "issued" /\ bt.punched = FALSE
  BY DEF NextBatch, Batch
<1>5. /\ bt.data \in Seq(Mutation) /\ Len(bt.data) = n - issued
      /\ DOMAIN bt.data = 1..(n - issued)
      /\ \A k \in 1..(n - issued) : bt.data[k] = history[issued + k]
  <2>1. \A i \in (issued + 1)..n : history[i] \in Mutation
    BY <1>1, <1>2, <1>3, ElementOfSeq
  <2>2. bt.data \in Seq(Mutation)
    BY <1>1, <1>2, <1>4, <2>1, SubSeqProperties
  <2>3. Len(bt.data) = n - issued
    BY <1>1, <1>2, <1>4, SubSeqProperties
  <2>4. DOMAIN bt.data = 1..(n - issued)
    BY <2>2, <2>3, LenProperties
  <2>5. ASSUME NEW k \in 1..(n - issued) PROVE bt.data[k] = history[issued + k]
    <3>1. bt.data[k] = history[issued + 1 + k - 1]
      BY <1>1, <1>2, <1>4, SubSeqProperties
    <3>2. issued + 1 + k - 1 = issued + k
      BY <1>2
    <3> QED BY <3>1, <3>2
  <2> QED BY <2>2, <2>3, <2>4, <2>5
<1>6. bt \in BatchType
  BY <1>2, <1>4, <1>5, BatchTyped DEF NextBatch
<1> HIDE DEF bt
<1>7. /\ Append(bs, bt) \in Seq(BatchType) /\ Len(Append(bs, bt)) = Len(bs) + 1
      /\ Len(bs) \in Nat /\ DOMAIN bs = 1..Len(bs)
      /\ DOMAIN Append(bs, bt) = 1..(Len(bs) + 1)
      /\ \A i \in 1..Len(bs) : Append(bs, bt)[i] = bs[i]
      /\ Append(bs, bt)[Len(bs) + 1] = bt
  BY <1>3, <1>6, AppendProperties, LenProperties
<1>8. Len(bs) + 1 <= Capacity
  <2>1. Used(Append(bs, bt)) \in Nat /\ 1 + Len(Append(bs, bt)) <= Used(Append(bs, bt))
    BY <1>7, UsedIs
  <2> DEFINE u == Used(Append(bs, bt))
             l == Len(bs)
  <2>2. u \in Nat /\ l \in Nat /\ 1 + (l + 1) <= u /\ u + 1 <= Capacity
    BY <1>1, <1>7, <2>1
  <2> HIDE DEF u, l
  <2>3. l + 1 <= Capacity
    BY <2>2, ConstantsAssumption
  <2> QED BY <2>3 DEF l
<1>9. attach # 0
  BY <1>1, <1>2, <1>3 DEF LogInv, CarrierInv
<1>10. bt.last = issued + Len(bt.data) /\ bt.last <= Len(history)
  BY <1>1, <1>2, <1>4, <1>5
<1>11. /\ DiskInv' /\ NamesInv' /\ CurrentInv' /\ RepairInv' /\ AnchorInv'
       /\ CarrierInv' /\ MapInv' /\ ReclaimInv'
       /\ disk'[current].batches = Append(bs, bt)
       /\ End(disk'[current]) = bt.last
       /\ \A i \in DOMAIN disk'[current].batches :
            disk'[current].batches[i].st # "bad"
       /\ PublishedAt(disk'[current], published)
  BY <1>1, <1>4, <1>5, <1>6, <1>8, <1>9, <1>10, GrowLog
<1>12. StatusInv'
  <2>1. Fences(Append(bs, bt), FALSE)
    <3>1. Fences(bs, FALSE)
      BY <1>1 DEF LogInv, StatusInv, Fences
    <3>2. ~IsFence(bt)
      <4>1. Len(bt.data) # 0
        BY <1>1, <1>2, <1>5
      <4> QED BY <4>1, EmptySeq DEF IsFence
    <3> SUFFICES ASSUME NEW i \in 1..(Len(bs) + 1), IsFence(Append(bs, bt)[i])
                 PROVE  Append(bs, bt)[i].st = "synced"
      BY <1>7 DEF Fences
    <3>3. i \in 1..Len(bs)
      BY <1>7, <3>2
    <3> HIDE DEF bs
    <3> QED BY <1>7, <3>1, <3>3 DEF Fences
  <2>2. Settled(Append(bs, bt), durable, TRUE)
    <3>1. \A i \in DOMAIN bs : bs[i].st = "synced" \/ bs[i].last > durable
      BY <1>1 DEF LogInv, StatusInv, Settled
    <3>2. bt.last > durable
      BY <1>1, <1>2, <1>4
    <3> SUFFICES ASSUME NEW i \in 1..(Len(bs) + 1)
                 PROVE  Append(bs, bt)[i].st = "synced" \/ Append(bs, bt)[i].last > durable
      BY <1>7 DEF Settled
    <3>3. CASE i = Len(bs) + 1
      BY <1>7, <3>2, <3>3
    <3>4. CASE i \in 1..Len(bs)
      <4> HIDE DEF bs
      <4> QED BY <1>7, <3>1, <3>4
    <3> QED BY <1>7, <3>3, <3>4
  <2>3. (FenceFits /\ mode \in {"live", "serving"})'
    BY <1>1, <1>11 DEF FenceFits
  <2> HIDE DEF bs
  <2> QED
    BY <1>1, <1>4, <1>11, <2>1, <2>2, <2>3 DEF StatusInv, Settled, Fences
<1> QED BY <1>11, <1>12 DEF LogInv

\* The fence ends at issued and opens the cohort.
LEMMA PrepareFenceLog ==
  ASSUME TypeOK, TypeOK', FrontierInv, LogInv, PrepareFence PROVE LogInv'
<1> DEFINE bt == Batch(issued, <<>>)
           bs == disk[current].batches
<1>1. /\ Running /\ ~Rotating /\ cohort = NoCohort /\ cohort' = issued
      /\ Used(bs) + 1 <= Capacity
      /\ disk' = [disk EXCEPT ![current].batches = Append(@, bt)]
      /\ UNCHANGED <<stub, highest, manifest, guest, mode, base, segs, current,
                     published, durable, job, promised, issued>>
  BY DEF PrepareFence, Healthy, Running, FenceFits
<1>2. /\ issued \in Nat /\ issued <= Len(history) /\ Len(history) \in Nat
      /\ bs \in Seq(BatchType) /\ issued # NoCohort
  BY <1>1, Basics, FileTyped, Numbers DEF Running, NoCohort
<1>3. /\ bt.last = issued /\ bt.data = <<>> /\ bt.st = "issued"
      /\ bt.punched = FALSE /\ bt \in BatchType /\ Len(bt.data) = 0
      /\ DOMAIN bt.data = {}
  <2>1. bt \in BatchType
    BY <1>2, BatchTyped, EmptySeq
  <2>2. bt.last = issued /\ bt.data = <<>> /\ bt.st = "issued" /\ bt.punched = FALSE
    BY DEF Batch
  <2> HIDE DEF bt
  <2> QED BY <2>1, <2>2
<1> HIDE DEF bt
<1>4. /\ Append(bs, bt) \in Seq(BatchType) /\ Len(Append(bs, bt)) = Len(bs) + 1
      /\ Len(bs) \in Nat /\ DOMAIN bs = 1..Len(bs)
      /\ DOMAIN Append(bs, bt) = 1..(Len(bs) + 1)
      /\ \A i \in 1..Len(bs) : Append(bs, bt)[i] = bs[i]
      /\ Append(bs, bt)[Len(bs) + 1] = bt
  BY <1>2, <1>3, AppendProperties, LenProperties
<1>5. Len(bs) + 1 <= Capacity
  <2>1. Used(bs) \in Nat /\ 1 + Len(bs) <= Used(bs)
    BY <1>2, UsedIs
  <2> QED BY SMTT(30), <1>1, <1>4, <2>1, ConstantsAssumption
<1>6. bt.last = issued + Len(bt.data) /\ bt.last <= Len(history)
  BY <1>2, <1>3
<1>7. /\ DiskInv' /\ NamesInv' /\ CurrentInv' /\ RepairInv' /\ AnchorInv'
      /\ CarrierInv' /\ MapInv' /\ ReclaimInv'
      /\ disk'[current].batches = Append(bs, bt)
      /\ End(disk'[current]) = bt.last
      /\ \A i \in DOMAIN disk'[current].batches :
           disk'[current].batches[i].st # "bad"
      /\ PublishedAt(disk'[current], published)
  BY <1>1, <1>3, <1>5, <1>6, GrowLog
<1>8. Fences(Append(bs, bt), TRUE)
  <2>1. Fences(bs, FALSE)
    BY <1>1 DEF LogInv, StatusInv, Fences
  <2> SUFFICES ASSUME NEW i \in 1..(Len(bs) + 1), IsFence(Append(bs, bt)[i])
               PROVE  Append(bs, bt)[i].st = "synced" \/ i = Len(bs) + 1
    BY <1>4 DEF Fences
  <2>2. CASE i \in 1..Len(bs)
    <3> HIDE DEF bs
    <3> QED BY <1>4, <2>1, <2>2 DEF Fences
  <2> QED BY <1>4, <2>2
<1> HIDE DEF bs
<1>9. StatusInv'
  BY <1>1, <1>2, <1>3, <1>7, <1>8 DEF StatusInv, Fences
<1> QED BY <1>7, <1>9 DEF LogInv

-----------------------------------------------------------------------------
(* Steps that change the states of batches only.                           *)

\* A file with other batches of the same extent.
LEMMA SameBatches ==
  ASSUME NEW f \in SegmentType, NEW bs, DOMAIN bs = DOMAIN f.batches,
         bs \in Seq(BatchType),
         \A i \in DOMAIN bs : /\ bs[i].last = f.batches[i].last
                              /\ bs[i].data = f.batches[i].data
  PROVE  LET g == [f EXCEPT !.batches = bs]
         IN  Same(f, g) /\ g.batches = bs /\ g \in SegmentType
<1> DEFINE g == [f EXCEPT !.batches = bs]
<1>1. /\ g.batches = bs /\ g.epoch = f.epoch /\ g.preceding = f.preceding
      /\ g \in SegmentType
  BY DEF SegmentType
<1>2. Len(bs) = Len(f.batches)
  <2>1. /\ Len(bs) \in Nat /\ DOMAIN bs = 1..Len(bs)
        /\ Len(f.batches) \in Nat /\ DOMAIN f.batches = 1..Len(f.batches)
    BY FileTyped, LenProperties
  <2> SUFFICES ASSUME NEW a \in Nat, NEW b \in Nat, 1..a = 1..b PROVE a = b
    BY <2>1
  <2>2. \A i \in Nat \ {0} : i <= a <=> i <= b
    <3>1. \A i \in Nat \ {0} : (i \in 1..a <=> i <= a) /\ (i \in 1..b <=> i <= b)
      OBVIOUS
    <3> QED BY <3>1
  <2>3. a # 0 => a <= b
    BY <2>2
  <2>4. b # 0 => b <= a
    BY <2>2
  <2> QED BY <2>3, <2>4
<1> HIDE DEF g
<1>3. Same(f, g)
  BY <1>1, <1>2 DEF Same
<1> QED BY <1>1, <1>3 DEF g

\* What survives a change of states that keeps synced batches synced.
LEMMA RelabelDisk ==
  ASSUME TypeOK, TypeOK', FrontierInv, LogInv,
         DOMAIN disk' = DOMAIN disk,
         \A s \in DOMAIN disk : Same(disk[s], disk'[s]),
         \A s \in DOMAIN disk : \A i \in DOMAIN disk[s].batches :
           disk[s].batches[i].st = "synced" => disk'[s].batches[i].st = "synced"
  PROVE  /\ Files(disk', history) /\ Older(disk')
         /\ \A fl, lv : Cover(disk, fl, lv) => Cover(disk', fl, lv)
         /\ \A s : Top(disk', s) <=> Top(disk, s)
         /\ \A s \in DOMAIN disk :
              /\ disk[s] \in SegmentType /\ disk'[s] \in SegmentType
              /\ End(disk'[s]) = End(disk[s])
              /\ disk'[s].epoch = disk[s].epoch
              /\ disk'[s].preceding = disk[s].preceding
              /\ DOMAIN disk'[s].batches = DOMAIN disk[s].batches
              /\ AllSynced(disk[s]) => AllSynced(disk'[s])
              /\ disk[s].batches = <<>> => disk'[s].batches = <<>>
              /\ \A k : Reaches(disk[s], k, {"synced"}) => Reaches(disk'[s], k, {"synced"})
<1>1. ASSUME NEW s \in DOMAIN disk
      PROVE  /\ disk[s] \in SegmentType /\ disk'[s] \in SegmentType
             /\ FileOK(disk[s], history) /\ Same(disk[s], disk'[s])
  BY Basics DEF TypeOK, DiskOK
<1>2. ASSUME NEW s \in DOMAIN disk
      PROVE  /\ End(disk'[s]) = End(disk[s])
             /\ disk'[s].epoch = disk[s].epoch
             /\ disk'[s].preceding = disk[s].preceding
             /\ DOMAIN disk'[s].batches = DOMAIN disk[s].batches
             /\ FileOK(disk'[s], history)
             /\ \A n : Has(disk'[s], n) <=> Has(disk[s], n)
             /\ \A k : Reaches(disk[s], k, {"synced"}) => Reaches(disk'[s], k, {"synced"})
  <2>1. disk'[s].epoch = disk[s].epoch /\ disk'[s].preceding = disk[s].preceding
    BY <1>1 DEF Same
  <2>2. /\ End(disk'[s]) = End(disk[s])
        /\ DOMAIN disk'[s].batches = DOMAIN disk[s].batches
        /\ FileOK(disk'[s], history)
        /\ \A n : Has(disk'[s], n) <=> Has(disk[s], n)
    BY <1>1, SameFile
  <2>3. \A i \in DOMAIN disk[s].batches :
          disk[s].batches[i].st \in {"synced"} => disk'[s].batches[i].st \in {"synced"}
    OBVIOUS
  <2>4. \A k : Reaches(disk[s], k, {"synced"}) => Reaches(disk'[s], k, {"synced"})
    BY <1>1, <2>3, SameReaches
  <2> QED BY <2>1, <2>2, <2>4
<1>3. ASSUME NEW s \in DOMAIN disk
      PROVE  /\ AllSynced(disk[s]) => AllSynced(disk'[s])
             /\ disk[s].batches = <<>> => disk'[s].batches = <<>>
  <2>1. AllSynced(disk[s]) => AllSynced(disk'[s])
    BY <1>2 DEF AllSynced
  <2>2. ASSUME disk[s].batches = <<>> PROVE disk'[s].batches = <<>>
    <3>1. Len(disk[s].batches) = 0
      BY <2>2
    <3>2. Len(disk'[s].batches) = 0
      BY <3>1 DEF Same
    <3>3. disk'[s].batches \in Seq(BatchType)
      BY <1>1, FileTyped
    <3> QED BY <3>2, <3>3, EmptySeq
  <2> QED BY <2>1, <2>2
<1>4. Files(disk', history)
  BY <1>2 DEF Files
<1>5. Older(disk')
  BY <1>2, <1>3 DEF Older, LogInv, DiskInv
<1>6. \A fl, lv : Cover(disk, fl, lv) => Cover(disk', fl, lv)
  BY <1>2 DEF Cover
<1>7. \A s : Top(disk', s) <=> Top(disk, s)
  BY DEF Top
<1> QED BY <1>1, <1>2, <1>3, <1>4, <1>5, <1>6, <1>7

\* A step in service or repair that only improves the states of the current
\* segment.
LEMMA ImproveLog ==
  ASSUME TypeOK, TypeOK', FrontierInv, LogInv, mode # "down",
         DOMAIN disk' = DOMAIN disk,
         \A s \in DOMAIN disk : Same(disk[s], disk'[s]),
         \A s \in DOMAIN disk : \A i \in DOMAIN disk[s].batches :
           LET x == disk[s].batches[i]
               y == disk'[s].batches[i]
           IN  /\ x.st = "synced" => y.st = "synced"
               /\ x.st = "written" => y.st \in Intact
               /\ x.st = "bad" <=> y.st = "bad"
               /\ y.punched => x.punched \/ x.last <= base.d,
         \A i \in DOMAIN disk[current].batches :
           disk'[current].batches[i].st = disk[current].batches[i].st
             \/ disk'[current].batches[i].st \in Intact,
         UNCHANGED <<stub, highest, manifest, guest, mode, frontiers, base, segs,
                     current, promised>>,
         job' = job \/ {job.kind, job'.kind} \subseteq {"punch", "unlink"},
         ReclaimInv'
  PROVE  LogInv'
<1> DEFINE f == disk[current]
           g == disk'[current]
<1>1. /\ Files(disk', history) /\ Older(disk')
      /\ \A fl, lv : Cover(disk, fl, lv) => Cover(disk', fl, lv)
      /\ \A s : Top(disk', s) <=> Top(disk, s)
      /\ \A s \in DOMAIN disk :
           /\ disk[s] \in SegmentType /\ disk'[s] \in SegmentType
           /\ End(disk'[s]) = End(disk[s])
           /\ disk'[s].epoch = disk[s].epoch
           /\ disk'[s].preceding = disk[s].preceding
           /\ DOMAIN disk'[s].batches = DOMAIN disk[s].batches
           /\ AllSynced(disk[s]) => AllSynced(disk'[s])
           /\ disk[s].batches = <<>> => disk'[s].batches = <<>>
           /\ \A k : Reaches(disk[s], k, {"synced"}) => Reaches(disk'[s], k, {"synced"})
  BY RelabelDisk
<1>2. /\ current \in DOMAIN disk /\ f \in SegmentType /\ g \in SegmentType
      /\ Same(f, g) /\ FileOK(f, history) /\ DOMAIN g.batches = DOMAIN f.batches
      /\ Len(f.batches) \in Nat /\ Len(g.batches) = Len(f.batches)
      /\ DOMAIN f.batches = 1..Len(f.batches)
  BY <1>1, Basics, FileTyped DEF Same
<1>3. Floor' = Floor /\ Floor = base.d /\ Running' = Running
      /\ Rotating' = Rotating
  BY DEF Floor, Running, Rotating
<1>4. DiskInv'
  <2>1. Punched(disk', base.d)
    <3> SUFFICES ASSUME NEW s \in DOMAIN disk, NEW i \in DOMAIN disk[s].batches,
                        disk'[s].batches[i].punched
                 PROVE  disk'[s].batches[i].last <= base.d
      BY <1>1 DEF Punched
    <3>1. disk'[s].batches[i].last = disk[s].batches[i].last
      BY DEF Same
    <3> QED BY <1>3, <3>1 DEF LogInv, DiskInv, Punched
  <2> QED BY <1>1, <1>3, <2>1 DEF LogInv, DiskInv
<1>5. NamesInv' /\ MapInv' /\ AnchorInv'
  BY <1>1, <1>3 DEF LogInv, NamesInv, MapInv, AnchorInv
<1>6. CurrentInv'
  <2>1. job'.kind = "created" <=> job.kind = "created"
    OBVIOUS
  <2>2. job.kind = "created" => highest \in DOMAIN disk
    BY DEF TypeOK, CurrentOK
  <2> QED BY <1>1, <1>2, <1>3, <2>1, <2>2 DEF LogInv, CurrentInv
<1>7. RepairInv'
  <2> SUFFICES ASSUME mode = "repair", NEW c, Keeps(f, c), Pre(f, c) = published
               PROVE  Keeps(g, c) /\ Pre(g, c) = published
    BY DEF LogInv, RepairInv
  <2>1. c \in 0..Len(f.batches)
    BY DEF Keeps
  <2>2. Pre(g, c) = Pre(f, c)
    BY <1>2, <2>1, SameFile
  <2>3. \A i \in 1..c : i \in DOMAIN f.batches
    BY <1>2, <2>1
  <2>4. c < Len(f.batches) => c + 1 \in DOMAIN f.batches
    BY <1>2, <2>1
  <2>5. \A i \in DOMAIN f.batches : f.batches[i].st = "bad" <=> g.batches[i].st = "bad"
    BY <1>2
  <2> HIDE DEF f, g
  <2>6. Keeps(g, c)
    BY <1>2, <2>1, <2>3, <2>4, <2>5 DEF Keeps
  <2> QED BY <2>2, <2>6
<1>8. \A i \in DOMAIN f.batches : f.batches[i].st \in Intact => g.batches[i].st \in Intact
  BY <1>2 DEF Intact
<1>9. StatusInv'
  <2> SUFFICES ASSUME Running PROVE StatusInv'
    BY <1>3 DEF StatusInv
  <2>1. End(g) = issued
    BY <1>1, <1>2 DEF LogInv, StatusInv
  <2>2. \A i \in DOMAIN g.batches : g.batches[i].st # "bad"
    BY <1>2 DEF LogInv, StatusInv
  <2>3. Fences(g.batches, cohort # NoCohort)
    <3>1. Fences(f.batches, cohort # NoCohort)
      BY DEF LogInv, StatusInv
    <3> SUFFICES ASSUME NEW i \in DOMAIN f.batches, IsFence(g.batches[i])
                 PROVE  g.batches[i].st = "synced" \/ (cohort # NoCohort /\ i = Len(g.batches))
      BY <1>2 DEF Fences
    <3>2. IsFence(f.batches[i])
      BY <1>2 DEF IsFence, Same
    <3>3. f.batches[i].st = "synced" \/ (cohort # NoCohort /\ i = Len(f.batches))
      BY <3>1, <3>2 DEF Fences
    <3>4. f.batches[i].st = "synced" => g.batches[i].st = "synced"
      BY <1>2
    <3> QED BY <1>2, <3>3, <3>4
  <2>4. FenceFits' = FenceFits
    <3>1. Used(g.batches) = Used(f.batches)
      BY <1>2, UsedSame
    <3> QED BY <3>1 DEF FenceFits
  <2>5. ASSUME NEW e, NEW room, Settled(f.batches, e, room)
        PROVE  Settled(g.batches, e, room)
    <3>1. \A i \in DOMAIN f.batches :
            f.batches[i].st = "synced" => g.batches[i].st = "synced"
      BY <1>2
    <3>2. \A i \in DOMAIN f.batches : g.batches[i].last = f.batches[i].last
      BY <1>2 DEF Same
    <3> HIDE DEF f, g
    <3> QED BY <1>2, <2>5, <3>1, <3>2 DEF Settled
  <2>6. PublishedAt(g, published)
    <3>1. PICK c \in 0..Len(f.batches) :
            Through(f, c, published, Intact) /\ Pre(f, c) = published
      BY DEF LogInv, StatusInv, PublishedAt
    <3>2. Pre(g, c) = Pre(f, c)
      BY <1>2, SameFile
    <3>3. \A i \in 1..c : i \in DOMAIN f.batches
      BY <1>2
    <3> HIDE DEF f, g
    <3> QED BY <1>2, <1>8, <3>1, <3>2, <3>3 DEF PublishedAt, Through
  <2> HIDE DEF g
  <2>7. disk'[current'] = g /\ UNCHANGED <<mode, cohort, issued, published, durable>>
    BY DEF g
  <2>8. cohort = NoCohort => Settled(f.batches, durable, FenceFits /\ mode \in {"live", "serving"})
    BY DEF LogInv, StatusInv
  <2>9. cohort = NoCohort => Settled(g.batches, durable, FenceFits /\ mode \in {"live", "serving"})
    BY <2>5, <2>8
  <2> QED BY <2>1, <2>2, <2>3, <2>4, <2>6, <2>7, <2>9 DEF StatusInv
<1>10. CarrierInv'
  <2>1. ASSUME ~Running, attach # 0, NEW s \in DOMAIN disk, Top(disk, s)
        PROVE  Reaches(disk'[s], acked, Intact)
    <3>1. s = current
      <4>1. job.kind # "created"
        BY <2>1 DEF TypeOK, CurrentOK, Running, Idle
      <4> QED BY <2>1, <4>1, Basics
    <3>2. Reaches(f, acked, Intact)
      BY <2>1, <3>1 DEF LogInv, CarrierInv
    <3>3. Reaches(g, acked, Intact)
      BY <1>2, <1>8, <3>2, SameReaches
    <3> QED BY <3>1, <3>3
  <2>2. (Rotating /\ job.fresh)' => Rotating /\ job.fresh
    BY DEF Rotating
  <2> QED BY <1>1, <1>3, <2>1, <2>2 DEF LogInv, CarrierInv
<1> QED BY <1>4, <1>5, <1>6, <1>7, <1>9, <1>10 DEF LogInv

\* fdatasync changes states only.
LEMMA SyncedIs ==
  ASSUME NEW bs \in Seq(BatchType)
  PROVE  /\ DOMAIN Synced(bs) = DOMAIN bs /\ Synced(bs) \in Seq(BatchType)
         /\ \A i \in DOMAIN bs :
              /\ Synced(bs)[i].last = bs[i].last /\ Synced(bs)[i].data = bs[i].data
              /\ Synced(bs)[i].punched = bs[i].punched
              /\ Synced(bs)[i].st = IF bs[i].st = "bad" THEN "bad" ELSE "synced"
<1>1. \A i \in DOMAIN bs : bs[i] \in BatchType
  BY LenProperties
<1>2. \A x \in BatchType :
        /\ [x EXCEPT !.st = "synced"].last = x.last
        /\ [x EXCEPT !.st = "synced"].data = x.data
        /\ [x EXCEPT !.st = "synced"].punched = x.punched
        /\ [x EXCEPT !.st = "synced"].st = "synced"
  BY DEF BatchType
<1> QED BY <1>1, <1>2, SyncedTyped DEF Synced

\* A write completes: one batch becomes written.
LEMMA WriteCompleteLog ==
  ASSUME TypeOK, TypeOK', FrontierInv, LogInv, NEW i \in 1..Capacity,
         WriteComplete(i)
  PROVE  LogInv'
<1> DEFINE f == disk[current]
           bs == f.batches
           new == [bs EXCEPT ![i] = [@ EXCEPT !.st = "written"]]
<1>1. /\ mode # "down" /\ i \in DOMAIN bs /\ bs[i].st = "issued"
      /\ UNCHANGED <<stub, highest, manifest, guest, mode, failed, frontiers,
                     memory, job, plans, promised, crashes>>
  BY DEF WriteComplete
<1>2. /\ current \in DOMAIN disk /\ f \in SegmentType /\ bs \in Seq(BatchType)
      /\ bs[i] \in BatchType
  BY <1>1, Basics, FileTyped
<1>3. disk' = [disk EXCEPT ![current].batches = new]
  BY <1>1, <1>2 DEF WriteComplete
<1>4. /\ DOMAIN new = DOMAIN bs
      /\ \A k \in DOMAIN bs : k # i => new[k] = bs[k]
      /\ new[i].last = bs[i].last /\ new[i].data = bs[i].data
      /\ new[i].punched = bs[i].punched /\ new[i].st = "written"
  BY <1>1, <1>2 DEF BatchType
<1>5. /\ DOMAIN disk' = DOMAIN disk /\ disk'[current] = [f EXCEPT !.batches = new]
      /\ disk'[current].batches = new
      /\ \A s \in DOMAIN disk : s # current => disk'[s] = disk[s]
  <2> HIDE DEF new
  <2> QED BY <1>2, <1>3 DEF SegmentType
<1>6. new \in Seq(BatchType)
  <2> HIDE DEF new
  <2>1. disk'[current] \in SegmentType
    BY <1>2, <1>5 DEF TypeOK, DiskOK
  <2> QED BY <1>5, <2>1, FileTyped
<1>7. \A k \in DOMAIN bs : new[k].last = bs[k].last /\ new[k].data = bs[k].data
                           /\ new[k].punched = bs[k].punched
  <2> HIDE DEF new, bs
  <2> QED BY <1>4
<1> HIDE DEF new
<1>8. Same(f, disk'[current])
  BY <1>2, <1>4, <1>5, <1>6, <1>7, SameBatches
<1>9. \A s \in DOMAIN disk : Same(disk[s], disk'[s])
  <2>1. ASSUME NEW s \in DOMAIN disk, s # current PROVE Same(disk[s], disk'[s])
    BY <1>5, <2>1 DEF Same
  <2> QED BY <1>8, <2>1
<1>10. \A s \in DOMAIN disk : \A k \in DOMAIN disk[s].batches :
         LET x == disk[s].batches[k]
             y == disk'[s].batches[k]
         IN  /\ y.st = x.st \/ (x.st = "issued" /\ y.st = "written")
             /\ y.punched = x.punched
  <2>1. \A k \in DOMAIN bs : /\ new[k].st = bs[k].st \/ (bs[k].st = "issued" /\ new[k].st = "written")
                             /\ new[k].punched = bs[k].punched
    <3> HIDE DEF bs
    <3> QED BY <1>1, <1>4
  <2> QED BY ZenonT(60), <1>5, <2>1
<1>11. \A s \in DOMAIN disk : \A k \in DOMAIN disk[s].batches :
         LET x == disk[s].batches[k]
             y == disk'[s].batches[k]
         IN  /\ x.st = "synced" => y.st = "synced"
             /\ x.st = "written" => y.st \in Intact
             /\ x.st = "bad" <=> y.st = "bad"
             /\ y.punched => x.punched \/ x.last <= base.d
             /\ y.st = x.st \/ y.st \in Intact
  BY <1>10 DEF Intact
<1>12. ReclaimInv'
  BY <1>1 DEF LogInv, ReclaimInv
<1> QED BY ZenonT(60), <1>1, <1>2, <1>5, <1>9, <1>11, <1>12, ImproveLog

\* The current segment is synced.
LEMMA SyncDataLog ==
  ASSUME TypeOK, TypeOK', FrontierInv, LogInv, SyncData PROVE LogInv'
<1> DEFINE f == disk[current]
           bs == f.batches
           new == Synced(bs)
<1>1. /\ Running /\ mode # "down" /\ disk' = [disk EXCEPT ![current].batches = Synced(@)]
      /\ UNCHANGED <<stub, highest, manifest, guest, mode, failed, frontiers,
                     memory, job, plans, promised, crashes>>
  BY DEF SyncData, ReadyToSync, Healthy, Running
<1>2. /\ current \in DOMAIN disk /\ f \in SegmentType /\ bs \in Seq(BatchType)
  BY <1>1, Basics, FileTyped
<1>3. disk' = [disk EXCEPT ![current].batches = new]
  BY <1>1, <1>2
<1>4. /\ DOMAIN new = DOMAIN bs /\ new \in Seq(BatchType)
      /\ \A i \in DOMAIN bs :
           /\ new[i].last = bs[i].last /\ new[i].data = bs[i].data
           /\ new[i].punched = bs[i].punched
           /\ new[i].st = IF bs[i].st = "bad" THEN "bad" ELSE "synced"
  BY <1>2, SyncedIs
<1> HIDE DEF new
<1>5. /\ DOMAIN disk' = DOMAIN disk /\ disk'[current] = [f EXCEPT !.batches = new]
      /\ disk'[current].batches = new
      /\ \A s \in DOMAIN disk : s # current => disk'[s] = disk[s]
  BY <1>2, <1>3 DEF SegmentType
<1>6. Same(f, disk'[current])
  BY <1>2, <1>4, <1>5, SameBatches
<1>7. \A s \in DOMAIN disk : Same(disk[s], disk'[s])
  <2>1. ASSUME NEW s \in DOMAIN disk, s # current PROVE Same(disk[s], disk'[s])
    BY <1>5, <2>1 DEF Same
  <2> QED BY <1>6, <2>1
<1>8. \A s \in DOMAIN disk : \A k \in DOMAIN disk[s].batches :
        LET x == disk[s].batches[k]
            y == disk'[s].batches[k]
        IN  /\ y.st = x.st \/ (x.st # "bad" /\ y.st = "synced")
            /\ y.punched = x.punched
  <2>1. \A k \in DOMAIN bs :
          /\ new[k].st = bs[k].st \/ (bs[k].st # "bad" /\ new[k].st = "synced")
          /\ new[k].punched = bs[k].punched
    <3> HIDE DEF bs
    <3> QED BY <1>4
  <2> QED BY <1>5, <2>1
<1>9. \A s \in DOMAIN disk : \A k \in DOMAIN disk[s].batches :
        LET x == disk[s].batches[k]
            y == disk'[s].batches[k]
        IN  /\ x.st = "synced" => y.st = "synced"
            /\ x.st = "written" => y.st \in Intact
            /\ x.st = "bad" <=> y.st = "bad"
            /\ y.punched => x.punched \/ x.last <= base.d
            /\ y.st = x.st \/ y.st \in Intact
  BY <1>8 DEF Intact
<1>10. ReclaimInv'
  BY <1>1 DEF LogInv, ReclaimInv
<1> QED BY ZenonT(60), <1>1, <1>2, <1>5, <1>7, <1>9, <1>10, ImproveLog

\* Only payloads the base view holds are punched.
LEMMA PunchSegmentLog ==
  ASSUME TypeOK, TypeOK', FrontierInv, LogInv, NEW s, PunchSegment(s)
  PROVE  LogInv'
<1> DEFINE bs == disk[s].batches
           new == [i \in DOMAIN bs |->
                     IF /\ HasPayload(bs[i]) /\ bs[i].last <= job.view.d
                        /\ ~Pinned(s, i)
                     THEN [bs[i] EXCEPT !.punched = TRUE] ELSE bs[i]]
<1>1. /\ job.kind = "punch" /\ job' = [job EXCEPT !.kind = "unlink"]
      /\ UNCHANGED <<stub, highest, manifest, guest, mode, failed, frontiers,
                     memory, plans, promised, crashes>>
  BY DEF PunchSegment
<1>2. /\ job'.kind = "unlink" /\ job'.view = job.view /\ job'.oldest = job.oldest
      /\ mode # "down" /\ job.view = base
  BY <1>1 DEF TypeOK, JobType, CurrentOK, Idle, LogInv, ReclaimInv
<1>3. disk' = [disk EXCEPT ![s].batches = new]
  BY DEF PunchSegment
<1>4. /\ DOMAIN disk' = DOMAIN disk
      /\ \A t \in DOMAIN disk : t # s => disk'[t] = disk[t]
  <2> HIDE DEF new
  <2> QED BY <1>3
<1>5. ASSUME s \in DOMAIN disk
      PROVE  /\ Same(disk[s], disk'[s]) /\ disk'[s].batches = new
             /\ \A k \in DOMAIN bs :
                  /\ new[k].st = bs[k].st
                  /\ new[k].punched => bs[k].punched \/ bs[k].last <= base.d
  <2>1. disk[s] \in SegmentType /\ bs \in Seq(BatchType)
        /\ \A k \in DOMAIN bs : bs[k] \in BatchType
    BY <1>5, Basics, FileTyped
  <2>2. \A x \in BatchType :
          /\ [x EXCEPT !.punched = TRUE].last = x.last
          /\ [x EXCEPT !.punched = TRUE].data = x.data
          /\ [x EXCEPT !.punched = TRUE].st = x.st
    BY DEF BatchType
  <2>3. /\ DOMAIN new = DOMAIN bs
        /\ \A k \in DOMAIN bs :
             /\ new[k].last = bs[k].last /\ new[k].data = bs[k].data
             /\ new[k].st = bs[k].st
             /\ new[k] = bs[k] \/ bs[k].last <= job.view.d
    BY <2>1, <2>2
  <2> HIDE DEF new
  <2>4. disk'[s] = [disk[s] EXCEPT !.batches = new] /\ disk'[s].batches = new
    BY <1>3, <1>5, <2>1 DEF SegmentType
  <2>5. new \in Seq(BatchType)
    BY <1>4, <1>5, <2>4, FileTyped DEF TypeOK, DiskOK
  <2>6. Same(disk[s], disk'[s])
    BY <2>1, <2>3, <2>4, <2>5, SameBatches
  <2> QED BY <1>2, <2>3, <2>4, <2>6
<1> HIDE DEF new
<1>6. \A t \in DOMAIN disk : Same(disk[t], disk'[t])
  <2>1. ASSUME NEW t \in DOMAIN disk, t # s PROVE Same(disk[t], disk'[t])
    BY <1>4, <2>1 DEF Same
  <2> QED BY <1>5, <2>1
<1>7. \A t \in DOMAIN disk : \A k \in DOMAIN disk[t].batches :
        LET x == disk[t].batches[k]
            y == disk'[t].batches[k]
        IN  /\ y.st = x.st
            /\ y.punched => x.punched \/ x.last <= base.d
  BY <1>4, <1>5
<1>8. \A t \in DOMAIN disk : \A k \in DOMAIN disk[t].batches :
        LET x == disk[t].batches[k]
            y == disk'[t].batches[k]
        IN  /\ x.st = "synced" => y.st = "synced"
            /\ x.st = "written" => y.st \in Intact
            /\ x.st = "bad" <=> y.st = "bad"
            /\ y.punched => x.punched \/ x.last <= base.d
            /\ y.st = x.st \/ y.st \in Intact
  BY <1>7 DEF Intact
<1>9. ReclaimInv'
  BY <1>1, <1>2 DEF LogInv, ReclaimInv
<1>10. {job.kind, job'.kind} \subseteq {"punch", "unlink"} /\ current \in DOMAIN disk
  BY <1>1, <1>2, Basics
<1> QED BY <1>1, <1>2, <1>4, <1>6, <1>8, <1>9, <1>10, ImproveLog


-----------------------------------------------------------------------------
(* Recovery.                                                               *)

\* What truncation keeps of a history.
LEMMA TruncateIs ==
  ASSUME NEW h \in Seq(Mutation), NEW k \in Nat, k <= Len(h)
  PROVE  /\ Truncate(h, k) \in Seq(Mutation) /\ Len(Truncate(h, k)) = k
         /\ \A n \in 1..k : Truncate(h, k)[n] = h[n]
<1>1. Len(h) \in Nat
  BY LenProperties
<1>2. CASE k < Len(h)
  <2>1. \A n \in 1..k : h[n] \in Mutation
    BY <1>1, <1>2, ElementOfSeq
  <2>2. /\ SubSeq(h, 1, k) \in Seq(Mutation) /\ Len(SubSeq(h, 1, k)) = k
        /\ \A n \in 1..k : SubSeq(h, 1, k)[n] = h[n]
    BY <1>1, <1>2, <2>1, SubSeqProperties
  <2> QED BY <1>2, <2>2 DEF Truncate
<1>3. CASE ~(k < Len(h))
  BY <1>1, <1>3 DEF Truncate
<1> QED BY <1>2, <1>3

\* Nothing is left to repair: the newest file ends at P and all are synced.
LEMMA StartRecoveredLog ==
  ASSUME TypeOK, TypeOK', FrontierInv, LogInv, StartRecovered PROVE LogInv'
<1> DEFINE f == disk[current]
           g == disk'[current]
<1>1. /\ mode = "repair" /\ Doomed = {} /\ job = Idle
      /\ disk' = [s \in DOMAIN disk |-> [disk[s] EXCEPT !.batches = Synced(@)]]
      /\ mode' = (IF attach = 0 THEN "fresh" ELSE "live")
      /\ history' = (IF attach = 0 THEN Truncate(history, published) ELSE history)
      /\ UNCHANGED <<stub, highest, manifest, live, acked, attach, failed,
                     frontiers, memory, job, plans, promised, crashes>>
  BY DEF StartRecovered, TypeOK, CurrentOK
<1>2. /\ stub = {} /\ current \in DOMAIN disk /\ Top(disk, current)
      /\ ~Rejects(current) /\ f \in SegmentType /\ FileOK(f, history)
      /\ Len(f.batches) \in Nat /\ DOMAIN f.batches = 1..Len(f.batches)
      /\ published <= Len(history) /\ published = issued /\ Len(history) \in Nat
      /\ history \in Seq(Mutation) /\ published \in Nat
  <2>1. stub = {} /\ mode # "down" /\ job.kind # "created"
    BY <1>1 DEF Doomed, Idle
  <2>2. current \in DOMAIN disk /\ f \in SegmentType
    BY <2>1, Basics
  <2>3. ~Rejects(current)
    BY <1>1, <2>2 DEF Doomed
  <2> QED BY <1>1, <2>1, <2>2, <2>3, Basics, FileTyped, Numbers DEF LogInv, RepairInv
<1>3. \A i \in DOMAIN f.batches : f.batches[i].st # "bad"
  BY <1>2 DEF Rejects, Accepts
<1>4. End(f) = published
  <2>1. PICK c : Keeps(f, c) /\ Pre(f, c) = published
    BY <1>1 DEF LogInv, RepairInv
  <2>2. c = Len(f.batches)
    <3> SUFFICES ASSUME c # Len(f.batches) PROVE FALSE
      OBVIOUS
    <3>1. c \in 0..Len(f.batches) /\ c + 1 \in DOMAIN f.batches /\ c < Len(f.batches)
      BY <1>2, <2>1 DEF Keeps
    <3> QED BY <1>3, <2>1, <3>1 DEF Keeps
  <2> QED BY <2>1, <2>2 DEF End
<1>5. ASSUME NEW s \in DOMAIN disk
      PROVE  /\ Same(disk[s], disk'[s])
             /\ \A i \in DOMAIN disk[s].batches :
                  LET x == disk[s].batches[i]
                      y == disk'[s].batches[i]
                  IN  /\ y.punched = x.punched /\ y.last = x.last
                      /\ y.st = IF x.st = "bad" THEN "bad" ELSE "synced"
  <2>1. disk[s] \in SegmentType /\ disk[s].batches \in Seq(BatchType)
    BY Basics, FileTyped
  <2>2. PICK new : new = Synced(disk[s].batches)
    OBVIOUS
  <2>3. disk'[s] = [disk[s] EXCEPT !.batches = new]
    BY <1>1, <2>2
  <2>4. /\ DOMAIN new = DOMAIN disk[s].batches /\ new \in Seq(BatchType)
        /\ \A i \in DOMAIN disk[s].batches :
             /\ new[i].last = disk[s].batches[i].last
             /\ new[i].data = disk[s].batches[i].data
             /\ new[i].punched = disk[s].batches[i].punched
             /\ new[i].st = IF disk[s].batches[i].st = "bad" THEN "bad" ELSE "synced"
    BY <2>1, <2>2, SyncedIs
  <2>5. Same(disk[s], disk'[s]) /\ disk'[s].batches = new
    BY <2>1, <2>3, <2>4, SameBatches
  <2> QED BY <2>4, <2>5
<1>6. /\ Files(disk', history) /\ Older(disk') /\ DOMAIN disk' = DOMAIN disk
      /\ \A fl, lv : Cover(disk, fl, lv) => Cover(disk', fl, lv)
      /\ \A s : Top(disk', s) <=> Top(disk, s)
      /\ \A s \in DOMAIN disk :
           /\ disk[s] \in SegmentType /\ disk'[s] \in SegmentType
           /\ End(disk'[s]) = End(disk[s])
           /\ disk'[s].epoch = disk[s].epoch
           /\ disk'[s].preceding = disk[s].preceding
           /\ DOMAIN disk'[s].batches = DOMAIN disk[s].batches
           /\ \A k : Reaches(disk[s], k, {"synced"}) => Reaches(disk'[s], k, {"synced"})
  <2>1. DOMAIN disk' = DOMAIN disk
    BY <1>1
  <2>2. \A s \in DOMAIN disk : \A i \in DOMAIN disk[s].batches :
          disk[s].batches[i].st = "synced" => disk'[s].batches[i].st = "synced"
    BY <1>5
  <2>3. \A s \in DOMAIN disk : Same(disk[s], disk'[s])
    BY <1>5
  <2> QED BY <2>1, <2>2, <2>3, RelabelDisk
<1>7. /\ \A n \in 1..published : history'[n] = history[n]
      /\ published <= Len(history') /\ Len(history') \in Nat
      /\ attach = 0 => Len(history') = published
  BY <1>1, <1>2, TruncateIs
<1>8. \A s \in DOMAIN disk : End(disk[s]) <= published
  <2> SUFFICES ASSUME NEW s \in DOMAIN disk, s # current PROVE End(disk[s]) <= published
    BY <1>2, <1>4
  <2>1. s < current
    BY <1>2, Basics DEF Top
  <2>2. End(disk[s]) <= f.preceding
    BY <1>2, <2>1 DEF LogInv, DiskInv, Older
  <2>3. f.preceding <= End(f) /\ f.preceding \in Nat /\ End(disk[s]) \in Nat
    BY <1>2, Basics, EndIs, FileTyped
  <2> QED BY <1>2, <1>4, <2>2, <2>3
<1>9. DiskInv'
  <2>1. Files(disk', history')
    <3> SUFFICES ASSUME NEW s \in DOMAIN disk PROVE FileOK(disk'[s], history')
      BY <1>6 DEF Files
    <3>1. FileOK(disk'[s], history) /\ End(disk'[s]) <= published
          /\ End(disk'[s]) \in Nat
      BY <1>6, <1>8, FileTyped DEF Files
    <3>2. End(disk'[s]) <= Len(history')
          /\ \A n \in 1..End(disk'[s]) : history'[n] = history[n]
      BY <1>2, <1>7, <3>1
    <3> QED BY <1>2, <1>6, <1>7, <3>1, <3>2, OtherHistory
  <2>2. Floor = base.d /\ Floor' = base.d
    BY <1>1 DEF Floor
  <2>3. Punched(disk', base.d)
    BY <1>5, <1>6, <2>2 DEF Punched, LogInv, DiskInv
  <2>4. Cover(disk', base.d, live')
    BY <1>1, <1>6, <2>2 DEF LogInv, DiskInv
  <2> QED BY <1>6, <2>1, <2>2, <2>3, <2>4 DEF DiskInv
<1>10. NamesInv' /\ RepairInv' /\ ReclaimInv'
  BY <1>1, <1>2, <1>6 DEF LogInv, NamesInv, RepairInv, ReclaimInv, Idle
<1>11. CurrentInv'
  BY <1>1, <1>6 DEF LogInv, CurrentInv, Rotating, Idle
<1>12. /\ g \in SegmentType /\ DOMAIN g.batches = 1..Len(g.batches)
       /\ Len(g.batches) \in Nat /\ AllSynced(g) /\ End(g) = published
  <2>1. g \in SegmentType /\ DOMAIN g.batches = DOMAIN f.batches /\ End(g) = published
    BY <1>2, <1>4, <1>6
  <2>2. AllSynced(g)
    BY <1>2, <1>3, <1>5, <2>1 DEF AllSynced
  <2> QED BY <2>1, <2>2, FileTyped
<1>13. StatusInv'
  <2>1. disk'[current'] = g /\ issued' = published /\ published' = published
    BY <1>1, <1>2
  <2> HIDE DEF g
  <2>2. PublishedAt(g, published)
    <3>1. Through(g, Len(g.batches), published, Intact)
      BY <1>2, <1>12 DEF Through, AllSynced, Intact, End
    <3> QED BY <1>12, <3>1 DEF PublishedAt, End
  <2>3. Fences(g.batches, (cohort # NoCohort)')
    BY <1>12 DEF Fences, AllSynced
  <2>4. Settled(g.batches, durable', (FenceFits /\ mode \in {"live", "serving"})')
    BY <1>12 DEF Settled, AllSynced
  <2>5. \A i \in DOMAIN g.batches : g.batches[i].st # "bad"
    BY <1>12 DEF AllSynced
  <2> QED BY <1>12, <2>1, <2>2, <2>3, <2>4, <2>5 DEF StatusInv
<1>14. AnchorInv'
  <2>1. mode # "down" /\ mode' # "down"
    BY <1>1
  <2> QED BY <1>1, <1>6, <2>1 DEF LogInv, AnchorInv
<1>15. CarrierInv'
  <2>1. Running' /\ mode # "down" /\ mode' # "down" /\ mode' # "fence"
        /\ (mode' = "fresh" => attach = 0)
    BY <1>1 DEF Running
  <2>2. attach = 0 => live = {} /\ issued = Len(history')
    BY <1>2, <1>7 DEF LogInv, CarrierInv
  <2>3. attach # 0 => history' = history
    BY <1>1
  <2>4. attach' = attach /\ live' = live /\ acked' = acked /\ job' = Idle
        /\ issued' = issued /\ published' = published
    BY <1>1
  <2>5. live' \subseteq 1..Len(history')
    BY <2>2, <2>3, <2>4 DEF LogInv, CarrierInv
  <2>6. ~Rotating'
    BY <2>4 DEF Rotating, Idle
  <2> QED BY <1>2, <1>6, <2>1, <2>2, <2>3, <2>4, <2>5, <2>6 DEF LogInv, CarrierInv
<1>16. MapInv'
  <2>1. manifest.d \in Nat /\ base.d \in Nat /\ manifest.d <= published
        /\ base.d <= published
    BY <1>1, <1>2, Numbers DEF FrontierInv, OrderInv
  <2>2. ASSUME NEW k \in Nat, k <= published PROVE Image(history', k) = Image(history, k)
    <3>1. \A n \in 1..k : history[n] = history'[n]
      BY <1>2, <1>7, <2>2
    <3> QED BY <3>1, ImageSame
  <2> QED BY <1>1, <2>1, <2>2 DEF LogInv, MapInv, Idle
<1> QED BY <1>9, <1>10, <1>11, <1>13, <1>14, <1>15, <1>16 DEF LogInv

-----------------------------------------------------------------------------
(* Steps that add or remove a file.                                        *)

\* The new file follows the current one, which is synced and ends at P.
LEMMA FinishCreateLog ==
  ASSUME TypeOK, FrontierInv, LogInv, FinishCreate PROVE LogInv'
<1> DEFINE c == highest + 1
           g == [epoch |-> EpochOf(c), preceding |-> published, batches |-> <<>>]
<1>1. /\ job.kind = "creating" /\ stub' = stub \ {c} /\ highest' = c
      /\ disk' = [s \in DOMAIN disk \cup {c} |-> IF s = c THEN g ELSE disk[s]]
      /\ job' = [job EXCEPT !.kind = "created"]
      /\ UNCHANGED <<manifest, guest, mode, failed, frontiers, memory, plans,
                     promised, crashes>>
  BY DEF FinishCreate
<1>2. /\ Running /\ mode # "down" /\ mode # "repair" /\ Rotating
      /\ job'.kind = "created" /\ job'.fresh = job.fresh
  BY <1>1 DEF TypeOK, CurrentOK, Idle, Running, Rotating, JobType
<1>3. /\ current \in DOMAIN disk /\ Top(disk, current) /\ current \in Nat
      /\ disk[current] \in SegmentType /\ FileOK(disk[current], history)
      /\ End(disk[current]) = published /\ AllSynced(disk[current])
      /\ issued = published /\ cohort = NoCohort /\ highest \in Nat
      /\ published <= Len(history) /\ published \in Nat /\ Len(history) \in Nat
  BY <1>1, <1>2, Basics, Numbers DEF LogInv, StatusInv, CurrentInv, TypeOK, LogOK
<1>4. \A s \in DOMAIN disk : s < c /\ s # c /\ s \in Nat
  BY <1>3, Basics DEF LogInv, NamesInv
<1>5. /\ DOMAIN disk' = DOMAIN disk \cup {c} /\ disk'[c] = g
      /\ \A s \in DOMAIN disk : disk'[s] = disk[s]
  <2> HIDE DEF c, g
  <2> QED BY <1>1, <1>4
<1>6. /\ Len(g.batches) = 0 /\ DOMAIN g.batches = {} /\ g.preceding = published
      /\ g.batches = <<>> /\ g.epoch = EpochOf(c)
  OBVIOUS
<1>7. g \in SegmentType
  <2>1. EpochOf(c) \in Nat
    BY <1>3, FileTyped DEF EpochOf
  <2> HIDE DEF c
  <2> QED BY <1>3, <2>1, EmptySeq DEF SegmentType
<1> HIDE DEF g
<1>8. Pre(g, 0) = published /\ End(g) = published
  BY <1>6 DEF Pre, End
<1>9. FileOK(g, history)
  BY <1>3, <1>6, <1>8, ConstantsAssumption DEF FileOK
<1>10. ASSUME NEW s \in DOMAIN disk
       PROVE  End(disk[s]) <= published /\ AllSynced(disk[s])
  <2>1. CASE s = current
    BY <1>3, <2>1
  <2>2. CASE s # current
    <3>1. s < current
      BY <1>3, <1>4, <2>2 DEF Top
    <3>2. End(disk[s]) <= disk[current].preceding /\ AllSynced(disk[s])
      BY <1>3, <3>1 DEF LogInv, DiskInv, Older
    <3>3. /\ disk[current].preceding <= published /\ End(disk[s]) \in Nat
          /\ disk[current].preceding \in Nat
      BY <1>3, Basics, EndIs, FileTyped
    <3> QED BY <1>3, <3>2, <3>3
  <2> QED BY <2>1, <2>2
<1>11. \A s : Top(disk', s) => s = c
  <2> SUFFICES ASSUME NEW s \in DOMAIN disk', Top(disk', s), s # c PROVE FALSE
    BY DEF Top
  <2>1. s < c /\ c <= s /\ s \in Nat
    BY <1>4, <1>5 DEF Top
  <2> QED BY <1>3, <2>1
<1>12. DiskInv'
  <2>1. Files(disk', history)
    BY <1>5, <1>9, Basics DEF Files
  <2>2. Older(disk')
    <3> SUFFICES ASSUME NEW s \in DOMAIN disk', NEW t \in DOMAIN disk', s < t
                 PROVE  End(disk'[s]) <= disk'[t].preceding /\ AllSynced(disk'[s])
      BY DEF Older
    <3>1. CASE t \in DOMAIN disk /\ s \in DOMAIN disk
      BY <1>5, <3>1 DEF LogInv, DiskInv, Older
    <3>2. CASE t = c /\ s \in DOMAIN disk
      BY <1>5, <1>6, <1>10, <3>2
    <3>3. s \in DOMAIN disk
      <4> SUFFICES ASSUME s = c PROVE FALSE
        BY <1>5
      <4>1. t <= c
        BY <1>3, <1>4, <1>5
      <4>2. t \in Nat
        BY <1>3, <1>4, <1>5
      <4> QED BY <1>3, <4>1, <4>2
    <3> QED BY <1>5, <3>1, <3>2, <3>3
  <2>3. Punched(disk', base.d)
    <3>1. Punched(disk, base.d)
      BY <1>2 DEF LogInv, DiskInv, Floor
    <3> QED BY <1>5, <1>6, <3>1 DEF Punched
  <2>4. Cover(disk', base.d, live)
    <3>1. Cover(disk, base.d, live)
      BY <1>2 DEF LogInv, DiskInv, Floor
    <3> SUFFICES ASSUME NEW s \in DOMAIN disk', NEW n \in 1..End(disk'[s]),
                        base.d < n \/ n \in live
                 PROVE  \E t \in DOMAIN disk' : Has(disk'[t], n)
      BY DEF Cover
    <3>2. \E t \in DOMAIN disk : n \in 1..End(disk[t])
      BY <1>3, <1>5, <1>8
    <3>3. \E t \in DOMAIN disk : Has(disk[t], n)
      BY <3>1, <3>2 DEF Cover
    <3> QED BY <1>5, <3>3
  <2> QED BY <1>1, <1>2, <2>1, <2>2, <2>3, <2>4 DEF DiskInv, Floor
<1>13. NamesInv'
  <2>1. stub' = {}
    BY <1>1, <1>2 DEF LogInv, NamesInv
  <2>2. \A s \in DOMAIN disk' : 1 <= s /\ s <= highest'
    <3>1. \A s \in DOMAIN disk : 1 <= s
      BY DEF LogInv, NamesInv
    <3> QED BY <1>1, <1>3, <1>4, <1>5, <3>1
  <2> QED BY <1>5, <2>1, <2>2 DEF NamesInv
<1>14. CurrentInv'
  <2>1. \A s \in DOMAIN disk' : (s <= current /\ s \in segs) \/ s = c
    BY <1>1, <1>2, <1>5 DEF LogInv, CurrentInv
  <2>2. c > current
    BY <1>3, <1>4
  <2>3. AllSynced(disk'[current])
    BY <1>3, <1>5
  <2> QED BY <1>1, <1>2, <1>3, <1>5, <1>6, <2>1, <2>2, <2>3 DEF CurrentInv, Rotating
<1>15. StatusInv'
  BY <1>1, <1>3, <1>5 DEF LogInv, StatusInv, Running, FenceFits
<1>16. AnchorInv'
  <2>1. promised <= published
    BY <1>2 DEF LogInv, AnchorInv
  <2>2. Reaches(g, promised, {"synced"})
    BY <1>6, <1>7, <2>1, ReachesEnd
  <2> QED BY <1>1, <1>5, <1>11, <2>2 DEF LogInv, AnchorInv
<1>17. CarrierInv'
  <2>1. attach # 0 => g.epoch = attach
    <3> SUFFICES ASSUME attach # 0 PROVE g.epoch = attach
      OBVIOUS
    <3>1. ~job.fresh
      BY <1>2 DEF LogInv, CarrierInv
    <3>2. disk[current].epoch = attach
      BY <1>3 DEF LogInv, CarrierInv
    <3> QED BY <1>6, <3>1, <3>2 DEF EpochOf
  <2> QED BY <1>1, <1>2, <1>5, <1>11, <2>1 DEF LogInv, CarrierInv, Running, Rotating
<1>18. RepairInv' /\ MapInv' /\ ReclaimInv'
  BY <1>1, <1>2 DEF LogInv, RepairInv, MapInv, ReclaimInv
<1> QED BY <1>12, <1>13, <1>14, <1>15, <1>16, <1>17, <1>18 DEF LogInv

\* A removed file holds nothing above the base view and nothing in flight.
LEMMA UnlinkSegmentLog ==
  ASSUME TypeOK, FrontierInv, LogInv, NEW s, UnlinkSegment(s) PROVE LogInv'
<1>1. /\ job.kind = "unlink"
      /\ disk' = IF Removable(s) THEN [t \in DOMAIN disk \ {s} |-> disk[t]] ELSE disk
      /\ job' = [job EXCEPT !.kind = "punch", !.todo = @ \ {s}]
      /\ UNCHANGED <<stub, highest, manifest, guest, mode, failed, frontiers,
                     memory, plans, promised, crashes>>
  BY DEF UnlinkSegment
<1>2. /\ mode = "serving" /\ Running /\ ~Rotating /\ ~Rotating' /\ job'.kind = "punch"
      /\ job'.view = job.view /\ job'.oldest = job.oldest
  BY <1>1 DEF FrontierInv, JobInv, Running, Rotating, TypeOK, JobType
<1>3. /\ job.view = base /\ job.oldest <= Len(history) /\ job.oldest \in Nat
      /\ base.d \in Nat
      /\ \A n \in live : job.oldest <= n /\ (job.oldest = 0 => n > base.d)
  BY <1>1, Numbers DEF LogInv, ReclaimInv, TypeOK, JobType
<1>4. current \in DOMAIN disk /\ Top(disk, current)
  BY <1>1, <1>2, Basics
<1>5. /\ DOMAIN disk' \subseteq DOMAIN disk /\ current \in DOMAIN disk'
      /\ \A t \in DOMAIN disk' : disk'[t] = disk[t]
  <2>1. CASE Removable(s)
    BY <1>1, <1>4, <2>1 DEF Removable
  <2>2. CASE ~Removable(s)
    BY <1>1, <1>4, <2>2
  <2> QED BY <2>1, <2>2
<1>6. ASSUME NEW t \in DOMAIN disk, t \notin DOMAIN disk'
      PROVE  /\ End(disk[t]) <= base.d
             /\ job.oldest = 0 \/ End(disk[t]) < job.oldest
  <2>1. Removable(s) /\ t = s
    BY <1>1, <1>6
  <2>2. LastOf(s) = End(disk[s])
    BY DEF LastOf, PrefixAt, End, Pre
  <2> QED BY <1>3, <2>1, <2>2 DEF Removable
<1>7. \A t : Top(disk', t) => Top(disk, t)
  <2> SUFFICES ASSUME NEW t, Top(disk', t) PROVE t = current
    BY <1>4
  <2>1. t \in DOMAIN disk /\ t <= current /\ current <= t
    BY <1>4, <1>5 DEF Top
  <2> QED BY <1>4, <2>1, Basics
<1>8. DiskInv'
  <2>1. Floor = base.d /\ Floor' = base.d
    BY <1>1, <1>2 DEF Floor
  <2>2. Files(disk', history) /\ Older(disk') /\ Punched(disk', base.d)
    BY <1>5, <2>1 DEF LogInv, DiskInv, Files, Older, Punched
  <2>3. Cover(disk', base.d, live)
    <3> SUFFICES ASSUME NEW t \in DOMAIN disk', NEW n \in 1..End(disk'[t]),
                        base.d < n \/ n \in live
                 PROVE  \E u \in DOMAIN disk' : Has(disk'[u], n)
      BY DEF Cover
    <3>1. PICK u \in DOMAIN disk : Has(disk[u], n)
      BY <1>5, <2>1 DEF LogInv, DiskInv, Cover
    <3>2. u \in DOMAIN disk'
      <4> SUFFICES ASSUME u \notin DOMAIN disk' PROVE FALSE
        OBVIOUS
      <4>1. n \in Int
        BY <1>5, Basics, FileTyped
      <4>2. n <= End(disk[u]) /\ End(disk[u]) \in Nat /\ n \in Nat
        BY <3>1, <4>1, Basics, HasBetween, FileTyped
      <4> QED BY <1>3, <1>6, <4>2
    <3> QED BY <1>5, <3>1, <3>2
  <2> QED BY <1>1, <2>1, <2>2, <2>3 DEF DiskInv
<1>9. NamesInv' /\ RepairInv'
  BY <1>1, <1>2, <1>5 DEF LogInv, NamesInv, RepairInv, Running
<1>10. CurrentInv'
  BY <1>1, <1>2, <1>5 DEF LogInv, CurrentInv
<1>11. StatusInv'
  BY <1>1, <1>5 DEF LogInv, StatusInv, Running, FenceFits
<1>12. AnchorInv'
  BY <1>1, <1>5, <1>7 DEF LogInv, AnchorInv
<1>13. CarrierInv'
  BY <1>1, <1>2, <1>5, <1>7 DEF LogInv, CarrierInv, Running
<1>14. MapInv' /\ ReclaimInv'
  BY <1>1, <1>2, <1>3 DEF LogInv, MapInv, ReclaimInv
<1> QED BY <1>8, <1>9, <1>10, <1>11, <1>12, <1>13, <1>14 DEF LogInv

-----------------------------------------------------------------------------
(* What inspection sees.                                                   *)

\* Inspection rejects the bad batches and no other: a punched payload is
\* never one it needs.
LEMMA AcceptsIs ==
  ASSUME TypeOK, FrontierInv, LogInv, ~Running, NEW s \in DOMAIN disk
  PROVE  /\ \A i \in DOMAIN disk[s].batches :
              Accepts(disk[s].batches[i]) <=> disk[s].batches[i].st # "bad"
         /\ AllSynced(disk[s]) => ~Rejects(s)
<1>1. ASSUME NEW i \in DOMAIN disk[s].batches
      PROVE  Accepts(disk[s].batches[i]) <=> disk[s].batches[i].st # "bad"
  <2>1. disk[s].batches[i].last \in Nat
    BY Basics, FileTyped
  <2>2. disk[s].batches[i].punched => disk[s].batches[i].last <= Floor
    BY DEF LogInv, DiskInv, Punched
  <2>3. Floor <= manifest.d /\ Floor \in Nat /\ manifest.d \in Nat
    BY Numbers DEF Floor, FrontierInv, OrderInv
  <2>4. ~(disk[s].batches[i].last > manifest.d /\ disk[s].batches[i].punched)
    BY <2>1, <2>2, <2>3
  <2> QED BY <2>4 DEF Accepts
<1>2. AllSynced(disk[s]) => ~Rejects(s)
  BY <1>1 DEF AllSynced, Rejects
<1> QED BY <1>1, <1>2

\* Good is the number of batches before the first bad one.
LEMMA GoodIs ==
  ASSUME TypeOK, FrontierInv, LogInv, ~Running, NEW s \in DOMAIN disk
  PROVE  Keeps(disk[s], Good(s)) /\ Good(s) \in Goods(s)
<1> DEFINE f == disk[s]
<1>1. /\ f \in SegmentType /\ FileOK(f, history) /\ Len(f.batches) \in Nat
      /\ DOMAIN f.batches = 1..Len(f.batches)
  BY Basics, FileTyped
<1>2. \A i \in 1..Len(f.batches) : Accepts(f.batches[i]) <=> f.batches[i].st # "bad"
  BY <1>1, AcceptsIs
<1>3. ASSUME NEW k PROVE k \in Goods(s) <=> Keeps(f, k)
  <2>1. CASE k \notin 0..Len(f.batches)
    BY <2>1 DEF Goods, Keeps
  <2>2. CASE k \in 0..Len(f.batches)
    <3>1. \A i \in 1..k : i \in 1..Len(f.batches)
      BY <1>1, <2>2
    <3>2. k < Len(f.batches) => k + 1 \in 1..Len(f.batches)
      BY <1>1, <2>2
    <3>3. (\A i \in 1..k : Accepts(f.batches[i]))
            <=> (\A i \in 1..k : f.batches[i].st # "bad")
      BY <1>2, <3>1
    <3>4. (k < Len(f.batches) => ~Accepts(f.batches[k + 1]))
            <=> (k < Len(f.batches) => f.batches[k + 1].st = "bad")
      BY <1>2, <3>2
    <3> QED BY <2>2, <3>3, <3>4 DEF Goods, Keeps
  <2> QED BY <2>1, <2>2
<1>4. PICK g : Keeps(f, g)
  BY <1>1, KeepsExists
<1>5. Goods(s) \in SUBSET Nat /\ Goods(s) # {} /\ \A x \in Goods(s) : x <= Len(f.batches)
  <2>1. g \in Goods(s)
    BY <1>3, <1>4
  <2>2. \A x \in Goods(s) : x \in 0..Len(f.batches)
    BY DEF Goods
  <2> QED BY <1>1, <2>1, <2>2
<1>6. Good(s) \in Goods(s)
  BY <1>1, <1>5, GreatestIs DEF Good
<1> QED BY <1>3, <1>6

\* After a crash every file is kept, the newest is the last one, and the
\* recovered prefix is where its intact batches end.
LEMMA KeptIs ==
  ASSUME TypeOK, FrontierInv, LogInv, mode = "down"
  PROVE  /\ Kept = DOMAIN disk /\ Top(disk, Newest)
         /\ Keeps(disk[Newest], Good(Newest)) /\ Good(Newest) \in Goods(Newest)
         /\ Prefix = Pre(disk[Newest], Good(Newest))
         /\ Prefix \in Nat /\ Prefix <= End(disk[Newest])
<1>1. ~Running
  BY DEF Running
<1>2. Kept = DOMAIN disk
  <2>1. \A s \in DOMAIN disk : \A t \in stub : s < t
    BY DEF LogInv, NamesInv
  <2>2. \A s, t \in DOMAIN disk : t < s => ~Rejects(t)
    BY <1>1, AcceptsIs DEF LogInv, DiskInv, Older
  <2> QED BY <2>1, <2>2 DEF Kept
<1>3. Top(disk, Newest)
  <2>1. DOMAIN disk \in SUBSET Nat /\ DOMAIN disk # {} /\ highest \in Nat
        /\ \A s \in DOMAIN disk : s <= highest
    BY Basics DEF LogInv, NamesInv
  <2> QED BY <1>2, <2>1, GreatestIs DEF Newest, Top
<1>4. Newest \in DOMAIN disk
  BY <1>3 DEF Top
<1>5. Keeps(disk[Newest], Good(Newest)) /\ Good(Newest) \in Goods(Newest)
  BY <1>1, <1>4, GoodIs
<1>6. Prefix = Pre(disk[Newest], Good(Newest))
  BY DEF Prefix, PrefixAt, Pre
<1>7. disk[Newest] \in SegmentType /\ FileOK(disk[Newest], history)
      /\ Good(Newest) \in 0..Len(disk[Newest].batches) /\ Len(history) \in Nat
  BY <1>4, <1>5, Basics DEF Keeps
<1>8. Pre(disk[Newest], Good(Newest)) \in Nat
      /\ Pre(disk[Newest], Good(Newest)) <= End(disk[Newest])
  BY <1>7, FileTyped, EndIs
<1> QED BY <1>2, <1>3, <1>5, <1>6, <1>8

\* Repair cuts the current file at P, or removes a name without a header.
LEMMA RepairFileLog ==
  ASSUME TypeOK, TypeOK', FrontierInv, LogInv, NEW s, RepairFile(s) PROVE LogInv'
<1> DEFINE f == disk[current]
           g == disk'[current]
           m == Good(current)
<1>1. /\ mode = "repair" /\ s \in Doomed /\ job = Idle /\ job' = Idle /\ stub' = stub \ {s}
      /\ UNCHANGED <<highest, manifest, guest, mode, failed, frontiers, memory,
                     job, plans, promised, crashes>>
  BY DEF RepairFile, TypeOK, CurrentOK
<1>2. /\ ~Running /\ ~Running' /\ ~Rotating' /\ mode # "down" /\ job.kind # "created"
      /\ Floor = base.d /\ Floor' = base.d
  BY <1>1 DEF Running, Idle, Rotating, Floor
<1>3. /\ current \in DOMAIN disk /\ Top(disk, current) /\ f \in SegmentType
      /\ FileOK(f, history) /\ Len(f.batches) \in Nat /\ Len(history) \in Nat
      /\ DOMAIN f.batches = 1..Len(f.batches) /\ published \in Nat
      /\ \A t \in DOMAIN disk : t <= current /\ t \in segs /\ t \in Nat
  BY <1>2, Basics, FileTyped, Numbers DEF LogInv, CurrentInv
<1>4. CASE s = current
  <2>1. Keeps(f, m) /\ m \in 0..Len(f.batches) /\ m \in Nat /\ Pre(f, m) = published
    <3>1. Keeps(f, m)
      BY <1>2, <1>3, GoodIs
    <3>2. PICK c : Keeps(f, c) /\ Pre(f, c) = published
      BY <1>1 DEF LogInv, RepairInv
    <3>3. c = m
      <4> HIDE DEF f, m
      <4> QED BY <1>3, <3>1, <3>2, KeepsIs
    <3> QED BY <1>3, <3>1, <3>2, <3>3 DEF Keeps
  <2>2. PICK keep : keep = SubSeq(f.batches, 1, m)
    OBVIOUS
  <2>3. /\ keep \in Seq(BatchType) /\ Len(keep) = m /\ DOMAIN keep = 1..m
        /\ \A i \in 1..m : keep[i] = f.batches[i]
    <3>1. \A i \in 1..m : f.batches[i] \in BatchType
      BY <1>3, <2>1, FileTyped
    <3> HIDE DEF f, m
    <3>2. /\ keep \in Seq(BatchType) /\ Len(keep) = m
          /\ \A i \in 1..m : keep[i] = f.batches[i]
      BY <2>1, <2>2, <3>1, SubSeqProperties
    <3> QED BY <3>2, LenProperties
  <2>4. PICK new : new = Synced(keep)
    OBVIOUS
  <2>5. /\ DOMAIN new = 1..m /\ new \in Seq(BatchType)
        /\ \A i \in 1..m :
             /\ new[i].last = f.batches[i].last /\ new[i].data = f.batches[i].data
             /\ new[i].punched = f.batches[i].punched /\ new[i].st = "synced"
    <3>1. \A i \in 1..m : f.batches[i].st # "bad"
      BY <2>1 DEF Keeps
    <3> HIDE DEF f, m
    <3> QED BY <2>3, <2>4, <3>1, SyncedIs
  <2>6. Len(new) = m
    <3>1. Len(new) \in Nat /\ DOMAIN new = 1..Len(new)
      BY <2>5, LenProperties
    <3> SUFFICES ASSUME NEW a \in Nat, NEW b \in Nat, 1..a = 1..b PROVE a = b
      <4> HIDE DEF m
      <4> QED BY <2>1, <2>5, <3>1
    <3>2. \A i \in Nat \ {0} : (i \in 1..a <=> i <= a) /\ (i \in 1..b <=> i <= b)
      OBVIOUS
    <3>3. (a # 0 => a <= b) /\ (b # 0 => b <= a)
      BY <3>2
    <3> QED BY <3>3
  <2>7. disk' = [disk EXCEPT ![current].batches = new]
    BY <1>4, <2>2, <2>4 DEF RepairFile
  <2>8. /\ DOMAIN disk' = DOMAIN disk /\ g.batches = new /\ g.preceding = f.preceding
        /\ g.epoch = f.epoch /\ g \in SegmentType
        /\ \A t \in DOMAIN disk : t # current => disk'[t] = disk[t]
    <3> HIDE DEF m
    <3> QED BY <1>3, <2>5, <2>7 DEF SegmentType
  <2>9. /\ AllSynced(g) /\ End(g) = published /\ FileOK(g, history)
        /\ \A n \in Int : Has(f, n) /\ n <= published => Has(g, n)
    <3> HIDE DEF f, g, m
    <3> QED BY <1>3, <2>1, <2>5, <2>6, <2>8, TruncateFile
  <2>10. \A t : Top(disk', t) => t = current
    BY <1>3, <2>8, Basics DEF Top
  <2>11. published <= End(f) /\ f.preceding <= published /\ f.preceding \in Nat
         /\ End(f) \in Nat
    <3>1. f.preceding = Pre(f, 0) /\ 0 \in 0..Len(f.batches) /\ 0 <= m
      BY <1>3, <2>1 DEF Pre
    <3> QED BY <1>3, <2>1, <3>1, EndIs, FileTyped DEF FileOK
  <2> HIDE DEF g, m
  <2>12. DiskInv'
    <3>1. Files(disk', history)
      BY <2>8, <2>9, Basics DEF Files, g
    <3>2. Older(disk')
      <4> SUFFICES ASSUME NEW t \in DOMAIN disk, NEW u \in DOMAIN disk, t < u
                   PROVE  End(disk'[t]) <= disk'[u].preceding /\ AllSynced(disk'[t])
        BY <2>8 DEF Older
      <4>1. t # current
        BY <1>3
      <4>2. End(disk[t]) <= disk[u].preceding /\ AllSynced(disk[t])
        BY DEF LogInv, DiskInv, Older
      <4>3. disk'[u].preceding = disk[u].preceding
        BY <2>8 DEF g
      <4> QED BY <2>8, <4>1, <4>2, <4>3
    <3>3. Punched(disk', base.d)
      <4>1. Punched(disk, base.d)
        BY <1>2 DEF LogInv, DiskInv
      <4> SUFFICES ASSUME NEW t \in DOMAIN disk, NEW i \in DOMAIN disk'[t].batches,
                          disk'[t].batches[i].punched
                   PROVE  disk'[t].batches[i].last <= base.d
        BY <2>8 DEF Punched
      <4>2. CASE t = current
        <5>1. i \in 1..m /\ i \in DOMAIN f.batches
          BY <1>3, <2>1, <2>5, <2>8, <4>2 DEF g
        <5>2. f.batches[i].punched
          BY <2>5, <2>8, <4>2, <5>1 DEF g
        <5> QED BY <1>3, <2>5, <2>8, <4>1, <4>2, <5>1, <5>2 DEF Punched, g
      <4>3. CASE t # current
        BY <2>8, <4>1, <4>3 DEF Punched
      <4> QED BY <4>2, <4>3
    <3>4. Cover(disk', base.d, live)
      <4> SUFFICES ASSUME NEW t \in DOMAIN disk, NEW n \in 1..End(disk'[t]),
                          base.d < n \/ n \in live
                   PROVE  \E u \in DOMAIN disk : Has(disk'[u], n)
        BY <2>8 DEF Cover
      <4>1. n \in 1..End(disk[t]) /\ n <= published /\ n \in Int
        <5>1. CASE t = current
          BY <1>3, <2>8, <2>9, <2>11, <5>1 DEF g
        <5>2. CASE t # current
          <6>1. End(disk[t]) <= f.preceding /\ End(disk[t]) \in Nat
            BY <1>3, <5>2, Basics, FileTyped DEF LogInv, DiskInv, Older
          <6> QED BY <1>3, <2>8, <2>11, <5>2, <6>1
        <5> QED BY <5>1, <5>2
      <4>2. PICK u \in DOMAIN disk : Has(disk[u], n)
        BY <1>2, <4>1 DEF LogInv, DiskInv, Cover
      <4> QED BY <2>8, <2>9, <4>1, <4>2 DEF g
    <3> QED BY <1>1, <1>2, <3>1, <3>2, <3>3, <3>4 DEF DiskInv
  <2>13. NamesInv' /\ CurrentInv' /\ StatusInv' /\ ReclaimInv'
    BY <1>1, <1>2, <2>8 DEF LogInv, NamesInv, CurrentInv, StatusInv, ReclaimInv, Idle
  <2>14. RepairInv'
    <3>1. Keeps(g, Len(g.batches)) /\ Pre(g, Len(g.batches)) = published
      BY <2>8, <2>9, FileTyped DEF Keeps, AllSynced, End
    <3> QED BY <1>1, <3>1 DEF LogInv, RepairInv, g
  <2>15. AnchorInv'
    <3>1. promised <= published
      BY <1>2 DEF LogInv, AnchorInv
    <3>2. Reaches(g, promised, {"synced"})
      BY <2>8, <2>9, <3>1, ReachesEnd
    <3> QED BY <1>1, <2>10, <3>2 DEF LogInv, AnchorInv, g
  <2>16. CarrierInv'
    <3>1. attach # 0 => acked <= published /\ acked \in Nat
      BY <1>2 DEF LogInv, CarrierInv, TypeOK, GuestOK
    <3>2. attach # 0 => Reaches(g, acked, Intact)
      BY <2>8, <2>9, <3>1, ReachesEnd, ReachesLess DEF Intact
    <3>3. attach # 0 => g.epoch = attach
      BY <1>3, <2>8 DEF LogInv, CarrierInv
    <3> QED BY <1>1, <1>2, <2>10, <3>2, <3>3 DEF LogInv, CarrierInv, g
  <2>17. MapInv'
    BY <1>1 DEF LogInv, MapInv
  <2> QED BY <2>12, <2>13, <2>14, <2>15, <2>16, <2>17 DEF LogInv
<1>5. CASE s # current
  <2>1. s \notin DOMAIN disk
    BY <1>1, <1>3, <1>5 DEF Doomed, LogInv, NamesInv
  <2>2. disk' = disk
    <3>1. disk' = [t \in DOMAIN disk \ {s} |-> disk[t]] /\ DOMAIN disk \ {s} = DOMAIN disk
      BY <1>5, <2>1 DEF RepairFile
    <3>2. disk = [t \in DOMAIN disk |-> disk[t]]
      BY DEF TypeOK, DiskOK
    <3> QED BY <3>1, <3>2
  <2>3. NamesInv'
    BY <1>1, <1>2, <2>2 DEF LogInv, NamesInv
  <2> QED BY <1>1, <1>2, <2>2, <2>3 DEF LogInv, DiskInv, CurrentInv, RepairInv,
    StatusInv, AnchorInv, CarrierInv, MapInv, ReclaimInv, Rotating, Idle
<1> QED BY <1>4, <1>5

-----------------------------------------------------------------------------
(* Crashes.                                                                *)

\* A batch that was not lost is intact when it was, and stays on the platter.
LEMMA SettleIs ==
  ASSUME NEW bt \in BatchType, NEW lost \in BOOLEAN, NEW power \in BOOLEAN
  PROVE  LET y == Settle(bt, lost, power)
         IN  /\ y.last = bt.last /\ y.data = bt.data /\ y.punched = bt.punched
             /\ ~lost /\ bt.st = "synced" => y.st = "synced"
             /\ ~lost /\ bt.st \in Intact => y.st \in Intact
<1>1. \A z : /\ [bt EXCEPT !.st = z].last = bt.last
             /\ [bt EXCEPT !.st = z].data = bt.data
             /\ [bt EXCEPT !.st = z].punched = bt.punched
             /\ [bt EXCEPT !.st = z].st = z
  BY DEF BatchType
<1> DEFINE z == CASE lost -> "bad"
                  [] ~lost /\ power /\ bt.st # "bad" -> "synced"
                  [] ~lost /\ ~power /\ bt.st = "issued" -> "written"
                  [] OTHER -> bt.st
<1>2. Settle(bt, lost, power) = [bt EXCEPT !.st = z]
  BY DEF Settle
<1>3. /\ ~lost /\ bt.st = "synced" => z = "synced"
      /\ ~lost /\ bt.st \in Intact => z \in Intact
  BY DEF Intact
<1> HIDE DEF z
<1> QED BY <1>1, <1>2, <1>3

\* Nothing synced is lost, and without a power loss nothing written.
LEMMA CrashLog ==
  ASSUME TypeOK, TypeOK', FrontierInv, LogInv, NEW power \in BOOLEAN, NEW lost,
         NEW gone, Crash(power, lost, gone)
  PROVE  LogInv'
<1>1. /\ lost \subseteq Unsynced(power) /\ stub' = stub \ gone
      /\ disk' = [s \in DOMAIN disk |->
                    [disk[s] EXCEPT !.batches =
                       [i \in DOMAIN @ |-> Settle(@[i], <<s, i>> \in lost, power)]]]
      /\ highest' = (IF job.kind = "creating" /\ gone = {} THEN highest + 1 ELSE highest)
      /\ mode' = "down" /\ durable' = 0 /\ job' = Idle
      /\ UNCHANGED <<manifest, history, promised>>
  BY DEF Crash
<1>2. /\ attach' # 0 => attach # 0 /\ attach' = attach /\ ~power
                        /\ live' = live /\ acked' = acked
      /\ attach' = 0 => live' = {}
      /\ live' \subseteq live
  BY DEF Crash, LogInv, CarrierInv
<1>3. ASSUME NEW s \in DOMAIN disk
      PROVE  /\ Same(disk[s], disk'[s])
             /\ \A i \in DOMAIN disk[s].batches :
                  LET x == disk[s].batches[i]
                      y == disk'[s].batches[i]
                  IN  /\ y.punched = x.punched /\ y.last = x.last
                      /\ x.st = "synced" => y.st = "synced"
                      /\ ~power /\ x.st \in Intact => y.st \in Intact
  <2>1. /\ disk[s] \in SegmentType /\ disk[s].batches \in Seq(BatchType)
        /\ DOMAIN disk[s].batches = 1..Len(disk[s].batches)
        /\ \A i \in DOMAIN disk[s].batches : disk[s].batches[i] \in BatchType
    BY Basics, FileTyped
  <2>2. PICK new : new = [i \in DOMAIN disk[s].batches |->
                            Settle(disk[s].batches[i], <<s, i>> \in lost, power)]
    OBVIOUS
  <2>3. disk'[s] = [disk[s] EXCEPT !.batches = new]
    BY <1>1, <2>2
  <2>4. disk'[s].batches = new
    BY <2>1, <2>3 DEF SegmentType
  <2>5. ASSUME NEW i \in DOMAIN disk[s].batches
        PROVE  /\ new[i].last = disk[s].batches[i].last
               /\ new[i].data = disk[s].batches[i].data
               /\ new[i].punched = disk[s].batches[i].punched
               /\ disk[s].batches[i].st = "synced" => new[i].st = "synced"
               /\ ~power /\ disk[s].batches[i].st \in Intact => new[i].st \in Intact
    <3>1. PICK b \in BOOLEAN : b = (<<s, i>> \in lost)
      <4>1. CASE <<s, i>> \in lost
        <5>1. (<<s, i>> \in lost) = TRUE
          BY <4>1
        <5> QED BY <5>1
      <4>2. CASE ~(<<s, i>> \in lost)
        <5>1. (<<s, i>> \in lost) = FALSE
          BY <4>2
        <5> QED BY <5>1
      <4> QED BY <4>1, <4>2
    <3>2. new[i] = Settle(disk[s].batches[i], b, power)
      BY <2>2, <3>1
    <3>3. b => disk[s].batches[i].st \in IF power THEN {"issued", "written"} ELSE {"issued"}
      BY <1>1, <3>1 DEF Unsynced
    <3>4. /\ new[i].last = disk[s].batches[i].last
          /\ new[i].data = disk[s].batches[i].data
          /\ new[i].punched = disk[s].batches[i].punched
          /\ ~b /\ disk[s].batches[i].st = "synced" => new[i].st = "synced"
          /\ ~b /\ disk[s].batches[i].st \in Intact => new[i].st \in Intact
      BY <2>1, <3>2, SettleIs
    <3>5. disk[s].batches[i].st = "synced" => ~b
      BY <3>3
    <3>6. ~power /\ disk[s].batches[i].st \in Intact => ~b
      BY <3>3 DEF Intact
    <3> QED BY <3>4, <3>5, <3>6
  <2>6. DOMAIN new = DOMAIN disk[s].batches
    BY <2>2
  <2>7. new \in Seq(BatchType)
    BY <1>1, <2>4, FileTyped DEF TypeOK, DiskOK
  <2>8. Same(disk[s], disk'[s])
    BY <2>1, <2>3, <2>5, <2>6, <2>7, SameBatches
  <2> QED BY <2>4, <2>5, <2>8
<1>4. DOMAIN disk' = DOMAIN disk
  BY <1>1
<1>5. /\ Files(disk', history) /\ Older(disk')
      /\ \A fl, lv : Cover(disk, fl, lv) => Cover(disk', fl, lv)
      /\ \A s : Top(disk', s) <=> Top(disk, s)
      /\ \A s \in DOMAIN disk :
           /\ disk[s] \in SegmentType /\ disk'[s] \in SegmentType
           /\ disk'[s].epoch = disk[s].epoch
           /\ DOMAIN disk'[s].batches = DOMAIN disk[s].batches
           /\ \A k : Reaches(disk[s], k, {"synced"}) => Reaches(disk'[s], k, {"synced"})
  BY <1>3, <1>4, RelabelDisk
<1>6. Floor <= manifest.d /\ Floor' = manifest.d /\ Floor \in Nat /\ manifest.d \in Nat
  BY <1>1, Numbers DEF Floor, FrontierInv, OrderInv
<1>7. DiskInv'
  <2>1. Punched(disk', manifest.d)
    <3> SUFFICES ASSUME NEW s \in DOMAIN disk, NEW i \in DOMAIN disk[s].batches,
                        disk'[s].batches[i].punched
                 PROVE  disk'[s].batches[i].last <= manifest.d
      BY <1>4, <1>5 DEF Punched
    <3>1. disk[s].batches[i].punched /\ disk'[s].batches[i].last = disk[s].batches[i].last
      BY <1>3
    <3>2. disk[s].batches[i].last <= Floor /\ disk[s].batches[i].last \in Nat
      BY <3>1, Basics, FileTyped DEF LogInv, DiskInv, Punched
    <3> QED BY <1>6, <3>1, <3>2
  <2>2. Cover(disk, manifest.d, live')
    <3> SUFFICES ASSUME NEW s \in DOMAIN disk, NEW n \in 1..End(disk[s]),
                        manifest.d < n \/ n \in live'
                 PROVE  \E t \in DOMAIN disk : Has(disk[t], n)
      BY DEF Cover
    <3>1. n \in Nat
      BY Basics, FileTyped
    <3>2. Floor < n \/ n \in live
      BY <1>2, <1>6, <3>1
    <3> QED BY <3>2 DEF LogInv, DiskInv, Cover
  <2> QED BY <1>1, <1>5, <1>6, <2>1, <2>2 DEF DiskInv
<1>8. NamesInv'
  <2>1. \A s \in DOMAIN disk : 1 <= s /\ s <= highest'
    BY <1>1, Basics DEF LogInv, NamesInv
  <2> QED BY <1>1, <1>4, <2>1 DEF LogInv, NamesInv, Running
<1>9. CurrentInv' /\ RepairInv' /\ StatusInv' /\ ReclaimInv'
  BY <1>1 DEF CurrentInv, RepairInv, StatusInv, ReclaimInv, Running, Rotating, Idle
<1>10. AnchorInv'
  <2>1. promised \in Nat
    BY DEF TypeOK, LogOK
  <2>2. \A s \in DOMAIN disk' : Top(disk', s) => Reaches(disk'[s], promised, {"synced"})
    BY <1>4, <1>5 DEF LogInv, AnchorInv
  <2> QED BY <1>1, <2>1, <2>2 DEF LogInv, AnchorInv
<1>11. ASSUME attach' # 0, NEW s \in DOMAIN disk, Top(disk, s)
       PROVE  Reaches(disk'[s], acked, Intact)
  <2>1. ~power /\ attach # 0 /\ acked \in Nat
    BY <1>2, <1>11 DEF TypeOK, GuestOK
  <2>2. Reaches(disk[s], acked, Intact)
    <3>1. CASE ~Running
      BY <1>11, <2>1, <3>1 DEF LogInv, CarrierInv
    <3>2. CASE Running
      <4>1. acked <= published /\ published \in Nat /\ mode # "down"
        BY <2>1, <3>2, Numbers DEF LogInv, CarrierInv, Running
      <4>2. CASE job.kind = "created"
        <5>1. s = highest /\ disk[s].preceding = published
          BY <1>11, <4>2, Basics DEF LogInv, CurrentInv
        <5>2. acked <= disk[s].preceding
          BY <4>1, <5>1
        <5> QED BY <1>5, <5>2, ReachesEnd
      <4>3. CASE job.kind # "created"
        <5>1. s = current
          BY <1>11, <4>1, <4>3, Basics
        <5>2. Reaches(disk[s], published, Intact)
          BY <3>2, <5>1 DEF LogInv, StatusInv, PublishedAt, Reaches
        <5> QED BY <1>5, <2>1, <4>1, <5>2, ReachesLess
      <4> QED BY <4>2, <4>3
    <3> QED BY <3>1, <3>2
  <2>3. \A i \in DOMAIN disk[s].batches :
          disk[s].batches[i].st \in Intact => disk'[s].batches[i].st \in Intact
    BY <1>3, <2>1
  <2> QED BY <1>3, <1>5, <2>2, <2>3, SameReaches
<1>12. CarrierInv'
  <2>1. live' \subseteq 1..Len(history)
    BY <1>2 DEF LogInv, CarrierInv
  <2>2. ~Running' /\ ~Rotating'
    BY <1>1 DEF Running, Rotating, Idle
  <2>3. attach' # 0 => \A n \in (acked' + 1)..Len(history) : n \in live'
    BY <1>2 DEF LogInv, CarrierInv
  <2>4. attach' # 0 => \A s \in DOMAIN disk' : Top(disk', s) => disk'[s].epoch = attach'
    BY <1>2, <1>4, <1>5 DEF LogInv, CarrierInv
  <2>5. attach' # 0 => \A s \in DOMAIN disk' : Top(disk', s) => Reaches(disk'[s], acked', Intact)
    BY <1>2, <1>4, <1>5, <1>11
  <2> QED BY <1>1, <1>2, <2>1, <2>2, <2>3, <2>4, <2>5 DEF CarrierInv
<1>13. MapInv'
  BY <1>1 DEF LogInv, MapInv, Idle
<1> QED BY <1>7, <1>8, <1>9, <1>10, <1>12, <1>13 DEF LogInv

\* The recovered prefix reaches what was flushed, and what the carrier holds
\* to be published.
LEMMA PrefixReaches ==
  ASSUME TypeOK, FrontierInv, LogInv, mode = "down"
  PROVE  promised <= Prefix /\ (attach # 0 => acked <= Prefix)
<1>1. /\ Top(disk, Newest) /\ Newest \in DOMAIN disk /\ Keeps(disk[Newest], Good(Newest))
      /\ Prefix = Pre(disk[Newest], Good(Newest))
  BY KeptIs DEF Top
<1>2. disk[Newest] \in SegmentType /\ FileOK(disk[Newest], history)
      /\ promised \in Nat /\ acked \in Nat
  BY <1>1, Basics DEF TypeOK, LogOK, GuestOK
<1>3. ASSUME NEW k \in Nat, NEW S, Reaches(disk[Newest], k, S), "bad" \notin S
      PROVE  k <= Prefix
  BY <1>1, <1>2, <1>3, KeepsIs
<1>4. Reaches(disk[Newest], promised, {"synced"})
  BY <1>1 DEF LogInv, AnchorInv
<1>5. attach # 0 => Reaches(disk[Newest], acked, Intact)
  BY <1>1 DEF LogInv, CarrierInv, Running
<1>6. "bad" \notin {"synced"} /\ "bad" \notin Intact
  BY DEF Intact
<1> QED BY <1>2, <1>3, <1>4, <1>5, <1>6

\* Inspection reads its frontiers from the files.
LEMMA InspectLog ==
  ASSUME TypeOK, FrontierInv, LogInv, Inspect PROVE LogInv'
<1>1. /\ mode = "down" /\ mode' = "repair" /\ published' = Prefix /\ issued' = Prefix
      /\ base' = manifest /\ segs' = Kept /\ current' = Newest
      /\ UNCHANGED <<media, guest, failed, durable, fenced, cohort, job, plans,
                     promised, crashes>>
  BY DEF Inspect
<1>2. job = Idle /\ ~Running /\ ~Running' /\ ~Rotating' /\ mode' # "down"
  BY <1>1 DEF TypeOK, CurrentOK, Running, Rotating, Idle
<1>3. /\ Kept = DOMAIN disk /\ Top(disk, Newest) /\ Keeps(disk[Newest], Good(Newest))
      /\ Prefix = Pre(disk[Newest], Good(Newest))
  BY <1>1, KeptIs
<1>4. promised <= Prefix /\ (attach # 0 => acked <= Prefix)
  BY <1>1, PrefixReaches
<1>5. DiskInv'
  <2>1. Floor' = Floor
    BY <1>1 DEF Floor
  <2> QED BY <1>1, <2>1 DEF LogInv, DiskInv
<1>6. NamesInv' /\ StatusInv' /\ ReclaimInv'
  BY <1>1, <1>2 DEF LogInv, NamesInv, StatusInv, ReclaimInv, Idle
<1>7. CurrentInv'
  BY <1>1, <1>2, <1>3 DEF CurrentInv, Top, Idle
<1>8. RepairInv'
  BY <1>1, <1>3 DEF RepairInv
<1>9. AnchorInv'
  BY <1>1, <1>4 DEF LogInv, AnchorInv
<1>10. CarrierInv'
  BY <1>1, <1>2, <1>4 DEF LogInv, CarrierInv
<1>11. MapInv'
  BY <1>1, <1>2 DEF LogInv, MapInv, Idle
<1> QED BY <1>5, <1>6, <1>7, <1>8, <1>9, <1>10, <1>11 DEF LogInv

-----------------------------------------------------------------------------
(* Every step preserves the invariant.                                     *)

\* Steps of the sequencer and of the guest.
LEMMA FrontLog ==
  ASSUME TypeOK, TypeOK', FrontierInv, LogInv, AppendStep \/ GuestStep \/ Fail
  PROVE  LogInv'
<1>1. CASE AppendStep
  BY <1>1, PrepareAppendLog, WriteCompleteLog, PublishAppendLog,
    PrepareFenceLog, SyncDataLog, CompleteSyncLog DEF AppendStep
<1>2. CASE GuestStep
  BY <1>2, AdmitLog, RetireLog, AttachLog, ReadFailLog DEF GuestStep
<1>3. CASE Fail
  BY <1>3, ReadFailLog
<1> QED BY <1>1, <1>2, <1>3

\* Steps of the background worker.
LEMMA WorkerLog ==
  ASSUME TypeOK, TypeOK', FrontierInv, LogInv, WorkerStep
  PROVE  LogInv'
<1>1. CASE \/ \E fresh \in BOOLEAN : PrepareRotation(fresh)
           \/ BeginCreate \/ FinishCreate \/ InstallRotation
  BY <1>1, PrepareRotationLog, BeginCreateLog, FinishCreateLog,
    InstallRotationLog
<1>2. CASE CancelRotation \/ SelectCompaction \/ LoadError \/ DeferCompaction
             \/ ApplyReclamation
  BY <1>2, JobLog
<1>3. CASE LoadCompaction \/ PublishManifest \/ PublishCompaction
             \/ SelectReclamation
  BY <1>3, LoadCompactionLog, PublishManifestLog, PublishCompactionLog,
    SelectReclamationLog
<1>4. CASE \E s \in job.todo : PunchSegment(s) \/ UnlinkSegment(s)
  BY <1>4, PunchSegmentLog, UnlinkSegmentLog
<1> QED BY <1>1, <1>2, <1>3, <1>4 DEF WorkerStep

\* Every step, with the stuttering one.
LEMMA NextLog ==
  TypeOK /\ TypeOK' /\ FrontierInv /\ LogInv /\ [Next]_vars => LogInv'
<1> SUFFICES ASSUME TypeOK, TypeOK', FrontierInv, LogInv, [Next]_vars
             PROVE  LogInv'
  OBVIOUS
<1>1. CASE AppendStep \/ GuestStep \/ Fail
  BY <1>1, FrontLog
<1>2. CASE WorkerStep
  BY <1>2, WorkerLog
<1>3. CASE RecoveryStep
  BY <1>3, InspectLog, StartRecoveredLog, FinishRecoveryLog, RepairFileLog
    DEF RecoveryStep
<1>4. CASE CrashStep
  BY <1>4, CrashLog DEF CrashStep
<1>5. CASE UNCHANGED vars
  BY <1>5, QuietLog DEF vars
<1> QED BY <1>1, <1>2, <1>3, <1>4, <1>5 DEF Next

\* The files always hold every mutation above D or in flight, each once and
\* in order; only the newest file has batches that are not on the platter;
\* what a FLUSH reported is in it or precedes it; and every view of the log is
\* the image at its D.
THEOREM LogInvariant == Spec => []LogInv
<1>1. Spec => [](TypeOK /\ FrontierInv)
  BY TypeCorrect, InitFrontier, NextFrontier, PTL DEF Spec
<1>2. Init => LogInv
  BY InitLog
<1> QED BY <1>1, <1>2, NextLog, PTL DEF Spec

-----------------------------------------------------------------------------
(* A crash loses nothing.                                                  *)

\* A batch that covers n is a place of n.
LEMMA PlaceOf ==
  ASSUME TypeOK, FrontierInv, LogInv, NEW S, NEW t \in S, t \in DOMAIN disk,
         NEW i \in DOMAIN disk[t].batches, NEW n, Covers(disk[t].batches[i], n)
  PROVE  <<t, i>> \in Places(S, n)
<1>1. /\ DOMAIN disk[t].batches = 1..Len(disk[t].batches)
      /\ Len(disk[t].batches) \in Nat /\ Len(disk[t].batches) <= Capacity
  BY Basics, FileTyped DEF FileOK
<1>2. i \in 1..Capacity /\ i <= Len(disk[t].batches)
  BY <1>1, ConstantsAssumption
<1> QED BY <1>2 DEF Places

\* After a crash, what was flushed is recovered with its contents.
LEMMA FlushedIs ==
  ASSUME TypeOK, FrontierInv, LogInv PROVE FlushedSurvives
<1> SUFFICES ASSUME mode = "down"
             PROVE  /\ Kept # {} /\ Prefix >= promised
                    /\ manifest.map = Content(manifest.d)
                    /\ \A n \in (manifest.d + 1)..Prefix : Stored(Kept, n) = history[n]
  BY DEF FlushedSurvives
<1>1. /\ Kept = DOMAIN disk /\ Newest \in DOMAIN disk /\ Prefix \in Nat
      /\ Prefix <= End(disk[Newest]) /\ promised \in Nat /\ manifest.d \in Nat
  BY KeptIs, Numbers DEF Top, TypeOK, LogOK
<1>2. Prefix >= promised
  BY <1>1, PrefixReaches
<1>3. manifest.map = Content(manifest.d)
  BY DEF LogInv, MapInv, Content, Image
<1>4. ASSUME NEW n \in (manifest.d + 1)..Prefix PROVE Stored(Kept, n) = history[n]
  <2>1. End(disk[Newest]) \in Nat
    BY <1>1, Basics, FileTyped
  <2>2. n \in 1..End(disk[Newest]) /\ manifest.d < n /\ n \in Int
    BY <1>1, <2>1
  <2>3. PICK t \in DOMAIN disk : Has(disk[t], n)
    BY <1>1, <2>2 DEF LogInv, DiskInv, Cover, Floor
  <2>4. Places(Kept, n) # {}
    BY <1>1, <2>3, PlaceOf DEF Has
  <2> QED BY <2>2, <2>4, StoredIs
<1> QED BY <1>1, <1>2, <1>3, <1>4

\* After a crash, a retained carrier is accepted.
LEMMA LiveIs ==
  ASSUME TypeOK, FrontierInv, LogInv PROVE LiveRecoverable
<1> SUFFICES ASSUME mode = "down", attach # 0 PROVE LiveOk
  BY DEF LiveRecoverable
<1>1. /\ Kept = DOMAIN disk /\ Top(disk, Newest) /\ Newest \in DOMAIN disk
      /\ Prefix \in Nat /\ Prefix <= End(disk[Newest])
      /\ Prefix = Pre(disk[Newest], Good(Newest)) /\ acked \in Nat
      /\ disk[Newest] \in SegmentType /\ FileOK(disk[Newest], history)
      /\ Len(history) \in Nat
  BY KeptIs, Basics DEF Top, TypeOK, GuestOK
<1>2. acked <= Prefix
  BY PrefixReaches
<1>3. attach = disk[Newest].epoch
  BY <1>1 DEF LogInv, CarrierInv
<1>4. End(disk[Newest]) \in Nat /\ Prefix <= Len(history)
  BY <1>1, EndIs, FileTyped
<1>5. (Prefix + 1)..Len(history) \subseteq live
  BY <1>1, <1>2 DEF LogInv, CarrierInv
<1>6. ASSUME NEW n \in live, n <= Prefix
      PROVE  \E p \in Places(Kept, n) :
               p[2] <= Good(p[1]) /\ At(disk[p[1]].batches[p[2]], n) = history[n]
  <2>1. n \in 1..Len(history)
    BY DEF LogInv, CarrierInv
  <2>2. n \in 1..End(disk[Newest]) /\ n \in Int
    BY <1>1, <1>4, <1>6, <2>1
  <2>3. PICK t \in DOMAIN disk : Has(disk[t], n)
    BY <1>1, <2>2 DEF LogInv, DiskInv, Cover
  <2>4. disk[t] \in SegmentType /\ FileOK(disk[t], history)
        /\ DOMAIN disk[t].batches = 1..Len(disk[t].batches)
        /\ Len(disk[t].batches) \in Nat
    BY Basics, FileTyped
  <2>5. PICK i \in 1..Len(disk[t].batches) : Covers(disk[t].batches[i], n)
    BY <2>3, <2>4 DEF Has
  <2>6. <<t, i>> \in Places(Kept, n)
    BY <1>1, <2>4, <2>5, PlaceOf
  <2>7. At(disk[t].batches[i], n) = history[n] /\ Pre(disk[t], i - 1) < n
    BY <2>2, <2>4, <2>5, CoversIs
  <2>8. Keeps(disk[t], Good(t)) /\ Good(t) \in 0..Len(disk[t].batches)
    BY GoodIs DEF Running, Keeps
  <2>9. i <= Good(t)
    <3>1. CASE t = Newest
      <4> SUFFICES ASSUME Good(t) <= i - 1 PROVE FALSE
        BY <2>4, <2>8
      <4>1. i - 1 \in 0..Len(disk[t].batches)
        BY <2>4
      <4>2. Pre(disk[t], Good(t)) <= Pre(disk[t], i - 1)
        BY <2>4, <2>8, <4>1 DEF FileOK
      <4>3. Pre(disk[t], Good(t)) \in Nat /\ Pre(disk[t], i - 1) \in Nat
        BY <2>4, <2>8, <4>1, FileTyped
      <4> QED BY <1>1, <1>6, <2>2, <2>7, <3>1, <4>2, <4>3
    <3>2. CASE t # Newest
      <4>1. t < Newest
        BY <1>1, <3>2, Basics DEF Top
      <4>2. AllSynced(disk[t])
        BY <1>1, <4>1 DEF LogInv, DiskInv, Older
      <4>3. ~(Good(t) < Len(disk[t].batches))
        <5> SUFFICES ASSUME Good(t) < Len(disk[t].batches) PROVE FALSE
          OBVIOUS
        <5>1. Good(t) + 1 \in DOMAIN disk[t].batches
          BY <2>4, <2>8
        <5> QED BY <2>8, <4>2, <5>1 DEF Keeps, AllSynced
      <4> QED BY <2>4, <2>8, <4>3
    <3> QED BY <3>1, <3>2
  <2>10. <<t, i>>[1] = t /\ <<t, i>>[2] = i
    OBVIOUS
  <2> QED BY <2>6, <2>7, <2>9, <2>10
<1> QED BY <1>1, <1>2, <1>3, <1>4, <1>5, <1>6 DEF LiveOk

\* Whatever instant a process crash or a power loss comes at, and however
\* often it comes: Log::inspect_in recovers a prefix that reaches everything
\* a FLUSH reported durable, the files and the manifest hold it with the
\* contents it had, and Recovery::prepare_live accepts a retained carrier.
THEOREM CrashesLoseNothing == Spec => []CrashLosesNothing
<1>1. TypeOK /\ FrontierInv /\ LogInv => CrashLosesNothing
  BY FlushedIs, LiveIs DEF CrashLosesNothing
<1>2. Spec => [](TypeOK /\ FrontierInv)
  BY TypeCorrect, InitFrontier, NextFrontier, PTL DEF Spec
<1> QED BY <1>1, <1>2, LogInvariant, PTL

-----------------------------------------------------------------------------
(* The inductive invariant of index and read plans.                        *)

\* The index maps each block to its newest mutation above D.
IndexInv ==
  mode # "down" =>
    \A b \in Blocks : index[b] = LastTouch(history, base.d, published, b)

\* A batch of the segment the plan pins still holds the payload it reads.
Held(d, p) ==
  /\ p.seg \in DOMAIN d
  /\ \E i \in DOMAIN d[p.seg].batches :
       Covers(d[p.seg].batches[i], p.seq) /\ ~d[p.seg].batches[i].punched

\* The plan p names the newest mutation of its block at its capture, or holds
\* the value the block had.
Snapshot(p, h) ==
  /\ p.block \in Blocks
  /\ p.seq = 0 => p.value = Image(h, p.upto)[p.block]
  /\ p.seq # 0 => p.seq = LastTouch(h, 0, p.upto, p.block)

PlanInv ==
  \A r \in Readers : plans[r].on =>
    /\ mode = "serving" /\ plans[r].upto <= published
    /\ Snapshot(plans[r], history)
    /\ plans[r].seq # 0 => Held(disk, plans[r])

ViewInv == IndexInv /\ PlanInv

\* Plans as records.
LEMMA PlanTyped ==
  ASSUME TypeOK, NEW r \in Readers
  PROVE  plans[r] \in PlanType /\ plans[r].upto \in Nat /\ plans[r].seq \in Nat
BY DEF TypeOK, GuestOK, PlanType

\* A snapshot only depends on the mutations up to its capture.
LEMMA SnapshotSame ==
  ASSUME NEW p, NEW h, NEW k, p.upto \in Nat,
         \A n \in 1..p.upto : h[n] = k[n], Snapshot(p, h)
  PROVE  Snapshot(p, k)
<1>1. Image(k, p.upto) = Image(h, p.upto)
  BY ImageSame
<1>2. LastTouch(h, 0, p.upto, p.block) = LastTouch(k, 0, p.upto, p.block)
  <2>1. \A n \in (0 + 1)..p.upto : h[n] = k[n]
    OBVIOUS
  <2> QED BY <2>1, LastTouchSame
<1> QED BY <1>1, <1>2 DEF Snapshot

\* A step that leaves index, base view and plans alone, keeps the published
\* history and the batches that plans pin.
LEMMA ViewKept ==
  ASSUME TypeOK, FrontierInv, LogInv, ViewInv,
         UNCHANGED <<index, base, published, plans>>,
         \A n \in 1..published : history'[n] = history[n],
         mode' # "down" => mode # "down", mode = "serving" => mode' = "serving",
         \A r \in Readers : plans[r].on /\ Held(disk, plans[r]) => Held(disk', plans[r])
  PROVE  ViewInv'
<1>1. published \in Nat /\ base.d \in Nat
  BY Numbers
<1>2. IndexInv'
  <2> SUFFICES ASSUME mode' # "down", NEW b \in Blocks
               PROVE  index[b] = LastTouch(history', base.d, published, b)
    BY DEF IndexInv
  <2>1. \A n \in (base.d + 1)..published : history[n] = history'[n]
    BY <1>1
  <2>2. LastTouch(history, base.d, published, b) = LastTouch(history', base.d, published, b)
    BY <1>1, <2>1, LastTouchSame
  <2> QED BY <2>2 DEF ViewInv, IndexInv
<1>3. PlanInv'
  <2> SUFFICES ASSUME NEW r \in Readers, plans[r].on
               PROVE  /\ mode' = "serving" /\ plans[r].upto <= published
                      /\ Snapshot(plans[r], history')
                      /\ plans[r].seq # 0 => Held(disk', plans[r])
    BY DEF PlanInv
  <2>1. /\ mode = "serving" /\ plans[r].upto <= published
        /\ Snapshot(plans[r], history)
        /\ plans[r].seq # 0 => Held(disk, plans[r])
    BY DEF ViewInv, PlanInv
  <2>2. plans[r].upto \in Nat
    BY PlanTyped
  <2>3. \A n \in 1..plans[r].upto : history[n] = history'[n]
    BY <1>1, <2>1, <2>2
  <2>4. Snapshot(plans[r], history')
    BY <2>1, <2>2, <2>3, SnapshotSame
  <2> QED BY <2>1, <2>4
<1> QED BY <1>2, <1>3 DEF ViewInv

\* A step that does not touch the files either.
LEMMA ViewQuiet ==
  ASSUME TypeOK, FrontierInv, LogInv, ViewInv,
         UNCHANGED <<index, base, published, plans, disk, history>>,
         mode' # "down" => mode # "down", mode = "serving" => mode' = "serving"
  PROVE  ViewInv'
BY ViewKept

\* The newest mutation of a block, and its value, from index and base view.
LEMMA PublishedImage ==
  ASSUME TypeOK, FrontierInv, LogInv, ViewInv, mode # "down", NEW b \in Blocks
  PROVE  LET n == index[b]
         IN  /\ n \in Nat /\ (n # 0 => base.d < n /\ n <= published)
             /\ n # 0 => n = LastTouch(history, 0, published, b)
             /\ Image(history, published)[b] =
                  IF n = 0 THEN base.map[b] ELSE Value(n, history[n])
<1>1. /\ base.d \in Nat /\ published \in Nat /\ base.d <= published
      /\ base.map = Image(history, base.d)
  BY Numbers DEF FrontierInv, OrderInv, LogInv, MapInv
<1>2. PICK n : n = index[b]
  OBVIOUS
<1>3. n = LastTouch(history, base.d, published, b)
  BY <1>2 DEF ViewInv, IndexInv
<1>4. n \in Nat /\ (n # 0 => base.d < n /\ n <= published)
  <2>1. IsLast(history, base.d, published, b, n)
    BY <1>1, <1>3, LastTouchIs
  <2> QED BY <1>1, <2>1 DEF IsLast
<1>5. LastTouch(history, 0, published, b)
        = IF n = 0 THEN LastTouch(history, 0, base.d, b) ELSE n
  <2>1. 0 \in Nat /\ 0 <= base.d
    BY <1>1
  <2> QED BY <1>1, <1>3, <2>1, LastTouchSplit
<1>6. CASE n = 0
  <2>1. Image(history, published)[b] = Image(history, base.d)[b]
    BY <1>1, <1>5, <1>6, ImageIs
  <2> QED BY <1>1, <1>2, <1>4, <1>6, <2>1
<1>7. CASE n # 0
  <2>1. Image(history, published)[b] = Value(n, history[n])
    BY <1>1, <1>5, <1>7, ImageIs
  <2> QED BY <1>2, <1>4, <1>5, <1>7, <2>1
<1> QED BY <1>6, <1>7

\* A batch that covers a mutation above D is not punched.
LEMMA NotPunched ==
  ASSUME TypeOK, FrontierInv, LogInv, mode # "down", NEW s \in DOMAIN disk,
         NEW i \in DOMAIN disk[s].batches, NEW n \in Nat, base.d < n,
         Covers(disk[s].batches[i], n)
  PROVE  ~disk[s].batches[i].punched
<1>1. disk[s].batches[i].last \in Nat /\ base.d \in Nat
  BY Basics, FileTyped, Numbers
<1>2. n <= disk[s].batches[i].last
  BY DEF Covers
<1>3. disk[s].batches[i].punched => disk[s].batches[i].last <= base.d
  BY DEF LogInv, DiskInv, Punched, Floor
<1> QED BY <1>1, <1>2, <1>3

-----------------------------------------------------------------------------
(* One lemma per action that moves the view.                               *)

\* A published batch replaces what the index maps for its blocks.
LEMMA PublishAppendView ==
  ASSUME TypeOK, FrontierInv, LogInv, ViewInv, NEW i \in 1..Capacity,
         PublishAppend(i)
  PROVE  ViewInv'
<1> DEFINE bt == disk[current].batches[i]
<1>1. /\ mode # "down" /\ i \in DOMAIN disk[current].batches
      /\ First(bt) = published + 1 /\ published' = bt.last
      /\ index' = [b \in Blocks |->
                     LET n == LastTouch(history, published, bt.last, b)
                     IN  IF n = 0 THEN index[b] ELSE n]
      /\ UNCHANGED <<disk, history, mode, base, plans>>
  BY DEF PublishAppend, Healthy
<1>2. bt.last \in Nat /\ Len(bt.data) \in Nat
  BY <1>1, Basics, FileTyped
<1>3. /\ published \in Nat /\ base.d \in Nat /\ base.d <= published
      /\ published <= bt.last
  <2>1. bt.last - Len(bt.data) + 1 = published + 1
    BY <1>1 DEF First
  <2>2. published \in Nat /\ base.d \in Nat /\ base.d <= published
    BY <1>1, Numbers DEF FrontierInv, OrderInv
  <2> HIDE DEF bt
  <2> QED BY <1>2, <2>1, <2>2
<1>4. IndexInv'
  <2> SUFFICES ASSUME NEW b \in Blocks
               PROVE  index'[b] = LastTouch(history, base.d, bt.last, b)
    BY <1>1 DEF IndexInv
  <2>1. index[b] = LastTouch(history, base.d, published, b)
    BY <1>1 DEF ViewInv, IndexInv
  <2>2. index'[b] = IF LastTouch(history, published, bt.last, b) = 0 THEN index[b]
                    ELSE LastTouch(history, published, bt.last, b)
    BY <1>1
  <2> HIDE DEF bt
  <2>3. LastTouch(history, base.d, bt.last, b)
          = IF LastTouch(history, published, bt.last, b) = 0
            THEN LastTouch(history, base.d, published, b)
            ELSE LastTouch(history, published, bt.last, b)
    <3>1. PICK e \in Nat : e = bt.last
      BY <1>2
    <3>2. PICK u : u = LastTouch(history, published, e, b)
      OBVIOUS
    <3>3. LastTouch(history, base.d, e, b)
            = IF u = 0 THEN LastTouch(history, base.d, published, b) ELSE u
      BY <1>3, <3>1, <3>2, LastTouchSplit
    <3> QED BY <3>1, <3>2, <3>3
  <2> QED BY <2>1, <2>2, <2>3
<1>5. PlanInv'
  <2> SUFFICES ASSUME NEW r \in Readers, plans[r].on PROVE plans[r].upto <= bt.last
    BY <1>1 DEF ViewInv, PlanInv
  <2>1. plans[r].upto \in Nat /\ plans[r].upto <= published
    BY PlanTyped DEF ViewInv, PlanInv
  <2> HIDE DEF bt
  <2> QED BY <1>2, <1>3, <2>1
<1> QED BY <1>4, <1>5 DEF ViewInv

\* Above the new D the index is what it was; below, the new view supplies it.
LEMMA PublishCompactionView ==
  ASSUME TypeOK, FrontierInv, LogInv, ViewInv, PublishCompaction
  PROVE  ViewInv'
<1> DEFINE d == job.view.d
<1>1. /\ mode # "down" /\ job.kind = "output" /\ index' = RetainAfter(d)
      /\ base' = job.view /\ UNCHANGED <<disk, history, mode, published, plans>>
  BY DEF PublishCompaction, Healthy
<1>2. /\ d \in Nat /\ base.d \in Nat /\ published \in Nat
      /\ base.d <= d /\ d <= published
  BY <1>1, Numbers DEF FrontierInv, OrderInv, JobInv
<1>3. IndexInv'
  <2> SUFFICES ASSUME NEW b \in Blocks
               PROVE  index'[b] = LastTouch(history, d, published, b)
    BY <1>1 DEF IndexInv
  <2>1. PICK u : u = LastTouch(history, d, published, b)
    OBVIOUS
  <2>2. PICK v : v = LastTouch(history, base.d, d, b)
    OBVIOUS
  <2>3. index[b] = IF u = 0 THEN v ELSE u
    <3>1. index[b] = LastTouch(history, base.d, published, b)
      BY <1>1 DEF ViewInv, IndexInv
    <3> HIDE DEF d
    <3> QED BY <1>2, <2>1, <2>2, <3>1, LastTouchSplit
  <2>4. (u # 0 => u > d) /\ v <= d
    <3> HIDE DEF d
    <3> QED BY <1>2, <2>1, <2>2, LastTouchSplit
  <2>5. u \in Nat /\ v \in Nat
    <3> HIDE DEF d
    <3>1. IsLast(history, d, published, b, u) /\ IsLast(history, base.d, d, b, v)
      BY <1>2, <2>1, <2>2, LastTouchIs
    <3> QED BY <1>2, <3>1 DEF IsLast
  <2>6. index'[b] = IF index[b] > d THEN index[b] ELSE 0
    BY <1>1 DEF RetainAfter
  <2> HIDE DEF d
  <2> QED BY <1>2, <2>1, <2>3, <2>4, <2>5, <2>6
<1>4. PlanInv'
  BY <1>1 DEF ViewInv, PlanInv
<1> QED BY <1>3, <1>4 DEF ViewInv

\* A captured plan is a snapshot of the published image.
LEMMA ReadPlanView ==
  ASSUME TypeOK, FrontierInv, LogInv, ViewInv, NEW r \in Readers, NEW b \in Blocks,
         ReadPlan(r, b)
  PROVE  ViewInv'
<1> DEFINE n == index[b]
           staged == n # 0 /\ ~history[n].zero
<1>1. /\ mode = "serving" /\ UNCHANGED <<disk, history, mode, index, base, published>>
  BY DEF ReadPlan
<1>2. PICK s \in (IF staged THEN {p[1] : p \in Places(segs, n)} ELSE {0}) :
        plans' = [plans EXCEPT ![r] =
           [on |-> TRUE, block |-> b, upto |-> published,
            seq |-> IF staged THEN n ELSE 0, seg |-> s,
            value |-> IF n = 0 THEN base.map[b] ELSE Zero]]
  BY DEF ReadPlan
<1>3. PICK w : w = [on |-> TRUE, block |-> b, upto |-> published,
                    seq |-> IF staged THEN n ELSE 0, seg |-> s,
                    value |-> IF n = 0 THEN base.map[b] ELSE Zero]
  OBVIOUS
<1>4. plans' = [plans EXCEPT ![r] = w]
  BY <1>2, <1>3
<1>5. /\ w.block = b /\ w.upto = published /\ w.seg = s
      /\ w.seq = (IF staged THEN n ELSE 0)
      /\ w.value = IF n = 0 THEN base.map[b] ELSE Zero
  BY <1>3
<1>6. plans'[r] = w /\ \A q \in Readers : q # r => plans'[q] = plans[q]
  BY <1>4 DEF TypeOK, GuestOK
<1>7. /\ n \in Nat /\ (n # 0 => base.d < n /\ n <= published)
      /\ n # 0 => n = LastTouch(history, 0, published, b)
      /\ Image(history, published)[b] =
           IF n = 0 THEN base.map[b] ELSE Value(n, history[n])
  BY <1>1, PublishedImage
<1>8. Snapshot(w, history)
  <2>1. CASE staged
    BY <1>5, <1>7, <2>1 DEF Snapshot
  <2>2. CASE ~staged
    <3>1. n # 0 => Value(n, history[n]) = Zero
      BY <2>2 DEF Value
    <3> QED BY <1>5, <1>7, <2>2, <3>1 DEF Snapshot
  <2> QED BY <2>1, <2>2
<1>9. w.seq # 0 => Held(disk, w)
  <2> SUFFICES ASSUME w.seq # 0 PROVE Held(disk, w)
    OBVIOUS
  <2>1. staged /\ w.seq = n
    BY <1>5
  <2>2. PICK p \in Places(segs, n) : s = p[1]
    BY <1>2, <2>1
  <2>3. /\ p[1] \in DOMAIN disk /\ p[2] \in 1..Capacity
        /\ p[2] <= Len(disk[p[1]].batches) /\ Covers(disk[p[1]].batches[p[2]], n)
    BY DEF Places
  <2>4. p[2] \in DOMAIN disk[p[1]].batches
    BY <2>3, Basics, FileTyped, ConstantsAssumption
  <2>5. ~disk[p[1]].batches[p[2]].punched
    <3>1. base.d < n /\ n \in Nat /\ mode # "down"
      BY <1>1, <1>7, <2>1
    <3> HIDE DEF n
    <3> QED BY <2>3, <2>4, <3>1, NotPunched
  <2> QED BY <1>5, <2>1, <2>2, <2>3, <2>4, <2>5 DEF Held
<1>10. PlanInv'
  <2> SUFFICES ASSUME NEW q \in Readers, plans'[q].on
               PROVE  /\ mode = "serving" /\ plans'[q].upto <= published
                      /\ Snapshot(plans'[q], history)
                      /\ plans'[q].seq # 0 => Held(disk, plans'[q])
    BY <1>1 DEF PlanInv
  <2>1. CASE q = r
    BY <1>1, <1>5, <1>6, <1>8, <1>9, <2>1, Numbers
  <2>2. CASE q # r
    BY <1>6, <2>2 DEF ViewInv, PlanInv
  <2> QED BY <2>1, <2>2
<1>11. IndexInv'
  BY <1>1 DEF ViewInv, IndexInv
<1> QED BY <1>10, <1>11 DEF ViewInv

\* A completed read leaves the others alone.
LEMMA ReadDoneView ==
  ASSUME TypeOK, ViewInv, NEW r \in Readers, ReadDone(r) PROVE ViewInv'
<1>1. /\ plans' = [plans EXCEPT ![r] = NoPlan]
      /\ UNCHANGED <<disk, history, mode, index, base, published>>
  BY DEF ReadDone
<1>2. \A q \in Readers : plans'[q] = IF q = r THEN NoPlan ELSE plans[q]
  BY <1>1 DEF TypeOK, GuestOK
<1>3. ~NoPlan.on
  BY DEF NoPlan
<1>4. PlanInv'
  BY <1>1, <1>2, <1>3 DEF ViewInv, PlanInv
<1>5. IndexInv'
  BY <1>1 DEF ViewInv, IndexInv
<1> QED BY <1>4, <1>5 DEF ViewInv

\* Inspection indexes what the files hold above the manifest.
LEMMA InspectView ==
  ASSUME TypeOK, FrontierInv, LogInv, ViewInv, Inspect PROVE ViewInv'
<1>1. /\ mode = "down" /\ published' = Prefix /\ base' = manifest
      /\ index' = [b \in Blocks |->
                     LastTouch(Recorded(Kept, manifest.d, Prefix), manifest.d, Prefix, b)]
      /\ UNCHANGED <<history, plans>>
  BY DEF Inspect
<1>2. manifest.d \in Nat /\ Prefix \in Nat
  BY <1>1, KeptIs, Numbers
<1>3. \A n \in (manifest.d + 1)..Prefix :
        Recorded(Kept, manifest.d, Prefix)[n] = history[n]
  BY <1>1, FlushedIs DEF FlushedSurvives, Recorded
<1>4. \A b \in Blocks :
        LastTouch(Recorded(Kept, manifest.d, Prefix), manifest.d, Prefix, b)
          = LastTouch(history, manifest.d, Prefix, b)
  BY <1>2, <1>3, LastTouchSame
<1>5. IndexInv'
  BY <1>1, <1>4 DEF IndexInv
<1>6. PlanInv'
  BY <1>1 DEF ViewInv, PlanInv
<1> QED BY <1>5, <1>6 DEF ViewInv

\* A cold start forgets only what was not published.
LEMMA StartRecoveredView ==
  ASSUME TypeOK, FrontierInv, LogInv, ViewInv, StartRecovered PROVE ViewInv'
<1>1. /\ mode = "repair" /\ mode' # "down"
      /\ history' = (IF attach = 0 THEN Truncate(history, published) ELSE history)
      /\ UNCHANGED <<index, base, published, plans>>
  BY DEF StartRecovered
<1>2. published \in Nat /\ published <= Len(history) /\ history \in Seq(Mutation)
  BY <1>1, Basics, Numbers
<1>3. \A n \in 1..published : history'[n] = history[n]
  BY <1>1, <1>2, TruncateIs
<1>4. \A r \in Readers : ~plans[r].on
  BY <1>1 DEF ViewInv, PlanInv
<1> QED BY <1>1, <1>3, <1>4, ViewKept

-----------------------------------------------------------------------------
(* Steps that change the files keep what plans pin.                        *)

\* Appending keeps every batch.
LEMMA AppendView ==
  ASSUME TypeOK, FrontierInv, LogInv, ViewInv, mode # "down", NEW bt,
         disk' = [disk EXCEPT ![current].batches = Append(@, bt)],
         UNCHANGED <<index, base, published, plans, history, mode>>
  PROVE  ViewInv'
<1> DEFINE bs == disk[current].batches
           new == Append(bs, bt)
<1>1. /\ current \in DOMAIN disk /\ disk[current] \in SegmentType
      /\ bs \in Seq(BatchType)
  BY Basics, FileTyped
<1>2. /\ DOMAIN bs \subseteq DOMAIN new /\ \A i \in DOMAIN bs : new[i] = bs[i]
  BY <1>1
<1>3. disk' = [disk EXCEPT ![current].batches = new]
  OBVIOUS
<1> HIDE DEF new
<1>4. /\ DOMAIN disk' = DOMAIN disk /\ disk'[current].batches = new
      /\ \A s \in DOMAIN disk : s # current => disk'[s] = disk[s]
  BY <1>1, <1>3 DEF SegmentType
<1>5. ASSUME NEW p, Held(disk, p) PROVE Held(disk', p)
  <2>1. CASE p.seg = current
    BY <1>2, <1>4, <1>5, <2>1 DEF Held
  <2>2. CASE p.seg # current
    BY <1>4, <1>5, <2>2 DEF Held
  <2> QED BY <2>1, <2>2
<1> QED BY <1>5, ViewKept

\* A step that changes batch states only.
LEMMA RelabelView ==
  ASSUME TypeOK, FrontierInv, LogInv, ViewInv, mode # "down", NEW new,
         disk' = [disk EXCEPT ![current].batches = new],
         DOMAIN new = DOMAIN disk[current].batches,
         \A i \in DOMAIN new : /\ new[i].last = disk[current].batches[i].last
                               /\ new[i].data = disk[current].batches[i].data
                               /\ new[i].punched = disk[current].batches[i].punched,
         UNCHANGED <<index, base, published, plans, history, mode>>
  PROVE  ViewInv'
<1>1. current \in DOMAIN disk /\ disk[current] \in SegmentType
  BY Basics
<1>2. /\ DOMAIN disk' = DOMAIN disk /\ disk'[current].batches = new
      /\ \A s \in DOMAIN disk : s # current => disk'[s] = disk[s]
  BY <1>1 DEF SegmentType
<1>3. \A i \in DOMAIN new : \A n :
        Covers(disk[current].batches[i], n) => Covers(new[i], n)
  BY DEF Covers, First
<1>4. ASSUME NEW p, Held(disk, p) PROVE Held(disk', p)
  <2>1. CASE p.seg = current
    BY <1>2, <1>3, <1>4, <2>1 DEF Held
  <2>2. CASE p.seg # current
    BY <1>2, <1>4, <2>2 DEF Held
  <2> QED BY <2>1, <2>2
<1> QED BY <1>4, ViewKept

\* A completed write.
LEMMA WriteCompleteView ==
  ASSUME TypeOK, FrontierInv, LogInv, ViewInv, NEW i \in 1..Capacity,
         WriteComplete(i)
  PROVE  ViewInv'
<1> DEFINE bs == disk[current].batches
           new == [bs EXCEPT ![i] = [@ EXCEPT !.st = "written"]]
<1>1. /\ mode # "down" /\ i \in DOMAIN bs
      /\ UNCHANGED <<index, base, published, plans, history, mode>>
  BY DEF WriteComplete
<1>2. current \in DOMAIN disk /\ \A k \in DOMAIN bs : bs[k] \in BatchType
  BY <1>1, Basics, FileTyped
<1>3. disk' = [disk EXCEPT ![current].batches = new]
  BY <1>1, <1>2 DEF WriteComplete
<1>4. /\ DOMAIN new = DOMAIN bs
      /\ \A k \in DOMAIN bs : k # i => new[k] = bs[k]
      /\ new[i].last = bs[i].last /\ new[i].data = bs[i].data
      /\ new[i].punched = bs[i].punched
  BY <1>1, <1>2 DEF BatchType
<1>5. \A k \in DOMAIN new : /\ new[k].last = bs[k].last /\ new[k].data = bs[k].data
                            /\ new[k].punched = bs[k].punched
  <2> HIDE DEF new, bs
  <2> QED BY <1>4
<1> HIDE DEF new
<1> QED BY <1>1, <1>3, <1>4, <1>5, RelabelView

\* A sync.
LEMMA SyncDataView ==
  ASSUME TypeOK, FrontierInv, LogInv, ViewInv, SyncData PROVE ViewInv'
<1>1. /\ mode # "down" /\ disk' = [disk EXCEPT ![current].batches = Synced(@)]
      /\ UNCHANGED <<index, base, published, plans, history, mode>>
  BY DEF SyncData, ReadyToSync, Healthy
<1>2. current \in DOMAIN disk /\ disk[current].batches \in Seq(BatchType)
  BY <1>1, Basics, FileTyped
<1>3. PICK new : new = Synced(disk[current].batches)
  OBVIOUS
<1>4. disk' = [disk EXCEPT ![current].batches = new]
  BY <1>1, <1>2, <1>3
<1>5. /\ DOMAIN new = DOMAIN disk[current].batches
      /\ \A i \in DOMAIN new : /\ new[i].last = disk[current].batches[i].last
                               /\ new[i].data = disk[current].batches[i].data
                               /\ new[i].punched = disk[current].batches[i].punched
  BY <1>2, <1>3, SyncedIs
<1> QED BY <1>1, <1>4, <1>5, RelabelView

\* A new file.
LEMMA FinishCreateView ==
  ASSUME TypeOK, FrontierInv, LogInv, ViewInv, FinishCreate PROVE ViewInv'
<1>1. /\ highest' = highest + 1
      /\ DOMAIN disk' = DOMAIN disk \cup {highest + 1}
      /\ \A s \in DOMAIN disk : s # highest + 1 => disk'[s] = disk[s]
      /\ UNCHANGED <<index, base, published, plans, history, mode>>
  BY DEF FinishCreate
<1>2. \A s \in DOMAIN disk : s # highest + 1
  BY Basics DEF LogInv, NamesInv
<1>3. \A p : Held(disk, p) => Held(disk', p)
  BY <1>1, <1>2 DEF Held
<1> QED BY <1>1, <1>3, ViewKept

\* Pinned batches are not punched.
LEMMA PunchSegmentView ==
  ASSUME TypeOK, FrontierInv, LogInv, ViewInv, NEW s, PunchSegment(s)
  PROVE  ViewInv'
<1> DEFINE bs == disk[s].batches
           new == [i \in DOMAIN bs |->
                     IF /\ HasPayload(bs[i]) /\ bs[i].last <= job.view.d
                        /\ ~Pinned(s, i)
                     THEN [bs[i] EXCEPT !.punched = TRUE] ELSE bs[i]]
<1>1. /\ disk' = [disk EXCEPT ![s].batches = new]
      /\ UNCHANGED <<index, base, published, plans, history, mode>>
  BY DEF PunchSegment
<1>2. DOMAIN new = DOMAIN bs /\ \A i \in DOMAIN bs : Pinned(s, i) => new[i] = bs[i]
  OBVIOUS
<1> HIDE DEF new
<1>3. /\ DOMAIN disk' = DOMAIN disk
      /\ s \in DOMAIN disk => disk'[s].batches = new
      /\ \A t \in DOMAIN disk : t # s => disk'[t] = disk[t]
  <2>1. s \in DOMAIN disk => disk[s] \in SegmentType
    BY Basics
  <2> QED BY <1>1, <2>1 DEF SegmentType
<1>4. ASSUME NEW r \in Readers, plans[r].on, Held(disk, plans[r])
      PROVE  Held(disk', plans[r])
  <2>1. CASE plans[r].seg = s
    <3>1. PICK i \in DOMAIN bs : Covers(bs[i], plans[r].seq) /\ ~bs[i].punched
      BY <1>4, <2>1 DEF Held
    <3>2. Pinned(s, i)
      BY <1>4, <2>1, <3>1 DEF Pinned
    <3> QED BY <1>2, <1>3, <1>4, <2>1, <3>1, <3>2 DEF Held
  <2>2. CASE plans[r].seg # s
    BY <1>3, <1>4, <2>2 DEF Held
  <2> QED BY <2>1, <2>2
<1> QED BY <1>1, <1>4, ViewKept

\* A file with readers is not removed.
LEMMA UnlinkSegmentView ==
  ASSUME TypeOK, FrontierInv, LogInv, ViewInv, NEW s, UnlinkSegment(s)
  PROVE  ViewInv'
<1>1. /\ disk' = IF Removable(s) THEN [t \in DOMAIN disk \ {s} |-> disk[t]] ELSE disk
      /\ UNCHANGED <<index, base, published, plans, history, mode>>
  BY DEF UnlinkSegment
<1>2. ASSUME NEW r \in Readers, plans[r].on, Held(disk, plans[r])
      PROVE  Held(disk', plans[r])
  <2>1. CASE ~Removable(s)
    BY <1>1, <1>2, <2>1
  <2>2. CASE Removable(s)
    <3>1. plans[r].seg # s
      BY <1>2, <2>2 DEF Removable, ReadersOf
    <3>2. plans[r].seg \in DOMAIN disk' /\ disk'[plans[r].seg] = disk[plans[r].seg]
      BY <1>1, <1>2, <2>2, <3>1 DEF Held
    <3> QED BY <1>2, <3>2 DEF Held
  <2> QED BY <2>1, <2>2
<1> QED BY <1>1, <1>2, ViewKept

\* Repair has no readers.
LEMMA RepairFileView ==
  ASSUME TypeOK, FrontierInv, LogInv, ViewInv, NEW s, RepairFile(s)
  PROVE  ViewInv'
<1>1. mode = "repair" /\ UNCHANGED <<index, base, published, plans, history, mode>>
  BY DEF RepairFile
<1>2. \A r \in Readers : ~plans[r].on
  BY <1>1 DEF ViewInv, PlanInv
<1> QED BY <1>1, <1>2, ViewKept

\* A crash forgets every plan.
LEMMA CrashView ==
  ASSUME NEW power, NEW lost, NEW gone, Crash(power, lost, gone) PROVE ViewInv'
<1>1. mode' = "down" /\ plans' = [r \in Readers |-> NoPlan]
  BY DEF Crash
<1>2. \A r \in Readers : ~plans'[r].on
  BY <1>1 DEF NoPlan
<1> QED BY <1>1, <1>2 DEF ViewInv, IndexInv, PlanInv

-----------------------------------------------------------------------------
(* Every step preserves the invariant.                                     *)

\* Steps of the sequencer and of the guest.
LEMMA FrontView ==
  ASSUME TypeOK, FrontierInv, LogInv, ViewInv, AppendStep \/ GuestStep \/ Fail
  PROVE  ViewInv'
<1>1. ASSUME NEW n, PrepareAppend(n) PROVE ViewInv'
  <2>1. /\ mode # "down"
        /\ disk' = [disk EXCEPT ![current].batches = Append(@, NextBatch(n))]
        /\ UNCHANGED <<index, base, published, plans, history, mode>>
    BY <1>1 DEF PrepareAppend, Healthy
  <2> QED BY <2>1, AppendView
<1>2. CASE PrepareFence
  <2>1. /\ mode # "down"
        /\ disk' = [disk EXCEPT ![current].batches = Append(@, Batch(issued, <<>>))]
        /\ UNCHANGED <<index, base, published, plans, history, mode>>
    BY <1>2 DEF PrepareFence, Healthy
  <2> QED BY <2>1, AppendView
<1>3. CASE CompleteSync \/ Fail \/ Attach \/ \E n \in live : Retire(n)
  <2>1. UNCHANGED <<index, base, published, plans, disk, history, mode>>
    BY <1>3 DEF CompleteSync, Fail, Attach, Retire
  <2> QED BY <2>1, ViewQuiet
<1>4. ASSUME NEW b \in Blocks, NEW zero \in Kinds, Admit(b, zero) PROVE ViewInv'
  <2>1. /\ UNCHANGED <<index, base, published, plans, disk, mode>>
        /\ history' = Append(history, [block |-> b, zero |-> zero, epoch |-> attach])
        /\ mode = "serving"
    BY <1>4 DEF Admit
  <2>2. history \in Seq(Mutation) /\ published \in Nat /\ published <= Len(history)
        /\ Len(history) \in Nat
    BY <2>1, Basics, Numbers
  <2>3. \A n \in 1..published : history'[n] = history[n]
    <3>1. PICK m : m = [block |-> b, zero |-> zero, epoch |-> attach]
      OBVIOUS
    <3>2. history' = Append(history, m) /\ \A n \in 1..published : n \in 1..Len(history)
      BY <2>1, <2>2, <3>1
    <3> QED BY <2>2, <3>2
  <2> QED BY <2>1, <2>3, ViewKept
<1>5. CASE AppendStep
  BY <1>1, <1>2, <1>3, <1>5, WriteCompleteView, PublishAppendView, SyncDataView
    DEF AppendStep
<1>6. CASE GuestStep
  BY <1>3, <1>4, <1>6, ReadPlanView, ReadDoneView DEF GuestStep
<1> QED BY <1>3, <1>5, <1>6

\* Steps of the background worker.
LEMMA WorkerView ==
  ASSUME TypeOK, FrontierInv, LogInv, ViewInv, WorkerStep PROVE ViewInv'
<1>1. CASE \/ \E fresh \in BOOLEAN : PrepareRotation(fresh)
           \/ CancelRotation \/ BeginCreate \/ InstallRotation
  <2>1. /\ UNCHANGED <<index, base, published, plans, disk, history>>
        /\ mode # "down" /\ (mode = "serving" => mode' = "serving")
    BY <1>1 DEF PrepareRotation, CancelRotation, BeginCreate, InstallRotation, Healthy
  <2> QED BY <2>1, ViewQuiet
<1>2. CASE \/ SelectCompaction \/ LoadCompaction \/ LoadError \/ DeferCompaction
           \/ PublishManifest \/ SelectReclamation \/ ApplyReclamation
  <2>1. UNCHANGED <<index, base, published, plans, disk, history, mode>>
    BY <1>2 DEF SelectCompaction, LoadCompaction, LoadError, DeferCompaction,
      PublishManifest, SelectReclamation, ApplyReclamation
  <2> QED BY <2>1, ViewQuiet
<1> QED BY <1>1, <1>2, FinishCreateView, PublishCompactionView, PunchSegmentView,
  UnlinkSegmentView DEF WorkerStep

\* Every step, with the stuttering one.
LEMMA NextView ==
  TypeOK /\ FrontierInv /\ LogInv /\ ViewInv /\ [Next]_vars => ViewInv'
<1> SUFFICES ASSUME TypeOK, FrontierInv, LogInv, ViewInv, [Next]_vars
             PROVE  ViewInv'
  OBVIOUS
<1>1. CASE AppendStep \/ GuestStep \/ Fail
  BY <1>1, FrontView
<1>2. CASE WorkerStep
  BY <1>2, WorkerView
<1>3. CASE FinishRecovery
  <2>1. /\ UNCHANGED <<index, base, published, plans, disk, history>>
        /\ mode # "down" /\ mode' = "serving"
    BY <1>3 DEF FinishRecovery
  <2> QED BY <2>1, ViewQuiet
<1>4. CASE RecoveryStep
  BY <1>3, <1>4, InspectView, StartRecoveredView, RepairFileView DEF RecoveryStep
<1>5. CASE CrashStep
  BY <1>5, CrashView DEF CrashStep
<1>6. CASE UNCHANGED vars
  BY <1>6, ViewQuiet DEF vars
<1> QED BY <1>1, <1>2, <1>4, <1>5, <1>6 DEF Next

\* A new image has an empty index and no reader.
LEMMA InitView == ASSUME Init PROVE ViewInv
<1>1. \A b \in Blocks : LastTouch(history, 0, 0, b) = 0
  <2>1. \A b \in Blocks : IsLast(history, 0, 0, b, 0)
    BY DEF IsLast
  <2> QED BY <2>1, LastTouchOnly
<1>2. IndexInv
  BY <1>1 DEF Init, EmptyView, IndexInv
<1>3. \A r \in Readers : ~plans[r].on
  BY DEF Init, NoPlan
<1> QED BY <1>2, <1>3 DEF ViewInv, PlanInv

\* The index is always the newest mutation above D of every block, and every
\* captured plan a snapshot whose payload is pinned on disk.
THEOREM ViewInvariant == Spec => []ViewInv
<1>1. Spec => [](TypeOK /\ FrontierInv /\ LogInv)
  BY TypeCorrect, InitFrontier, NextFrontier, LogInvariant, PTL DEF Spec
<1>2. Init => ViewInv
  BY InitView
<1> QED BY <1>1, <1>2, NextView, PTL DEF Spec

-----------------------------------------------------------------------------
(* What reads see.                                                         *)

\* The index over the base view is the published image, and what it maps is
\* readable.
LEMMA ViewIs ==
  ASSUME TypeOK, FrontierInv, LogInv, ViewInv PROVE ViewExact
<1> SUFFICES ASSUME Running, NEW b \in Blocks, NEW n, n = index[b]
             PROVE  /\ Content(published)[b] = IF n = 0 THEN base.map[b]
                                               ELSE Value(n, history[n])
                    /\ n # 0 /\ ~history[n].zero =>
                         \E p \in Places(segs, n) :
                           /\ ~disk[p[1]].batches[p[2]].punched
                           /\ At(disk[p[1]].batches[p[2]], n) = history[n]
  BY DEF ViewExact, Running
<1>1. mode # "down"
  BY DEF Running
<1>2. /\ n \in Nat /\ (n # 0 => base.d < n /\ n <= published)
      /\ Image(history, published)[b] =
           IF n = 0 THEN base.map[b] ELSE Value(n, history[n])
  BY <1>1, PublishedImage
<1>3. Content(published) = Image(history, published)
  BY DEF Content, Image
<1>4. ASSUME n # 0
      PROVE  \E p \in Places(segs, n) :
               /\ ~disk[p[1]].batches[p[2]].punched
               /\ At(disk[p[1]].batches[p[2]], n) = history[n]
  <2>1. /\ current \in DOMAIN disk /\ End(disk[current]) = issued
        /\ published <= issued /\ published \in Nat /\ issued \in Nat /\ base.d \in Nat
    BY <1>1, Basics, Numbers DEF LogInv, StatusInv, FrontierInv, OrderInv
  <2>2. n \in 1..End(disk[current]) /\ base.d < n /\ n \in Int
    BY <1>2, <1>4, <2>1
  <2>3. PICK t \in DOMAIN disk : Has(disk[t], n)
    BY <1>1, <2>1, <2>2 DEF LogInv, DiskInv, Cover, Floor
  <2>4. PICK i \in DOMAIN disk[t].batches : Covers(disk[t].batches[i], n)
    BY <2>3 DEF Has
  <2>5. t \in segs
    <3> SUFFICES ASSUME job.kind = "created", t = highest PROVE FALSE
      BY <1>1 DEF LogInv, CurrentInv
    <3>1. disk[t].batches = <<>>
      BY DEF LogInv, CurrentInv
    <3> QED BY <2>4, <3>1
  <2>6. <<t, i>> \in Places(segs, n)
    BY <2>4, <2>5, PlaceOf
  <2>7. ~disk[t].batches[i].punched
    BY <1>1, <1>2, <2>2, <2>4, NotPunched
  <2>8. At(disk[t].batches[i], n) = history[n]
    <3>1. /\ disk[t] \in SegmentType /\ FileOK(disk[t], history)
          /\ i \in 1..Len(disk[t].batches)
      BY Basics, FileTyped
    <3> QED BY <2>2, <2>4, <3>1, CoversIs
  <2>9. <<t, i>>[1] = t /\ <<t, i>>[2] = i
    OBVIOUS
  <2> QED BY <2>6, <2>7, <2>8, <2>9
<1> QED BY <1>2, <1>3, <1>4

\* Compaction, reclamation, rotation and recovery, in any order and with
\* crashes at any instant between them, never change what a read of the
\* published image returns: Index over the manifest view is exactly the image,
\* and no payload it maps has been punched, unlinked or replaced.
THEOREM ViewsExact == Spec => []ViewExact
<1>1. TypeOK /\ FrontierInv /\ LogInv /\ ViewInv => ViewExact
  BY ViewIs
<1>2. Spec => [](TypeOK /\ FrontierInv)
  BY TypeCorrect, InitFrontier, NextFrontier, PTL DEF Spec
<1> QED BY <1>1, <1>2, LogInvariant, ViewInvariant, PTL

\* A plan returns the image as published at its capture.
LEMMA SnapshotIs ==
  ASSUME TypeOK, FrontierInv, LogInv, ViewInv PROVE ReadsSeeSnapshot
<1> SUFFICES ASSUME NEW r \in Readers, plans[r].on,
                    NEW expect, expect = Content(plans[r].upto)[plans[r].block]
             PROVE  IF plans[r].seq = 0 THEN plans[r].value = expect
                    ELSE \E p \in Places({plans[r].seg}, plans[r].seq) :
                           /\ ~disk[p[1]].batches[p[2]].punched
                           /\ Value(plans[r].seq,
                                    At(disk[p[1]].batches[p[2]], plans[r].seq)) = expect
  BY DEF ReadsSeeSnapshot
<1>1. PICK w : w = plans[r]
  OBVIOUS
<1>2. /\ w.upto \in Nat /\ w.seq \in Nat /\ w.block \in Blocks
      /\ w.seq = 0 => w.value = Image(history, w.upto)[w.block]
      /\ w.seq # 0 => w.seq = LastTouch(history, 0, w.upto, w.block) /\ Held(disk, w)
  BY <1>1, PlanTyped DEF ViewInv, PlanInv, Snapshot
<1>3. expect = Image(history, w.upto)[w.block]
  BY <1>1 DEF Content, Image
<1>4. CASE w.seq = 0
  BY <1>1, <1>2, <1>3, <1>4
<1>5. CASE w.seq # 0
  <2>1. expect = Value(w.seq, history[w.seq])
    BY <1>2, <1>3, <1>5, ImageIs
  <2>2. w.seg \in DOMAIN disk
    BY <1>2, <1>5 DEF Held
  <2>3. PICK i \in DOMAIN disk[w.seg].batches :
          Covers(disk[w.seg].batches[i], w.seq) /\ ~disk[w.seg].batches[i].punched
    BY <1>2, <1>5 DEF Held
  <2>4. <<w.seg, i>> \in Places({w.seg}, w.seq)
    BY <2>2, <2>3, PlaceOf
  <2>5. At(disk[w.seg].batches[i], w.seq) = history[w.seq]
    <3>1. /\ disk[w.seg] \in SegmentType /\ FileOK(disk[w.seg], history)
          /\ i \in 1..Len(disk[w.seg].batches) /\ w.seq \in Int
      BY <1>2, <2>2, Basics, FileTyped
    <3> QED BY <2>3, <3>1, CoversIs
  <2>6. <<w.seg, i>>[1] = w.seg /\ <<w.seg, i>>[2] = i
    OBVIOUS
  <2>7. \E p \in Places({w.seg}, w.seq) :
          /\ ~disk[p[1]].batches[p[2]].punched
          /\ Value(w.seq, At(disk[p[1]].batches[p[2]], w.seq)) = expect
    BY <2>1, <2>3, <2>4, <2>5, <2>6
  <2> QED BY <1>1, <1>5, <2>7
<1> QED BY <1>4, <1>5

\* A read captured before any number of appends, compactions, hole punches and
\* unlinks returns the image as it was published at its capture: read.rs pins
\* its batch, and reclamation honours the pin.
THEOREM ReadsAreSnapshots == Spec => []ReadsSeeSnapshot
<1>1. TypeOK /\ FrontierInv /\ LogInv /\ ViewInv => ReadsSeeSnapshot
  BY SnapshotIs
<1>2. Spec => [](TypeOK /\ FrontierInv)
  BY TypeCorrect, InitFrontier, NextFrontier, PTL DEF Spec
<1> QED BY <1>1, <1>2, LogInvariant, ViewInvariant, PTL


-----------------------------------------------------------------------------
(* The log implements the image.                                           *)

\* The writer epoch of a file is a ticket.
EpochInv == \A s \in DOMAIN disk : disk[s].epoch # 0

\* Files that keep their header keep their epoch.
LEMMA EpochKept ==
  ASSUME EpochInv,
         \A s \in DOMAIN disk' : s \in DOMAIN disk /\ disk'[s].epoch = disk[s].epoch
  PROVE  EpochInv'
BY DEF EpochInv

\* Replacing the batches of one file keeps its header.
LEMMA EpochExcept ==
  ASSUME TypeOK, EpochInv, NEW s, NEW bs, disk' = [disk EXCEPT ![s].batches = bs]
  PROVE  EpochInv'
<1>1. \A t \in DOMAIN disk : disk[t] \in SegmentType
  BY DEF TypeOK, DiskOK
<1>2. \A t \in DOMAIN disk' : t \in DOMAIN disk /\ disk'[t].epoch = disk[t].epoch
  BY <1>1 DEF SegmentType
<1> QED BY <1>2, EpochKept

\* Steps that append to, relabel or punch the batches of one file.
LEMMA FileEpoch ==
  ASSUME TypeOK, EpochInv,
         \/ \E n \in 1..MaxMutations : PrepareAppend(n)
         \/ \E i \in 1..Capacity : WriteComplete(i)
         \/ PrepareFence \/ SyncData \/ \E s \in job.todo : PunchSegment(s)
  PROVE  EpochInv'
<1>1. ASSUME NEW i, WriteComplete(i) PROVE EpochInv'
  <2>1. disk' = [disk EXCEPT ![current].batches =
                   [disk[current].batches EXCEPT ![i] =
                      [disk[current].batches[i] EXCEPT !.st = "written"]]]
    BY <1>1 DEF WriteComplete
  <2> QED BY <2>1, EpochExcept
<1>2. ASSUME NEW s, PunchSegment(s) PROVE EpochInv'
  <2>1. PICK bs : disk' = [disk EXCEPT ![s].batches = bs]
    BY <1>2 DEF PunchSegment
  <2> QED BY <2>1, EpochExcept
<1>3. ASSUME NEW n, PrepareAppend(n) PROVE EpochInv'
  <2>1. PICK bs : disk' = [disk EXCEPT ![current].batches = bs]
    BY <1>3 DEF PrepareAppend
  <2> QED BY <2>1, EpochExcept
<1>4. CASE PrepareFence \/ SyncData
  <2>1. PICK bs : disk' = [disk EXCEPT ![current].batches = bs]
    BY <1>4 DEF PrepareFence, SyncData
  <2> QED BY <2>1, EpochExcept
<1> QED BY <1>1, <1>2, <1>3, <1>4

\* Steps that change or remove several files, or create one.
LEMMA FilesEpoch ==
  ASSUME TypeOK, LogInv, EpochInv,
         \/ FinishCreate \/ StartRecovered \/ \E s \in job.todo : UnlinkSegment(s)
         \/ (mode = "repair" /\ \E s \in Doomed : RepairFile(s)) \/ CrashStep
  PROVE  EpochInv'
<1>0. \A t \in DOMAIN disk : disk[t] \in SegmentType
  BY DEF TypeOK, DiskOK
<1>1. CASE FinishCreate
  <2>1. /\ DOMAIN disk' = DOMAIN disk \cup {highest + 1}
        /\ \A s \in DOMAIN disk' :
             disk'[s] = IF s = highest + 1
                        THEN [epoch |-> EpochOf(highest + 1), preceding |-> published,
                              batches |-> <<>>]
                        ELSE disk[s]
    BY <1>1 DEF FinishCreate
  <2>2. current \in DOMAIN disk /\ highest \in Nat
    BY <1>1 DEF FinishCreate, TypeOK, CurrentOK, DiskOK, Idle
  <2>3. EpochOf(highest + 1) # 0
    BY <2>2 DEF EpochOf, EpochInv
  <2> QED BY <2>1, <2>3 DEF EpochInv
<1>2. CASE StartRecovered
  <2>1. disk' = [s \in DOMAIN disk |->
                   [disk[s] EXCEPT !.batches = Synced(disk[s].batches)]]
    BY <1>2 DEF StartRecovered
  <2>2. \A t \in DOMAIN disk' : t \in DOMAIN disk /\ disk'[t].epoch = disk[t].epoch
    BY <1>0, <2>1 DEF SegmentType
  <2> QED BY <2>2, EpochKept
<1>3. ASSUME NEW s, UnlinkSegment(s) PROVE EpochInv'
  <2>1. disk' = IF Removable(s) THEN [t \in DOMAIN disk \ {s} |-> disk[t]] ELSE disk
    BY <1>3 DEF UnlinkSegment
  <2>2. \A t \in DOMAIN disk' : t \in DOMAIN disk /\ disk'[t] = disk[t]
    BY <2>1
  <2> QED BY <2>2, EpochKept
<1>4. ASSUME NEW s, RepairFile(s) PROVE EpochInv'
  <2>1. CASE s = current
    <3>1. PICK bs : disk' = [disk EXCEPT ![s].batches = bs]
      BY <1>4, <2>1 DEF RepairFile
    <3> QED BY <3>1, EpochExcept
  <2>2. CASE s # current
    <3>1. \A t \in DOMAIN disk' : t \in DOMAIN disk /\ disk'[t] = disk[t]
      BY <1>4, <2>2 DEF RepairFile
    <3> QED BY <3>1, EpochKept
  <2> QED BY <2>1, <2>2
<1>5. ASSUME NEW power, NEW lost, NEW gone, Crash(power, lost, gone) PROVE EpochInv'
  <2>1. disk' = [s \in DOMAIN disk |->
                  [disk[s] EXCEPT !.batches =
                     [i \in DOMAIN @ |-> Settle(@[i], <<s, i>> \in lost, power)]]]
    BY <1>5 DEF Crash
  <2>2. \A t \in DOMAIN disk' : t \in DOMAIN disk /\ disk'[t].epoch = disk[t].epoch
    BY <1>0, <2>1 DEF SegmentType
  <2> QED BY <2>2, EpochKept
<1> QED BY <1>1, <1>2, <1>3, <1>4, <1>5 DEF CrashStep

\* Every step, with the stuttering one.
LEMMA NextEpoch ==
  TypeOK /\ LogInv /\ EpochInv /\ [Next]_vars => EpochInv'
<1> SUFFICES ASSUME TypeOK, LogInv, EpochInv, [Next]_vars PROVE EpochInv'
  OBVIOUS
<1>1. ASSUME UNCHANGED disk PROVE EpochInv'
  BY <1>1 DEF EpochInv
<1>2. CASE AppendStep
  <2>1. ASSUME NEW i, PublishAppend(i) PROVE UNCHANGED disk
    BY <2>1 DEF PublishAppend
  <2>2. CASE CompleteSync
    BY <1>1, <2>2 DEF CompleteSync
  <2> QED BY <1>1, <1>2, <2>1, <2>2, FileEpoch DEF AppendStep
<1>3. CASE GuestStep \/ Fail \/ UNCHANGED vars
  BY <1>1, <1>3 DEF GuestStep, Admit, Retire, Attach, ReadDone, ReadPlan, Fail, vars
<1>4. CASE WorkerStep
  <2>1. CASE \/ \E fresh \in BOOLEAN : PrepareRotation(fresh)
             \/ CancelRotation \/ BeginCreate \/ InstallRotation \/ PublishCompaction
    <3>1. UNCHANGED disk
      BY <2>1 DEF PrepareRotation, CancelRotation, BeginCreate, InstallRotation,
        PublishCompaction
    <3> QED BY <1>1, <3>1
  <2>2. CASE \/ SelectCompaction \/ LoadCompaction \/ LoadError \/ DeferCompaction
             \/ PublishManifest \/ SelectReclamation \/ ApplyReclamation
    <3>1. UNCHANGED disk
      BY <2>2 DEF SelectCompaction, LoadCompaction, LoadError, DeferCompaction,
        PublishManifest, SelectReclamation, ApplyReclamation
    <3> QED BY <1>1, <3>1
  <2> QED BY <1>4, <2>1, <2>2, FileEpoch, FilesEpoch DEF WorkerStep
<1>5. CASE RecoveryStep
  <2>1. CASE Inspect \/ FinishRecovery
    BY <1>1, <2>1 DEF Inspect, FinishRecovery
  <2> QED BY <1>5, <2>1, FilesEpoch DEF RecoveryStep
<1>6. CASE CrashStep
  BY <1>6, FilesEpoch
<1> QED BY <1>2, <1>3, <1>4, <1>5, <1>6 DEF Next


\* A step of the image, or none.
ImageStep == [Abstract!ANext]_(Abstract!avars)

\* A step that leaves what the image is made of alone.
LEMMA ImageQuiet ==
  ASSUME UNCHANGED <<history, mode, promised, attach>>,
         mode = "serving" => published' = published
  PROVE  ImageStep
<1>1. (IF mode = "serving" THEN published ELSE 0)'
        = IF mode = "serving" THEN published ELSE 0
  OBVIOUS
<1>2. (mode = "serving")' = (mode = "serving") /\ (attach # 0)' = (attach # 0)
  OBVIOUS
<1> QED BY <1>1, <1>2 DEF ImageStep, Abstract!avars


\* An admitted guest request is an accepted mutation.
LEMMA AdmitImage ==
  ASSUME TypeOK, NEW b \in Blocks, NEW zero \in Kinds, Admit(b, zero)
  PROVE  ImageStep
<1> DEFINE m == [block |-> b, zero |-> zero, epoch |-> attach]
<1>1. /\ mode = "serving" /\ attach # 0 /\ history' = Append(history, m)
      /\ UNCHANGED <<published, mode, promised, attach>>
  BY DEF Admit
<1>2. history \in Seq(Mutation) /\ attach \in Nat
  BY DEF TypeOK, GuestOK
<1>3. m \in [block : Blocks, zero : Kinds, epoch : Nat \ {0}]
  BY <1>1, <1>2
<1> HIDE DEF m
<1>4. Len(history') = Len(history) + 1 /\ history'[Len(history')] = m
  BY <1>1, <1>2
<1>5. Abstract!Accept
  BY <1>1, <1>3, <1>4 DEF Abstract!Accept
<1> QED BY <1>5 DEF ImageStep, Abstract!ANext

\* A published batch extends the prefix that reads see.
LEMMA PublishAppendImage ==
  ASSUME TypeOK, FrontierInv, LogInv, NEW i \in 1..Capacity, PublishAppend(i)
  PROVE  ImageStep
<1> DEFINE bt == disk[current].batches[i]
<1>1. /\ mode \in {"serving", "live", "fresh", "fence"}
      /\ i \in DOMAIN disk[current].batches
      /\ bt.data # <<>> /\ First(bt) = published + 1 /\ published' = bt.last
      /\ UNCHANGED <<history, mode, promised, attach>>
  BY DEF PublishAppend, Healthy, IsFence
<1>2. CASE mode # "serving"
  BY <1>1, <1>2, ImageQuiet
<1>3. CASE mode = "serving"
  <2>1. bt.last \in Nat /\ Len(bt.data) \in Nat /\ published \in Nat /\ issued \in Nat
    BY <1>1, Basics, FileTyped, Numbers
  <2>2. Len(bt.data) # 0
    BY <1>1, Basics, FileTyped, EmptySeq
  <2>3. bt.last - Len(bt.data) + 1 = published + 1
    BY <1>1 DEF First
  <2>4. bt.last <= issued /\ issued <= Len(history) /\ Len(history) \in Nat
    BY <1>1, <1>3, Basics DEF FrontierInv, FilesInv, Below
  <2> HIDE DEF bt
  <2>5. /\ published < bt.last /\ bt.last <= Len(history)
        /\ bt.last \in 1..Len(history)
    <3>1. PICK e, k : e = bt.last /\ k = Len(bt.data)
      OBVIOUS
    <3> QED BY <2>1, <2>2, <2>3, <2>4, <3>1
  <2>6. Abstract!Publish(bt.last)
    BY <1>1, <1>3, <2>5 DEF Abstract!Publish
  <2> QED BY <2>5, <2>6 DEF ImageStep, Abstract!ANext
<1> QED BY <1>2, <1>3

\* A completed cohort reports the published prefix, or all of the log while
\* recovery flushes.
LEMMA CompleteSyncImage ==
  ASSUME TypeOK, FrontierInv, LogInv, CompleteSync
  PROVE  ImageStep
<1>1. /\ mode # "down" /\ cohort = published
      /\ promised' = IF promised < cohort THEN cohort ELSE promised
      /\ UNCHANGED <<history, published, mode, attach>>
  BY DEF CompleteSync, Healthy, SyncReady
<1>2. /\ published \in Nat /\ promised \in Nat
      /\ published <= Len(history) /\ Len(history) \in Nat
  BY <1>1, Basics, Numbers DEF TypeOK, LogOK
<1>3. CASE promised < published
  <2>1. Abstract!Flush(published) /\ published \in 1..Len(history)
    BY <1>1, <1>2, <1>3 DEF Abstract!Flush
  <2> QED BY <2>1 DEF ImageStep, Abstract!ANext
<1>4. CASE ~(promised < published)
  BY <1>1, <1>4, ImageQuiet
<1> QED BY <1>3, <1>4

\* The carrier is returned before a fresh epoch is started.
LEMMA PrepareRotationImage ==
  ASSUME TypeOK, FrontierInv, LogInv, NEW fresh \in BOOLEAN, PrepareRotation(fresh)
  PROVE  ImageStep
<1>1. /\ attach' = IF fresh THEN 0 ELSE attach
      /\ UNCHANGED <<history, published, mode, promised>>
  BY DEF PrepareRotation
<1>2. CASE ~fresh \/ attach = 0
  BY <1>1, <1>2, ImageQuiet
<1>3. CASE fresh /\ attach # 0
  <2>1. mode = "serving"
    BY <1>3 DEF PrepareRotation, LogInv, CarrierInv
  <2>2. durable = published /\ published = Len(history)
    BY <1>3, <2>1 DEF PrepareRotation, Drained
  <2>3. promised = published
    BY <2>1, <2>2, Numbers DEF LogInv, AnchorInv, TypeOK, LogOK
  <2>4. Abstract!Exchange
    BY <1>1, <1>3, <2>1, <2>2, <2>3 DEF Abstract!Exchange
  <2> QED BY <2>4 DEF ImageStep, Abstract!ANext
<1> QED BY <1>2, <1>3

\* A carrier is handed out with everything durable.
LEMMA AttachImage ==
  ASSUME TypeOK, FrontierInv, LogInv, EpochInv, Attach
  PROVE  ImageStep
<1>1. /\ mode = "serving" /\ attach = 0 /\ durable = published
      /\ attach' = disk[current].epoch
      /\ UNCHANGED <<history, published, mode, promised>>
  BY DEF Attach
<1>2. attach' # 0
  BY <1>1, Basics DEF EpochInv
<1>3. published = Len(history)
  BY <1>1 DEF LogInv, CarrierInv, Running
<1>4. promised = published
  BY <1>1, Numbers DEF LogInv, AnchorInv, TypeOK, LogOK
<1>5. Abstract!Exchange
  BY <1>1, <1>2, <1>3, <1>4 DEF Abstract!Exchange
<1> QED BY <1>5 DEF ImageStep, Abstract!ANext

\* A cold start forgets what no FLUSH reported; a live one forgets nothing.
LEMMA StartRecoveredImage ==
  ASSUME TypeOK, FrontierInv, LogInv, StartRecovered
  PROVE  ImageStep
<1>1. /\ mode = "repair" /\ mode' \in {"fresh", "live"}
      /\ history' = IF attach = 0 THEN Truncate(history, published) ELSE history
      /\ UNCHANGED <<published, promised, attach>>
  BY DEF StartRecovered
<1>2. (mode = "serving") = FALSE /\ (mode' = "serving") = FALSE
  BY <1>1
<1>3. /\ published \in Nat /\ promised \in Nat /\ Len(history) \in Nat
      /\ promised <= published
  BY <1>1, Basics, Numbers DEF TypeOK, LogOK, LogInv, AnchorInv
<1>4. CASE attach = 0 /\ published < Len(history)
  <2>1. history' = SubSeq(history, 1, published)
    BY <1>1, <1>4 DEF Truncate
  <2>2. Abstract!Forget(published) /\ published \in 0..Len(history)
    BY <1>1, <1>2, <1>3, <1>4, <2>1 DEF Abstract!Forget
  <2> QED BY <2>2 DEF ImageStep, Abstract!ANext
<1>5. CASE ~(attach = 0 /\ published < Len(history))
  <2>1. history' = history
    BY <1>1, <1>5 DEF Truncate
  <2> QED BY <1>1, <1>2, <2>1 DEF ImageStep, Abstract!avars
<1> QED BY <1>4, <1>5

\* Service resumes once the recovery fence covers the replayed history.
LEMMA FinishRecoveryImage ==
  ASSUME TypeOK, FrontierInv, LogInv, FinishRecovery
  PROVE  ImageStep
<1>1. /\ mode \in {"live", "fence"} /\ mode' = "serving"
      /\ published = Len(history) /\ durable >= published
      /\ UNCHANGED <<history, published, promised, attach>>
  BY DEF FinishRecovery, CoversFlush
<1>2. (mode = "serving") = FALSE /\ (mode' = "serving") = TRUE
  BY <1>1
<1>3. promised = published
  BY <1>1, Numbers DEF LogInv, AnchorInv, TypeOK, LogOK
<1>4. Abstract!Resume
  BY <1>1, <1>2, <1>3 DEF Abstract!Resume
<1> QED BY <1>4 DEF ImageStep, Abstract!ANext

\* A crash stops the image; the carrier stays or is lost.
LEMMA CrashImage ==
  ASSUME NEW power, NEW lost, NEW gone, Crash(power, lost, gone)
  PROVE  ImageStep
<1>1. /\ mode' = "down" /\ attach' \in {attach, 0}
      /\ UNCHANGED <<history, promised>>
  BY DEF Crash
<1>2. (mode' = "serving") = FALSE
  BY <1>1
<1>3. (attach' # 0) \in {attach # 0, FALSE}
  BY <1>1
<1>4. Abstract!Stop
  BY <1>1, <1>2, <1>3 DEF Abstract!Stop
<1> QED BY <1>4 DEF ImageStep, Abstract!ANext


\* Steps of the sequencer and of the guest.
LEMMA FrontImage ==
  ASSUME TypeOK, FrontierInv, LogInv, EpochInv, AppendStep \/ GuestStep \/ Fail
  PROVE  ImageStep
<1>1. ASSUME \/ \E n \in 1..MaxMutations : PrepareAppend(n)
             \/ \E i \in 1..Capacity : WriteComplete(i)
             \/ PrepareFence \/ SyncData
      PROVE  ImageStep
  <2>1. UNCHANGED <<history, published, mode, promised, attach>>
    BY <1>1 DEF PrepareAppend, WriteComplete, PrepareFence, SyncData
  <2> QED BY <2>1, ImageQuiet
<1>2. ASSUME \/ \E n \in live : Retire(n)
             \/ \E r \in Readers : ReadDone(r) \/ \E b \in Blocks : ReadPlan(r, b)
             \/ Fail
      PROVE  ImageStep
  <2>1. UNCHANGED <<history, published, mode, promised, attach>>
    BY <1>2 DEF Retire, ReadDone, ReadPlan, Fail
  <2> QED BY <2>1, ImageQuiet
<1>3. CASE AppendStep
  BY <1>1, <1>3, PublishAppendImage, CompleteSyncImage DEF AppendStep
<1>4. CASE GuestStep
  BY <1>2, <1>4, AdmitImage, AttachImage DEF GuestStep
<1> QED BY <1>2, <1>3, <1>4

\* Steps of the background worker: only a fresh rotation shows.
LEMMA WorkerImage ==
  ASSUME TypeOK, FrontierInv, LogInv, WorkerStep
  PROVE  ImageStep
<1>1. CASE InstallRotation
  <2>1. /\ UNCHANGED <<history, published, promised, attach>>
        /\ (mode' = "serving") = (mode = "serving")
    BY <1>1 DEF InstallRotation
  <2>2. (IF mode = "serving" THEN published ELSE 0)'
          = IF mode = "serving" THEN published ELSE 0
    BY <2>1
  <2> QED BY <2>1, <2>2 DEF ImageStep, Abstract!avars
<1>2. CASE \/ CancelRotation \/ BeginCreate \/ FinishCreate \/ PublishCompaction
           \/ \E s \in job.todo : PunchSegment(s) \/ UnlinkSegment(s)
  <2>1. UNCHANGED <<history, published, mode, promised, attach>>
    BY <1>2 DEF CancelRotation, BeginCreate, FinishCreate, PublishCompaction,
      PunchSegment, UnlinkSegment
  <2> QED BY <2>1, ImageQuiet
<1>3. CASE \/ SelectCompaction \/ LoadCompaction \/ LoadError \/ DeferCompaction
           \/ PublishManifest \/ SelectReclamation \/ ApplyReclamation
  <2>1. UNCHANGED <<history, published, mode, promised, attach>>
    BY <1>3 DEF SelectCompaction, LoadCompaction, LoadError, DeferCompaction,
      PublishManifest, SelectReclamation, ApplyReclamation
  <2> QED BY <2>1, ImageQuiet
<1> QED BY <1>1, <1>2, <1>3, PrepareRotationImage DEF WorkerStep

\* Steps of recovery.
LEMMA RecoveryImage ==
  ASSUME TypeOK, FrontierInv, LogInv, RecoveryStep
  PROVE  ImageStep
<1>1. CASE Inspect
  <2>1. /\ UNCHANGED <<history, promised, attach>>
        /\ (mode = "serving") = FALSE /\ (mode' = "serving") = FALSE
    BY <1>1 DEF Inspect
  <2> QED BY <2>1 DEF ImageStep, Abstract!avars
<1>2. ASSUME NEW s, RepairFile(s) PROVE ImageStep
  <2>1. UNCHANGED <<history, published, mode, promised, attach>>
    BY <1>2 DEF RepairFile
  <2> QED BY <2>1, ImageQuiet
<1> QED BY <1>1, <1>2, StartRecoveredImage, FinishRecoveryImage DEF RecoveryStep

\* Every step of the log is a step of the image, or none.
LEMMA NextImage ==
  TypeOK /\ FrontierInv /\ LogInv /\ EpochInv /\ [Next]_vars
    => [Abstract!ANext]_(Abstract!avars)
<1> SUFFICES ASSUME TypeOK, FrontierInv, LogInv, EpochInv, [Next]_vars
             PROVE  ImageStep
  BY DEF ImageStep
<1>1. CASE UNCHANGED vars
  BY <1>1, ImageQuiet DEF vars
<1>2. CASE CrashStep
  BY <1>2, CrashImage DEF CrashStep
<1> QED BY <1>1, <1>2, FrontImage, WorkerImage, RecoveryImage DEF Next

\* A new image is an empty one, served and without a carrier.
LEMMA InitImage == Init => Abstract!AInit /\ EpochInv
<1> SUFFICES ASSUME Init PROVE Abstract!AInit /\ EpochInv
  OBVIOUS
<1>1. (mode = "serving") = TRUE /\ (attach # 0) = FALSE
  BY DEF Init
<1>2. Abstract!AInit
  BY <1>1 DEF Init, Abstract!AInit
<1>3. EpochInv
  BY DEF Init, EpochInv
<1> QED BY <1>2, <1>3

\* The log with its worker, any crash and either recovery is one image: reads
\* see a growing prefix of what the guest wrote, a FLUSH reports a published
\* prefix that no crash takes back, the carrier changes hands only with
\* everything durable, and while it is held nothing is forgotten.
THEOREM LogImplementsImage == Spec => ImplementsImage
<1>1. Spec => [](TypeOK /\ FrontierInv)
  BY TypeCorrect, InitFrontier, NextFrontier, PTL DEF Spec
<1>2. Spec => []EpochInv
  BY <1>1, LogInvariant, InitImage, NextEpoch, PTL DEF Spec
<1> QED BY <1>1, <1>2, LogInvariant, InitImage, NextImage, PTL
  DEF Spec, ImplementsImage, Abstract!ASpec
=============================================================================
