---------------------------- MODULE StoreProofs ----------------------------
(***************************************************************************)
(* No chunk a root or a pinned view refers to is ever lost, and no ticket  *)
(* comes back, for any number of chunks, roots, readers, segments and      *)
(* crashes of the store.                                                   *)
(***************************************************************************)
EXTENDS ChunkStore, SequenceTheorems, FiniteSetTheorems, WellFoundedInduction, TLAPS

USE DEF files, state, counts

-----------------------------------------------------------------------------
(* The inductive invariant.                                                *)

Lives == {<<>>} \cup UNION {[S -> Nat] : S \in SUBSET Nat}
JobType ==
  [kind : {"idle", "insert", "create", "creating", "write", "written", "synced",
           "mark", "sweep", "copy", "remove", "unlinked"},
   root : SUBSET Roots, new : SUBSET Hashes, want : SUBSET Hashes,
   out : SUBSET Hashes, victims : SUBSET Nat, live : Lives, victim : Nat,
   from : Nat, copied : Nat]
ReadType ==
  [on : BOOLEAN, view : SUBSET Hashes, hash : SUBSET Hashes, at : Address]

\* Files fit their segments; the published part of a segment is a part of its file.
TypeInv ==
  /\ TypeOK /\ job \in JobType /\ readers \in [Readers -> ReadType]
  /\ \A s \in DOMAIN disk : s # 0 /\ Len(disk[s]) <= Capacity
  /\ mode # "serving" => job.kind = "idle" /\ job.victim = 0 /\ sealed = {}
  /\ mode # "serving" => readers = [r \in Readers |-> NoRead]

\* Names that survive until they are reassigned or archived.
Top == Visible \cup others \cup archived \cup {0}
Assigned == DOMAIN disk \cup others \cup archived \cup {births[i] : i \in DOMAIN births}

\* The greatest name left is as great as every ticket ever assigned.
TicketInv ==
  /\ \A i, j \in DOMAIN births : births[i] = births[j] => i = j
  /\ \A x \in Assigned : \E n \in Top : x <= n
  /\ mode # "down" => \A x \in Assigned : x <= highest
  /\ mode = "down" => \E k \in Nat : \A x \in stub \cup Assigned : x <= k
  /\ mode = "repair" => highest \in Top \cup stub /\ \A x \in stub : x <= highest
  /\ mode = "serving" => highest \in Top
  /\ mode = "serving" => stub \subseteq {highest + 1}
  /\ Healthy /\ job.kind # "creating" => stub = {}

\* A position every crash preserves: the file keeps its batches up to it.
Sound(a, h) ==
  /\ a.seg \in Visible /\ a.batch \in 1..Len(disk[a.seg])
  /\ h \in disk[a.seg][a.batch].chunks
  /\ \A i \in 1..a.batch : disk[a.seg][i].st = "synced"
Safe(h) == \E a \in Address : Sound(a, h)
Rooted == UNION {roots[o] : o \in Roots}

\* A store that does not serve, or has failed, still has every root.
SafeInv == mode # "serving" \/ failed => \A h \in Rooted : Safe(h)

\* Recovery: what inspection accepted is intact and ends where it was cut.
RepairInv ==
  mode = "repair" =>
    /\ Visible \subseteq DOMAIN segs /\ job.victims \subseteq DOMAIN segs
    /\ \A s \in DOMAIN segs :
         /\ s \in Visible
         /\ \A i \in 1..segs[s] : disk[s][i].st # "bad"
         /\ segs[s] < Len(disk[s]) => disk[s][segs[s] + 1].st = "bad"
         /\ s \notin job.victims => \A i \in 1..segs[s] : disk[s][i].st = "synced"
    /\ \A h \in Hashes : index[h] # None => Holds(index[h], h)
    /\ \A h \in Rooted : index[h] # None

\* A collection that has marked everything: only marked entries are kept up.
Sweeping == job.kind = "sweep" \/ job.victim # 0
Writing == job.kind \in {"create", "creating", "write", "written", "synced"}

SegmentInv ==
  Healthy =>
    /\ \A s \in DOMAIN segs : \A i \in 1..segs[s] : disk[s][i].st = "synced"
    /\ DOMAIN segs \cap unlinked \subseteq
         (IF job.kind = "unlinked" THEN {job.victim} ELSE {})
    /\ job.kind \in {"write", "written", "synced"} => DOMAIN segs # {}
    /\ job.kind \in {"written", "synced"} =>
         /\ Len(disk[Last]) = segs[Last] + 1
         /\ disk[Last][segs[Last] + 1].chunks = job.out
    /\ job.kind = "written" => disk[Last][segs[Last] + 1].st = "issued"
    /\ job.kind = "synced" => disk[Last][segs[Last] + 1].st = "synced"

IndexInv ==
  Healthy =>
    /\ \A h \in Hashes : index[h] # None /\ (Sweeping => h \in marked)
                           => Holds(index[h], h)
    /\ \A h \in Needed : index[h] # None /\ (Sweeping => h \in marked)
    /\ job.kind = "mark" \/ Sweeping => collecting /\ \A h \in marked : index[h] # None
    /\ job.kind = "insert" \/ (Writing /\ job.victim = 0) =>
         \A h \in job.new : index[h] # None \/ h \in job.want \cup job.out
    /\ job.kind = "insert" => job.out = {}

SweepInv ==
  Healthy =>
    /\ job.kind \in {"copy", "remove", "unlinked"} => job.victim # 0
    /\ job.kind \in {"idle", "insert", "mark", "sweep"} => job.victim = 0
    /\ job.kind = "mark" => job.victims \subseteq DOMAIN segs
    /\ Sweeping => \A v \in job.victims : v # 0 /\ v <= highest
    /\ Sweeping => \A v \in job.victims \ {job.victim} : job.live[v] = Live(v)
    /\ job.victim # 0 => job.victim \in job.victims /\ job.victim \in DOMAIN segs
    /\ job.victim # 0 /\ (job.copied # 0 \/ job.kind \in {"write", "written", "synced"})
         => Last \notin job.victims
    /\ job.victim # 0 /\ (job.kind = "copy" \/ Writing) =>
         \A h \in marked : index[h].seg = job.victim => index[h].batch >= job.from
    /\ job.victim # 0 /\ Writing => \A h \in marked : index[h] = Old => h \in job.out
    /\ job.kind \in {"remove", "unlinked"} => \A h \in marked : index[h].seg # job.victim

\* A pinned file keeps the batch; no pin lives through a collection.
ReaderInv ==
  mode = "serving" => \A r \in Readers : readers[r].at # None =>
    LET a == readers[r].at
    IN  /\ a.seg \in Visible /\ a.batch \in 1..Len(disk[a.seg])
        /\ readers[r].hash \subseteq disk[a.seg][a.batch].chunks
        /\ Healthy => ~collecting /\ a.seg \in DOMAIN segs /\ a.batch <= segs[a.seg]

StoreInv ==
  /\ TypeInv /\ TicketInv /\ SafeInv /\ RepairInv
  /\ SegmentInv /\ IndexInv /\ SweepInv /\ ReaderInv

-----------------------------------------------------------------------------
(* Facts about the operators of the model.                                 *)

\* A bounded set of naturals has a greatest member.
LEMMA GreatestBounded ==
  ASSUME NEW S \in SUBSET Nat, S # {}, NEW k \in Nat, \A x \in S : x <= k
  PROVE  Greatest(S) \in S /\ \A x \in S : x <= Greatest(S)
<1> DEFINE R == OpToRel(<, Nat)
           T == {k - x : x \in S}
<1>1. T \subseteq Nat /\ T # {} /\ IsWellFoundedOn(R, Nat)
  <2>1. \A x \in S : k - x \in Nat
    OBVIOUS
  <2>2. T \subseteq Nat
    BY <2>1
  <2>3. T # {}
    OBVIOUS
  <2> QED BY <2>2, <2>3, NatLessThanWellFounded
<1>2. \E y \in T : \A z \in T : ~(<<z, y>> \in R)
  <2> HIDE DEF R, T
  <2> QED BY <1>1, WFMin
<1>3. \A a, b \in Nat : <<a, b>> \in R <=> a < b
  BY DEF OpToRel
<1>4. PICK y \in T : \A z \in T : ~(<<z, y>> \in R)
  BY <1>2
<1>5. \A z \in T : ~(z < y)
  <2> HIDE DEF R, T
  <2> QED BY <1>1, <1>3, <1>4
<1>6. PICK m \in S : y = k - m
  OBVIOUS
<1>7. \A x \in S : x <= m
  <2> SUFFICES ASSUME NEW x \in S PROVE x <= m
    OBVIOUS
  <2>1. ~(k - x < k - m)
    BY <1>5, <1>6
  <2> QED BY <2>1
<1> QED BY <1>7 DEF Greatest

\* A nonempty set of naturals has a least member.
LEMMA LeastExists ==
  ASSUME NEW S \in SUBSET Nat, S # {}
  PROVE  \E m \in S : \A x \in S : m <= x
<1> DEFINE R == OpToRel(<, Nat)
<1>1. IsWellFoundedOn(R, Nat)
  BY NatLessThanWellFounded
<1>2. \E y \in S : \A z \in S : ~(<<z, y>> \in R)
  <2> HIDE DEF R
  <2> QED BY <1>1, WFMin
<1>3. \A a, b \in Nat : <<a, b>> \in R <=> a < b
  BY DEF OpToRel
<1>4. PICK y \in S : \A z \in S : ~(<<z, y>> \in R)
  BY <1>2
<1>5. \A z \in S : ~(z < y)
  <2> HIDE DEF R
  <2> QED BY <1>3, <1>4
<1>6. \A z \in S : y <= z
  BY <1>5
<1> QED BY <1>6

\* The last segment of the table.
LEMMA LastSegment ==
  ASSUME TypeInv, TicketInv, mode = "serving", DOMAIN segs # {}
  PROVE  Last \in DOMAIN segs /\ Last \in DOMAIN disk /\ \A s \in DOMAIN segs : s <= Last
<1>1. DOMAIN segs \in SUBSET Nat /\ highest \in Nat
  BY DEF TypeInv, TypeOK
<1>2. \A s \in DOMAIN segs : s <= highest
  BY DEF TypeInv, TypeOK, TicketInv, Assigned
<1>3. Last \in DOMAIN segs /\ \A s \in DOMAIN segs : s <= Last
  BY <1>1, <1>2, GreatestBounded DEF Last
<1> QED BY <1>3 DEF TypeInv, TypeOK

\* A batch position is a batch.
LEMMA BatchAt ==
  ASSUME TypeInv, NEW s \in DOMAIN disk
  PROVE  /\ disk[s] \in Seq(BatchType) /\ Len(disk[s]) \in Nat
         /\ DOMAIN disk[s] = 1..Len(disk[s])
         /\ \A i \in 1..Len(disk[s]) : disk[s][i] \in BatchType
<1>1. disk[s] \in Seq(BatchType)
  BY DEF TypeInv, TypeOK
<1> QED BY <1>1, LenProperties, ElementOfSeq

\* Tickets are naturals.
LEMMA AssignedNat ==
  ASSUME TypeInv PROVE \A x \in Assigned : x \in Nat
<1>1. births \in Seq(Nat)
  BY DEF TypeInv, TypeOK
<1>2. \A i \in DOMAIN births : births[i] \in Nat
  BY <1>1, LenProperties, ElementOfSeq
<1>3. DOMAIN disk \subseteq Nat /\ others \subseteq Nat /\ archived \subseteq Nat
  BY DEF TypeInv, TypeOK
<1> QED BY <1>2, <1>3 DEF Assigned

\* A step of a healthy store.
LEMMA HealthyStep ==
  ASSUME Healthy, mode' = mode, failed' = failed, TypeInv', TicketInv', SegmentInv',
         IndexInv', SweepInv', ReaderInv'
  PROVE  StoreInv'
BY DEF StoreInv, SafeInv, RepairInv, Healthy

\* A step that leaves the names alone.
LEMMA NamesKept ==
  ASSUME TicketInv, UNCHANGED <<disk, unlinked, stub, archived, others, highest, births>>,
         UNCHANGED <<mode, failed>>, job'.kind # "creating" => job.kind # "creating"
  PROVE  TicketInv'
BY DEF TicketInv, Assigned, Top, Visible, Healthy

\* A step that leaves files, index and readers alone keeps every pin.
LEMMA PinsKept ==
  ASSUME ReaderInv,
         UNCHANGED <<disk, unlinked, segs, readers, mode, failed, collecting>>
  PROVE  ReaderInv'
BY DEF ReaderInv, Visible, Healthy

\* The last segment and the live chunks depend on table, index and marks.
LEMMA SameLast ==
  ASSUME UNCHANGED <<segs, index, marked>>
  PROVE  Last' = Last /\ \A v : Live(v)' = Live(v)
BY DEF Last, Live

\* A step of the worker that changes its own transaction only.
LEMMA JobStep ==
  ASSUME StoreInv, Healthy, job' \in JobType,
         UNCHANGED <<files, roots, mode, state, readers, births>>, outputs' \in Nat,
         crashes' = crashes, job'.kind # "creating", job.kind # "creating",
         SegmentInv', IndexInv', SweepInv'
  PROVE  StoreInv'
<1>1. TypeInv'
  BY DEF StoreInv, TypeInv, TypeOK, Healthy
<1>2. TicketInv' /\ ReaderInv'
  BY NamesKept, PinsKept DEF StoreInv
<1> QED BY <1>1, <1>2, HealthyStep

-----------------------------------------------------------------------------
(* The worker's own steps.                                                 *)

\* A reference of a committed root is indexed.
LEMMA BeginOutputInv ==
  ASSUME StoreInv, NEW o \in Roots, NEW new \in SUBSET Hashes,
         NEW chunks \in SUBSET new, BeginOutput(o, new, chunks)
  PROVE  StoreInv'
<1> USE DEF BeginOutput
<1>1. Idle \in JobType /\ job.kind = "idle"
  BY DEF Idle, JobType, Lives
<1>2. /\ job' \in JobType
      /\ job'.kind = "insert" /\ job'.new = new /\ job'.want = chunks
      /\ job'.out = {} /\ job'.victim = 0
  BY <1>1 DEF Idle, JobType
<1>3. roots[o] \subseteq Needed
  BY DEF Needed
<1>4. \A h \in new \ chunks : index[h] # None
  BY <1>3 DEF StoreInv, IndexInv
<1>5. SegmentInv' /\ SweepInv'
  BY <1>1, <1>2 DEF StoreInv, SegmentInv, SweepInv, Sweeping, Writing, Healthy
<1>6. ~Sweeping
  BY <1>1 DEF StoreInv, SweepInv, Sweeping
<1>7. IndexInv'
  BY <1>2, <1>4, <1>6 DEF StoreInv, IndexInv, Sweeping, Writing, Healthy, Holds, Visible,
    Needed, Held
<1>8. outputs' \in Nat
  BY DEF StoreInv, TypeInv, TypeOK
<1> QED BY <1>1, <1>2, <1>5, <1>7, <1>8, JobStep

\* Chunks already indexed are reused, the others are written.
LEMMA InsertInv ==
  ASSUME StoreInv, NEW chunks \in SUBSET job.want, Insert(chunks)
  PROVE  StoreInv'
<1> USE DEF Insert
<1>1. job \in JobType /\ job.kind = "insert" /\ Missing(chunks) \in SUBSET Hashes
  BY DEF StoreInv, TypeInv, JobType, Missing
<1>2. /\ job' \in JobType
      /\ job'.kind = IF Missing(chunks) = {} THEN "insert"
                      ELSE IF NeedsSegment(Missing(chunks)) THEN "create" ELSE "write"
      /\ job'.new = job.new /\ job'.want = job.want \ chunks
      /\ job'.out = Missing(chunks) /\ job'.victim = job.victim
  BY <1>1 DEF JobType
<1>3. job.victim = 0 /\ job.out = {} /\ ~Sweeping
  BY <1>1 DEF StoreInv, SweepInv, IndexInv, Sweeping
<1>4. job'.kind = "write" => DOMAIN segs # {}
  <2>1. DOMAIN segs = {} => NeedsSegment(Missing(chunks))
    BY DEF NeedsSegment
  <2> HIDE DEF Insert
  <2> QED BY <1>2, <2>1
<1>5. SegmentInv' /\ SweepInv'
  BY <1>1, <1>2, <1>3, <1>4 DEF StoreInv, SegmentInv, SweepInv, Sweeping, Writing, Healthy
<1>6. \A h \in job.new : index[h] # None \/ h \in job'.want \cup job'.out
  BY <1>1, <1>2, <1>3 DEF StoreInv, IndexInv, Missing
<1>7. IndexInv'
  BY <1>2, <1>3, <1>6 DEF StoreInv, IndexInv, Sweeping, Writing, Healthy, Holds, Visible,
    Needed, Held
<1>8. outputs' \in Nat
  BY DEF StoreInv, TypeInv, TypeOK
<1> QED BY <1>1, <1>2, <1>5, <1>7, <1>8, JobStep

\* The walk has visited every reference.
LEMMA FinishMarkingInv ==
  ASSUME StoreInv, FinishMarking PROVE StoreInv'
<1> USE DEF FinishMarking
<1>1. job \in JobType /\ job.kind = "mark" /\ job.victims \subseteq Nat
  BY DEF StoreInv, TypeInv, JobType
<1>2. \A s \in job.victims : Live(s) \in Nat
  BY StoreAssumption, FS_Subset, FS_CardinalityType DEF Live, StoreInv, TypeInv, TypeOK
<1>3. [s \in job.victims |-> Live(s)] \in Lives
  BY <1>1, <1>2 DEF Lives
<1>4. /\ job' \in JobType /\ job'.kind = "sweep" /\ job'.victims = job.victims
      /\ job'.live = [s \in job.victims |-> Live(s)] /\ job'.victim = job.victim
      /\ job'.out = job.out
  BY <1>1, <1>3 DEF JobType
<1>5. job.victim = 0 /\ ~Sweeping /\ job.victims \subseteq DOMAIN segs
  BY <1>1 DEF StoreInv, SweepInv, Sweeping
<1>6. \A v \in job.victims : v # 0 /\ v <= highest
  BY <1>5 DEF StoreInv, TypeInv, TypeOK, TicketInv, Assigned, Healthy
<1>7. SegmentInv'
  BY <1>1, <1>4 DEF StoreInv, SegmentInv, Healthy
<1>8. SweepInv'
  BY <1>4, <1>5, <1>6 DEF SweepInv, Sweeping, Writing, Live
<1>9. Needed \subseteq marked
  BY DEF Walked
<1>10. IndexInv'
  BY <1>1, <1>4, <1>5, <1>9 DEF StoreInv, IndexInv, Sweeping, Writing, Healthy, Holds, Visible,
    Needed, Held
<1>11. outputs' \in Nat
  BY DEF StoreInv, TypeInv, TypeOK
<1> QED BY <1>1, <1>4, <1>7, <1>8, <1>10, <1>11, JobStep

\* A victim is kept, emptied or copied.
LEMMA StartVictimInv ==
  ASSUME StoreInv, NEW v \in job.victims, StartVictim(v) PROVE StoreInv'
<1> USE DEF StartVictim
<1>1. job \in JobType /\ job.kind = "sweep" /\ v \in Nat /\ v \in DOMAIN segs
  BY DEF StoreInv, TypeInv, JobType
<1>2. v # 0
  BY <1>1 DEF StoreInv, TypeInv, TypeOK
<1>3. job.victim = 0 /\ Sweeping /\ job.live[v] = Live(v)
  BY <1>1, <1>2 DEF StoreInv, SweepInv, Sweeping
<1>4. ASSUME job.live[v] = 0 PROVE \A h \in marked : index[h].seg # v
  <2>1. IsFiniteSet({h \in marked : index[h].seg = v})
    BY StoreAssumption, FS_Subset DEF StoreInv, TypeInv, TypeOK
  <2>2. {h \in marked : index[h].seg = v} = {}
    BY <1>3, <1>4, <2>1, FS_EmptySet DEF Live
  <2> QED BY <2>2
<1>5. outputs' \in Nat
  BY DEF StoreInv, TypeInv, TypeOK
<1>6. CASE KeepVictim(v)
  <2>1. /\ job' \in JobType /\ job'.kind = "sweep" /\ job'.victims = job.victims \ {v}
        /\ job'.live = job.live /\ job'.victim = 0 /\ job'.out = job.out
    BY <1>1, <1>3, <1>6 DEF JobType
  <2>2. SegmentInv' /\ SweepInv'
    <3>1. SegmentInv'
      BY <1>1, <2>1 DEF StoreInv, SegmentInv, Healthy
    <3>2. SweepInv'
      BY <1>1, <1>3, <2>1, SameLast DEF StoreInv, SweepInv, Sweeping, Writing, Healthy
    <3> QED BY <3>1, <3>2
  <2>3. IndexInv'
    BY <1>1, <1>3, <2>1 DEF StoreInv, IndexInv, Sweeping, Writing, Healthy, Holds, Visible,
      Needed, Held
  <2> QED BY <1>1, <1>5, <2>1, <2>2, <2>3, JobStep
<1>7. CASE ~KeepVictim(v)
  <2>1. /\ job' \in JobType /\ job'.victims = job.victims
        /\ job'.kind = IF job.live[v] = 0 THEN "remove" ELSE "copy"
        /\ job'.live = job.live /\ job'.victim = v /\ job'.out = job.out
        /\ job'.from = 1 /\ job'.copied = 0
    BY <1>1, <1>3, <1>7 DEF JobType
  <2>2. SegmentInv'
    BY <1>1, <2>1 DEF StoreInv, SegmentInv, Healthy
  <2>3. \A h \in marked : index[h].batch >= 1
    BY <1>3 DEF StoreInv, IndexInv, Holds, TypeInv, TypeOK
  <2>4. SweepInv'
    <3>1. UNCHANGED <<segs, index, marked, highest, mode, failed>> /\ Healthy
      OBVIOUS
    <3>2. job.live[v] # 0 => job'.kind = "copy"
      BY <2>1
    <3> HIDE DEF StartVictim
    <3>3. /\ \A u \in job'.victims : u # 0 /\ u <= highest'
          /\ \A u \in job'.victims \ {job'.victim} : job'.live[u] = Live(u)'
          /\ job'.victim \in job'.victims /\ job'.victim \in DOMAIN segs'
      <4>1. /\ \A u \in job.victims : u # 0 /\ u <= highest
            /\ \A u \in job.victims \ {job.victim} : job.live[u] = Live(u)
        BY <1>3, <3>1 DEF StoreInv, SweepInv
      <4>2. \A u : Live(u)' = Live(u)
        BY <3>1, SameLast
      <4>3. \A u \in job.victims \ {v} : u # job.victim
        BY <1>3, <4>1
      <4> QED BY <1>1, <2>1, <3>1, <4>1, <4>2, <4>3
    <3> QED BY <1>2, <1>4, <2>1, <2>3, <3>1, <3>2, <3>3 DEF SweepInv, Sweeping, Writing
  <2>5. IndexInv'
    BY <1>1, <1>2, <1>3, <2>1 DEF StoreInv, IndexInv, Sweeping, Writing, Healthy, Holds, Visible,
      Needed, Held
  <2> QED BY <1>1, <1>5, <2>1, <2>2, <2>4, <2>5, JobStep
<1> QED BY <1>6, <1>7

\* The live chunks of the next batch of a victim.
LEMMA CopyBatchInv ==
  ASSUME StoreInv, CopyBatch PROVE StoreInv'
<1> USE DEF CopyBatch
<1>1. /\ job \in JobType /\ job.kind = "copy" /\ job.victim # 0
      /\ job.victim \in DOMAIN segs /\ Sweeping
  BY DEF StoreInv, TypeInv, SweepInv, Sweeping
<1>2. /\ job.from \in Nat /\ job.from + 1 \in Nat /\ job.victim \in Nat
      /\ LiveHere \in SUBSET Hashes
  BY <1>1 DEF JobType, LiveHere, StoreInv, TypeInv, TypeOK
<1>3. /\ \A h \in marked : index[h] # None /\ Holds(index[h], h)
      /\ \A h \in marked : index[h] \in Address
  BY <1>1 DEF StoreInv, IndexInv, TypeInv, TypeOK
<1>4. \A h \in marked : index[h] = Old => h \in LiveHere
  BY <1>3 DEF LiveHere, Old, Holds
<1>5. \A h \in marked : index[h].seg = job.victim => index[h].batch >= job.from
  BY <1>1 DEF StoreInv, SweepInv
<1>6. outputs' \in Nat
  BY DEF StoreInv, TypeInv, TypeOK
<1>7. CASE LiveHere = {}
  <2>1. /\ job' \in JobType /\ job'.kind = "copy" /\ job'.victims = job.victims
        /\ job'.live = job.live /\ job'.victim = job.victim /\ job'.out = job.out
        /\ job'.from = job.from + 1 /\ job'.copied = job.copied
    BY <1>1, <1>2, <1>7 DEF JobType
  <2>2. \A h \in marked : index[h].seg = job.victim => index[h].batch >= job.from + 1
    <3> SUFFICES ASSUME NEW h \in marked, index[h].seg = job.victim
                 PROVE  index[h].batch >= job.from + 1
      OBVIOUS
    <3>1. index[h] \in Address /\ index[h] # Old
      BY <1>3, <1>4, <1>7
    <3>2. index[h].batch # job.from
      BY <3>1 DEF Address, Old
    <3>3. index[h].batch \in Nat
      BY <3>1 DEF Address
    <3> QED BY <1>2, <1>5, <3>2, <3>3
  <2>3. SegmentInv' /\ SweepInv'
    <3>1. SegmentInv'
      BY <1>1, <2>1 DEF StoreInv, SegmentInv, Healthy
    <3>2. SweepInv'
      BY <1>1, <2>1, <2>2, SameLast DEF StoreInv, SweepInv, Sweeping, Writing, Healthy
    <3> QED BY <3>1, <3>2
  <2>4. IndexInv'
    BY <1>1, <2>1 DEF StoreInv, IndexInv, Sweeping, Writing, Healthy, Holds, Visible,
      Needed, Held
  <2> QED BY <1>1, <1>6, <2>1, <2>3, <2>4, JobStep
<1>8. CASE LiveHere # {}
  <2>1. /\ job' \in JobType /\ job'.victims = job.victims
        /\ job'.kind = IF job.copied = 0 THEN "create" ELSE "write"
        /\ job'.live = job.live /\ job'.victim = job.victim /\ job'.out = LiveHere
        /\ job'.from = job.from /\ job'.copied = job.copied
    BY <1>1, <1>2, <1>8 DEF JobType
  <2>2. SegmentInv' /\ SweepInv'
    <3>1. SegmentInv'
      BY <1>1, <2>1 DEF StoreInv, SegmentInv, Healthy
    <3>2. SweepInv'
      BY <1>1, <1>4, <2>1, SameLast DEF StoreInv, SweepInv, Sweeping, Writing, Healthy, Old
    <3> QED BY <3>1, <3>2
  <2>3. IndexInv'
    BY <1>1, <2>1 DEF StoreInv, IndexInv, Sweeping, Writing, Healthy, Holds, Visible,
      Needed, Held
  <2> QED BY <1>1, <1>6, <2>1, <2>2, <2>3, JobStep
<1> QED BY <1>7, <1>8

\* Every batch of the victim is copied: nothing marked is left in it.
LEMMA CopiedAllInv ==
  ASSUME StoreInv, CopiedAll PROVE StoreInv'
<1> USE DEF CopiedAll
<1>1. /\ job \in JobType /\ job.kind = "copy" /\ job.victim # 0
      /\ job.victim \in DOMAIN segs /\ Sweeping
  BY DEF StoreInv, TypeInv, SweepInv, Sweeping
<1>2. /\ job' \in JobType /\ job'.kind = "remove" /\ job'.victims = job.victims
      /\ job'.live = job.live /\ job'.victim = job.victim /\ job'.out = job.out
      /\ job'.from = job.from /\ job'.copied = job.copied
  BY <1>1 DEF JobType
<1>3. ASSUME NEW h \in marked PROVE index[h].seg # job.victim
  <2>1. Holds(index[h], h) /\ index[h] \in Address
    BY <1>1 DEF StoreInv, IndexInv, TypeInv, TypeOK
  <2>2. index[h].seg = job.victim => index[h].batch >= job.from
    BY <1>1 DEF StoreInv, SweepInv
  <2>3. index[h].seg = job.victim => index[h].batch <= segs[job.victim]
    BY <2>1 DEF Holds, StoreInv, TypeInv, TypeOK
  <2>4. segs[job.victim] \in Nat /\ job.from \in Nat /\ index[h].batch \in Nat
    BY <1>1, <2>1 DEF JobType, Address, StoreInv, TypeInv, TypeOK
  <2> QED BY <2>2, <2>3, <2>4
<1>4. SegmentInv' /\ SweepInv'
  <2>1. SegmentInv'
    BY <1>1, <1>2 DEF StoreInv, SegmentInv, Healthy
  <2>2. SweepInv'
    BY <1>1, <1>2, <1>3, SameLast DEF StoreInv, SweepInv, Sweeping, Writing, Healthy
  <2> QED BY <2>1, <2>2
<1>5. IndexInv'
  BY <1>1, <1>2 DEF StoreInv, IndexInv, Sweeping, Writing, Healthy, Holds, Visible,
    Needed, Held
<1>6. outputs' \in Nat
  BY DEF StoreInv, TypeInv, TypeOK
<1> QED BY <1>1, <1>2, <1>4, <1>5, <1>6, JobStep

\* A name appears.
LEMMA BeginCreateInv ==
  ASSUME StoreInv, BeginCreate PROVE StoreInv'
<1> USE DEF BeginCreate
<1>1. job \in JobType /\ job.kind = "create" /\ highest \in Nat
  BY DEF StoreInv, TypeInv, TypeOK
<1>2. /\ job' \in JobType /\ job'.kind = "creating" /\ job'.victims = job.victims
      /\ job'.live = job.live /\ job'.victim = job.victim /\ job'.out = job.out
      /\ job'.from = job.from /\ job'.copied = job.copied /\ job'.new = job.new
      /\ job'.want = job.want
  BY <1>1 DEF JobType
<1>3. TypeInv'
  BY <1>1, <1>2 DEF StoreInv, TypeInv, TypeOK, Healthy
<1>4. TicketInv'
  BY <1>1, <1>2 DEF StoreInv, TicketInv, Assigned, Top, Visible, Healthy
<1>5. SegmentInv'
  BY <1>1, <1>2 DEF StoreInv, SegmentInv, Healthy
<1>6. SweepInv'
  BY <1>1, <1>2, SameLast DEF StoreInv, SweepInv, Sweeping, Writing, Healthy, Old
<1>7. IndexInv'
  BY <1>1, <1>2 DEF StoreInv, IndexInv, Sweeping, Writing, Healthy, Holds, Visible,
    Needed, Held
<1>8. ReaderInv'
  BY PinsKept DEF StoreInv
<1> QED BY <1>3, <1>4, <1>5, <1>6, <1>7, <1>8, HealthyStep

\* A ticket above every ticket assigned before.
LEMMA NewTicket ==
  ASSUME StoreInv, Healthy, NEW number, number = highest + 1, highest' = number,
         births' = Append(births, number), stub' = {}, UNCHANGED <<mode, failed>>,
         (DOMAIN disk' \cup others' \cup archived')
           \subseteq (DOMAIN disk \cup others \cup archived) \cup {number},
         number \in Top'
  PROVE  TicketInv'
<1>1. births \in Seq(Nat) /\ highest \in Nat /\ number \in Nat /\ mode = "serving"
  BY DEF StoreInv, TypeInv, TypeOK, Healthy
<1>2. /\ Len(births) \in Nat /\ DOMAIN births = 1..Len(births)
      /\ DOMAIN births' = 1..(Len(births) + 1)
      /\ births'[Len(births) + 1] = number
      /\ \A i \in DOMAIN births : births'[i] = births[i]
  BY <1>1, AppendProperties, LenProperties
<1>3. \A x \in Assigned : x \in Nat /\ x <= highest
  BY <1>1, AssignedNat DEF StoreInv, TicketInv
<1>4. \A i \in DOMAIN births : births[i] \in Assigned
  BY DEF Assigned
<1>5. \A i \in DOMAIN births' : i \in DOMAIN births \/ i = Len(births) + 1
  BY <1>2
<1>6. Assigned' \subseteq Assigned \cup {number}
  BY <1>2, <1>5 DEF Assigned
<1>7. \A i, j \in DOMAIN births' : births'[i] = births'[j] => i = j
  BY <1>1, <1>2, <1>3, <1>4, <1>5 DEF StoreInv, TicketInv
<1>8. \A x \in Assigned' : x <= number
  BY <1>1, <1>3, <1>6
<1> QED BY <1>1, <1>7, <1>8 DEF TicketInv

\* A new, empty segment above every other.
LEMMA NewSegment ==
  ASSUME StoreInv, FinishCreate, NEW number, number = highest + 1
  PROVE  /\ DOMAIN disk \subseteq Nat /\ number \notin DOMAIN disk /\ number \in Nat \ {0}
         /\ \A s \in DOMAIN disk : s <= highest
         /\ DOMAIN segs \subseteq Visible /\ Visible \subseteq DOMAIN disk
         /\ DOMAIN disk' = Visible \cup {number} /\ disk'[number] = <<>>
         /\ \A s \in Visible : disk'[s] = disk[s]
         /\ DOMAIN segs' = DOMAIN segs \cup {number} /\ segs'[number] = 0
         /\ \A s \in DOMAIN segs : segs'[s] = segs[s]
         /\ Visible' = Visible \cup {number} /\ Last' = number
<1>1. job.kind = "creating" /\ highest \in Nat /\ Healthy
  BY DEF StoreInv, TypeInv, TypeOK, FinishCreate
<1>2. /\ DOMAIN disk \subseteq Nat /\ number \notin DOMAIN disk /\ number \in Nat \ {0}
      /\ \A s \in DOMAIN disk : s <= highest
  BY <1>1 DEF StoreInv, TypeInv, TypeOK, TicketInv, Assigned, Healthy
<1>3. DOMAIN segs \subseteq Visible /\ Visible \subseteq DOMAIN disk
  BY <1>1 DEF StoreInv, SegmentInv, TypeInv, TypeOK, Visible
<1>4. /\ DOMAIN disk' = Visible \cup {number} /\ disk'[number] = <<>>
      /\ \A s \in Visible : disk'[s] = disk[s]
      /\ DOMAIN segs' = DOMAIN segs \cup {number} /\ segs'[number] = 0
      /\ \A s \in DOMAIN segs : segs'[s] = segs[s]
      /\ unlinked' = {}
  BY <1>2, <1>3 DEF FinishCreate
<1>5. Visible' = Visible \cup {number}
  BY <1>4 DEF Visible
<1>6. Last' = number
  <2>1. \A s \in DOMAIN segs : s \in Nat /\ s <= highest
    BY <1>2, <1>3
  <2>2. DOMAIN segs' \in SUBSET Nat /\ number \in DOMAIN segs' /\ \A s \in DOMAIN segs' : s <= number
    BY <1>1, <1>2, <1>4, <2>1
  <2>3. Greatest(DOMAIN segs') \in DOMAIN segs' /\ \A s \in DOMAIN segs' : s <= Greatest(DOMAIN segs')
    BY <1>2, <2>2, GreatestBounded
  <2> QED BY <2>2, <2>3 DEF Last
<1> QED BY <1>2, <1>3, <1>4, <1>5, <1>6

\* The header is durable and the ticket assigned: a number above every other.
LEMMA FinishCreateInv ==
  ASSUME StoreInv, FinishCreate PROVE StoreInv'
<1> DEFINE number == highest + 1
<1>1. job \in JobType /\ job.kind = "creating" /\ highest \in Nat /\ Healthy
  BY DEF StoreInv, TypeInv, TypeOK, FinishCreate
<1>2. /\ job' \in JobType /\ job'.kind = "write" /\ job'.victims = job.victims
      /\ job'.live = job.live /\ job'.victim = job.victim /\ job'.out = job.out
      /\ job'.from = job.from /\ job'.copied = job.copied /\ job'.new = job.new
      /\ job'.want = job.want
  BY <1>1 DEF JobType, FinishCreate
<1>3. /\ DOMAIN disk \subseteq Nat /\ number \notin DOMAIN disk /\ number \in Nat \ {0}
      /\ \A s \in DOMAIN disk : s <= highest
  BY NewSegment
<1>4. DOMAIN segs \subseteq Visible /\ Visible \subseteq DOMAIN disk
  BY NewSegment
<1>5. /\ DOMAIN disk' = Visible \cup {number} /\ disk'[number] = <<>>
      /\ \A s \in Visible : disk'[s] = disk[s]
      /\ DOMAIN segs' = DOMAIN segs \cup {number} /\ segs'[number] = 0
      /\ \A s \in DOMAIN segs : segs'[s] = segs[s]
      /\ stub' = stub \ {number} /\ highest' = number
      /\ births' = Append(births, number) /\ unlinked' = {}
      /\ UNCHANGED <<archived, others, roots, mode, failed, collecting, index,
                     marked, sealed, readers, outputs, crashes>>
  BY NewSegment DEF FinishCreate
<1>6. Visible' = Visible \cup {number}
  BY NewSegment
<1> HIDE DEF number
<1>7. births' \in Seq(Nat)
  BY <1>3, <1>5, AppendProperties DEF StoreInv, TypeInv, TypeOK
<1>9. TypeInv'
  <2>1. \A s \in DOMAIN disk' : disk'[s] \in Seq(BatchType) /\ Len(disk'[s]) <= Capacity
    <3>1. <<>> \in Seq(BatchType) /\ Len(<<>>) = 0 /\ 0 <= Capacity
      BY StoreAssumption, EmptySeq
    <3>2. \A s \in DOMAIN disk : disk[s] \in Seq(BatchType) /\ Len(disk[s]) <= Capacity
      BY DEF StoreInv, TypeInv, TypeOK
    <3> QED BY <1>4, <1>5, <3>1, <3>2
  <2>2. \A s \in DOMAIN segs' : segs'[s] \in 0..Len(disk'[s])
    BY <1>4, <1>5, EmptySeq DEF StoreInv, TypeInv, TypeOK
  <2> QED BY <1>1, <1>2, <1>3, <1>4, <1>5, <1>7, <2>1, <2>2 DEF StoreInv, TypeInv, TypeOK, Healthy
<1>10. TicketInv'
  <2>1. number = highest + 1 /\ number \in Top'
    BY <1>6 DEF Top, number
  <2>2. stub' = {}
    BY <1>1, <1>5, <2>1 DEF StoreInv, TicketInv, Healthy
  <2>3. (DOMAIN disk' \cup others' \cup archived')
          \subseteq (DOMAIN disk \cup others \cup archived) \cup {number}
    BY <1>4, <1>5
  <2> QED BY <1>1, <1>5, <2>1, <2>2, <2>3, NewTicket
<1>11. Last' = number
  BY NewSegment DEF number
<1>12. SegmentInv'
  BY <1>1, <1>2, <1>3, <1>4, <1>5 DEF StoreInv, SegmentInv, Healthy
<1>14. IndexInv'
  <2>1. Needed' = Needed
    BY <1>5 DEF Needed, Held
  <2>2. \A h \in Hashes : Holds(index[h], h) => Holds(index[h], h)'
    BY <1>3, <1>4, <1>5, <1>6 DEF Holds
  <2> QED BY <1>1, <1>2, <1>5, <2>1, <2>2 DEF StoreInv, IndexInv, Sweeping, Writing, Healthy
<1>15. SweepInv'
  <2>1. \A v : Live(v)' = Live(v)
    BY <1>5 DEF Live
  <2>2. \A v \in job.victims : v \in Nat
    BY <1>1 DEF JobType
  <2>3. Sweeping => number \notin job.victims /\ \A v \in job.victims : v <= number
    BY <1>1, <2>2 DEF StoreInv, SweepInv, number
  <2> QED BY <1>1, <1>2, <1>5, <1>11, <2>1, <2>3 DEF StoreInv, SweepInv, Sweeping, Writing,
            Healthy, Old
<1>16. ReaderInv'
  BY <1>1, <1>3, <1>4, <1>5, <1>6 DEF StoreInv, ReaderInv, Healthy
<1> QED BY <1>1, <1>5, <1>9, <1>10, <1>12, <1>14, <1>15, <1>16, HealthyStep

\* The file of the last segment grows behind its published batches, or is synced.
LEMMA LastFileStep ==
  ASSUME StoreInv, Healthy, job.kind \in {"write", "written"}, NEW L, L = Last, NEW q,
         q \in Seq(BatchType), Len(q) = segs[L] + 1, Len(q) <= Capacity,
         \A i \in 1..segs[L] : q[i].st = "synced" /\ q[i].chunks = disk[L][i].chunks,
         q[segs[L] + 1].chunks = job.out, disk' = [disk EXCEPT ![L] = q],
         NEW k, job' = [job EXCEPT !.kind = k],
         \/ k = "written" /\ q[segs[L] + 1].st = "issued"
         \/ k = "synced" /\ q[segs[L] + 1].st = "synced",
         UNCHANGED <<stub, unlinked, archived, others, roots, mode, state, readers,
                     births, counts>>
  PROVE  StoreInv'
<1>1. /\ job \in JobType /\ mode = "serving" /\ job.kind # "creating"
      /\ DOMAIN segs # {} /\ DOMAIN segs \cap unlinked = {}
  BY DEF StoreInv, TypeInv, SegmentInv, Healthy
<1>2. L \in DOMAIN segs /\ L \in DOMAIN disk /\ L \in Visible
  BY <1>1, LastSegment DEF StoreInv, Visible
<1>3. /\ job' \in JobType /\ job'.kind = k /\ job'.victims = job.victims
      /\ job'.live = job.live /\ job'.victim = job.victim /\ job'.out = job.out
      /\ job'.from = job.from /\ job'.copied = job.copied /\ job'.new = job.new
      /\ job'.want = job.want
  BY <1>1 DEF JobType
<1>4. /\ DOMAIN disk' = DOMAIN disk /\ disk'[L] = q /\ Visible' = Visible
      /\ \A s \in DOMAIN disk : s # L => disk'[s] = disk[s]
  BY <1>2 DEF Visible
<1>5. segs[L] \in Nat /\ segs[L] <= Len(disk[L])
  BY <1>2 DEF StoreInv, TypeInv, TypeOK
<1>6. TypeInv'
  <2>1. \A s \in DOMAIN disk : disk'[s] \in Seq(BatchType) /\ Len(disk'[s]) <= Capacity
    BY <1>4 DEF StoreInv, TypeInv, TypeOK
  <2>2. \A s \in DOMAIN segs : segs[s] \in 0..Len(disk'[s])
    BY <1>4, <1>5 DEF StoreInv, TypeInv, TypeOK
  <2> QED BY <1>1, <1>3, <1>4, <2>1, <2>2 DEF StoreInv, TypeInv, TypeOK
<1>7. TicketInv'
  BY <1>1, <1>3, <1>4 DEF StoreInv, TicketInv, Assigned, Top, Healthy
<1>8. Last' = L /\ \A v : Live(v)' = Live(v)
  BY SameLast
<1>9. SegmentInv'
  <2>1. \A s \in DOMAIN segs : \A i \in 1..segs[s] : disk'[s][i].st = "synced"
    BY <1>1, <1>4, ZenonT(60) DEF StoreInv, SegmentInv, TypeInv, TypeOK
  <2> QED BY <1>1, <1>3, <1>4, <1>8, <2>1 DEF SegmentInv
<1>10. IndexInv'
  <2>1. Needed' = Needed
    BY DEF Needed, Held
  <2>2. \A h \in Hashes : Holds(index[h], h) => Holds(index[h], h)'
    <3> SUFFICES ASSUME NEW h \in Hashes, Holds(index[h], h) PROVE Holds(index[h], h)'
      OBVIOUS
    <3> DEFINE a == index[h]
    <3>1. a = index'[h] /\ a.seg \in DOMAIN segs /\ a.seg \in Visible /\ a.batch \in 1..segs[a.seg]
      BY DEF Holds
    <3>2. CASE a.seg = L
      <4>1. q[a.batch].st = "synced" /\ q[a.batch].chunks = disk[L][a.batch].chunks
        BY <3>1, <3>2
      <4>2. a.batch <= Len(q)
        BY <1>5, <3>1, <3>2
      <4> QED BY <1>4, <3>1, <3>2, <4>1, <4>2 DEF Holds
    <3>3. CASE a.seg # L
      <4>1. disk'[a.seg] = disk[a.seg]
        BY <1>4, <3>1, <3>3 DEF Visible
      <4> QED BY <1>4, <3>1, <4>1 DEF Holds
    <3> QED BY <3>2, <3>3
  <2> QED BY <1>1, <1>3, <2>1, <2>2 DEF StoreInv, IndexInv, Sweeping, Writing, Healthy
<1>11. SweepInv'
  BY <1>1, <1>3, <1>8 DEF StoreInv, SweepInv, Sweeping, Writing, Healthy, Old
<1>12. ReaderInv'
  <2> SUFFICES ASSUME NEW r \in Readers, readers[r].at # None
               PROVE  LET a == readers[r].at
                      IN  /\ a.seg \in Visible /\ a.batch \in 1..Len(disk'[a.seg])
                          /\ readers[r].hash \subseteq disk'[a.seg][a.batch].chunks
                          /\ ~collecting /\ a.seg \in DOMAIN segs /\ a.batch <= segs[a.seg]
    BY <1>4 DEF ReaderInv
  <2> DEFINE a == readers[r].at
  <2>1. /\ a.seg \in Visible /\ a.batch \in 1..Len(disk[a.seg])
        /\ readers[r].hash \subseteq disk[a.seg][a.batch].chunks
        /\ ~collecting /\ a.seg \in DOMAIN segs /\ a.batch <= segs[a.seg]
    BY <1>1 DEF StoreInv, ReaderInv
  <2>2. CASE a.seg = L
    <3>1. a.batch \in 1..segs[L] /\ a.batch \in 1..Len(q)
      BY <1>5, <2>1, <2>2
    <3> QED BY <1>4, <2>1, <2>2, <3>1
  <2>3. CASE a.seg # L
    BY <1>4, <2>1, <2>3 DEF Visible
  <2> QED BY <2>2, <2>3
<1> QED BY <1>6, <1>7, <1>9, <1>10, <1>11, <1>12, HealthyStep

\* The batch is written behind the published ones and fits its segment.
LEMMA WriteBatchInv ==
  ASSUME StoreInv, WriteBatch PROVE StoreInv'
<1> USE DEF WriteBatch
<1> DEFINE L == Last
           n == segs[L]
           p == SubSeq(disk[L], 1, n)
           b == Batch(job.out)
           q == Append(p, b)
<1>1. /\ Healthy /\ job.kind = "write" /\ L \in DOMAIN segs /\ L \in DOMAIN disk
      /\ job.out \in SUBSET Hashes
  BY LastSegment DEF StoreInv, SegmentInv, TypeInv, Healthy, JobType
<1>2. disk[L] \in Seq(BatchType) /\ n \in 0..Len(disk[L])
  BY <1>1 DEF StoreInv, TypeInv, TypeOK
<1>3. b \in BatchType /\ b.chunks = job.out /\ b.st = "issued"
  BY <1>1 DEF Batch, BatchType
<1>4. Len(disk[L]) \in Nat /\ n \in Nat
  BY <1>2, LenProperties
<1>5. p \in Seq(BatchType) /\ Len(p) = n /\ \A i \in 1..n : p[i] = disk[L][i]
  <2> HIDE DEF L, n
  <2>1. \A i \in 1..n : i \in 1..Len(disk[L])
    BY <1>2, <1>4
  <2> QED BY <1>2, <1>4, <2>1, SubSeqProperties
<1>6. /\ q \in Seq(BatchType) /\ Len(q) = n + 1 /\ q[n + 1] = b
      /\ \A i \in 1..n : q[i] = p[i]
  <2> HIDE DEF L, n, p, b
  <2> QED BY <1>3, <1>4, <1>5, AppendProperties
<1>7. n + 1 <= Capacity
  <2> DEFINE X == {c \in (1..n) \X Hashes : c[2] \in disk[L][c[1]].chunks}
  <2>1. IsFiniteSet((1..n) \X Hashes)
    <3> HIDE DEF n
    <3>1. IsFiniteSet(1..n)
      <4>1. 1 \in Int /\ n \in Int
        BY <1>4
      <4> QED BY <4>1, FS_Interval
    <3> QED BY <3>1, StoreAssumption, FS_Product
  <2>2. Cardinality(X) \in Nat
    <3> HIDE DEF n, L
    <3> QED BY <2>1, FS_Subset, FS_CardinalityType
  <2>3. Cardinality(job.out) \in Nat
    BY <1>1, StoreAssumption, FS_Subset, FS_CardinalityType
  <2>4. Cardinality(job.out) + 1 <= Capacity - (1 + n + Cardinality(X))
    BY DEF OutputFits, End
  <2> HIDE DEF n, X
  <2> QED BY <1>4, <2>2, <2>3, <2>4, StoreAssumption
<1>8. \A i \in 1..n : disk[L][i].st = "synced"
  BY <1>1 DEF StoreInv, SegmentInv
<1>9. disk' = [disk EXCEPT ![L] = q] /\ job' = [job EXCEPT !.kind = "written"]
  BY <1>1
<1>10. UNCHANGED <<stub, unlinked, archived, others, roots, mode, state, readers, births, counts>>
  OBVIOUS
<1>11. L = Last
  OBVIOUS
<1>12. \A i \in 1..segs[L] : q[i].st = "synced" /\ q[i].chunks = disk[L][i].chunks
  BY <1>5, <1>6, <1>8
<1>13. q[segs[L] + 1].chunks = job.out /\ q[segs[L] + 1].st = "issued" /\ Len(q) = segs[L] + 1
       /\ Len(q) <= Capacity
  BY <1>3, <1>6, <1>7
<1> HIDE DEF L, n, p, q, b, WriteBatch
<1> QED BY <1>1, <1>6, <1>9, <1>10, <1>11, <1>12, <1>13, LastFileStep

\* What sync leaves of a sequence of batches.
LEMMA SyncDataIs ==
  ASSUME NEW q \in Seq(BatchType)
  PROVE  /\ SyncData(q) \in Seq(BatchType) /\ Len(SyncData(q)) = Len(q)
         /\ \A i \in 1..Len(q) :
              /\ SyncData(q)[i].chunks = q[i].chunks
              /\ SyncData(q)[i].st = IF q[i].st = "bad" THEN "bad" ELSE "synced"
<1>1. Len(q) \in Nat /\ DOMAIN q = 1..Len(q) /\ \A i \in 1..Len(q) : q[i] \in BatchType
  BY LenProperties, ElementOfSeq
<1>2. \A i \in 1..Len(q) : /\ SyncData(q)[i] \in BatchType
                           /\ SyncData(q)[i].chunks = q[i].chunks
                           /\ SyncData(q)[i].st = IF q[i].st = "bad" THEN "bad" ELSE "synced"
  BY <1>1 DEF SyncData, BatchType
<1>3. SyncData(q) = [i \in 1..Len(q) |-> SyncData(q)[i]]
  BY <1>1 DEF SyncData
<1>4. \E n \in Nat : SyncData(q) \in [1..n -> BatchType]
  BY <1>1, <1>2, <1>3
<1>5. SyncData(q) \in Seq(BatchType)
  BY <1>4, SeqDef
<1>6. DOMAIN SyncData(q) = 1..Len(q)
  BY <1>1 DEF SyncData
<1>7. Len(SyncData(q)) = Len(q)
  BY <1>1, <1>5, <1>6, LenProperties
<1> QED BY <1>2, <1>5, <1>7

\* The written batch is durable.
LEMMA SyncBatchInv ==
  ASSUME StoreInv, SyncBatch PROVE StoreInv'
<1> USE DEF SyncBatch
<1> DEFINE L == Last
           q == SyncData(disk[L])
<1>1. /\ Healthy /\ job.kind = "written" /\ L \in DOMAIN segs /\ L \in DOMAIN disk
      /\ Len(disk[L]) = segs[L] + 1 /\ disk[L][segs[L] + 1].chunks = job.out
      /\ disk[L][segs[L] + 1].st = "issued"
  BY LastSegment DEF StoreInv, SegmentInv, Healthy
<1>2. disk[L] \in Seq(BatchType) /\ segs[L] \in Nat /\ Len(disk[L]) <= Capacity
  BY <1>1 DEF StoreInv, TypeInv, TypeOK
<1>3. \A i \in 1..segs[L] : disk[L][i].st = "synced"
  BY <1>1 DEF StoreInv, SegmentInv
<1>4. /\ q \in Seq(BatchType) /\ Len(q) = Len(disk[L])
      /\ \A i \in 1..Len(disk[L]) :
           /\ q[i].chunks = disk[L][i].chunks
           /\ q[i].st = IF disk[L][i].st = "bad" THEN "bad" ELSE "synced"
  BY <1>2, SyncDataIs
<1>5. disk' = [disk EXCEPT ![L] = q] /\ job' = [job EXCEPT !.kind = "synced"] /\ L = Last
  BY <1>1
<1>6. UNCHANGED <<stub, unlinked, archived, others, roots, mode, state, readers, births, counts>>
  OBVIOUS
<1> HIDE DEF L, q, SyncBatch
<1>7. /\ \A i \in 1..segs[L] : q[i].st = "synced" /\ q[i].chunks = disk[L][i].chunks
      /\ q[segs[L] + 1].chunks = job.out /\ q[segs[L] + 1].st = "synced"
      /\ Len(q) = segs[L] + 1 /\ Len(q) <= Capacity
  <2>1. segs[L] + 1 \in 1..Len(disk[L]) /\ \A i \in 1..segs[L] : i \in 1..Len(disk[L])
    BY <1>1, <1>2
  <2> QED BY <1>1, <1>2, <1>3, <1>4, <2>1
<1> QED BY <1>1, <1>4, <1>5, <1>6, <1>7, LastFileStep

\* Publication follows sync: an entry names a batch that holds its chunk.
LEMMA PublishBatchInv ==
  ASSUME StoreInv, PublishBatch PROVE StoreInv'
<1> DEFINE L == Last
           n == segs[L]
           at == [seg |-> L, batch |-> n + 1]
           moved == {h \in job.out : index[h] \in {None, Old}}
<1>1. /\ job \in JobType /\ Healthy /\ mode = "serving" /\ job.kind = "synced"
      /\ job.out \in SUBSET Hashes /\ job.victim \in Nat /\ job.from \in Nat /\ job.copied \in Nat
  BY DEF PublishBatch, StoreInv, TypeInv, Healthy, JobType
<1>2. /\ L \in DOMAIN segs /\ L \in DOMAIN disk /\ Len(disk[L]) = n + 1
      /\ disk[L][n + 1].chunks = job.out /\ disk[L][n + 1].st = "synced"
      /\ DOMAIN segs \cap unlinked = {}
  BY <1>1, LastSegment DEF StoreInv, SegmentInv
<1>3. L \in Visible /\ L \in Nat /\ L # 0 /\ n \in Nat
  BY <1>2 DEF StoreInv, TypeInv, TypeOK, Visible
<1>4. at \in Address /\ at # None /\ at.seg = L /\ at.batch = n + 1
  BY <1>3 DEF Address, None
<1>5. UNCHANGED <<disk, stub, unlinked, archived, others, roots, mode, failed, collecting,
                  highest, marked, sealed, readers, births, outputs, crashes>>
  BY DEF PublishBatch
<1>6. /\ index' \in [Hashes -> Address] /\ \A h \in moved : index'[h] = at
      /\ \A h \in Hashes : h \notin moved => index'[h] = index[h]
  BY <1>1, <1>4 DEF PublishBatch, StoreInv, TypeInv, TypeOK
<1>7. /\ DOMAIN segs' = DOMAIN segs /\ segs'[L] = n + 1
      /\ \A s \in DOMAIN segs : s # L => segs'[s] = segs[s]
  BY <1>2 DEF PublishBatch
<1>8. Last' = L
  BY <1>7 DEF Last
<1>9. Cardinality(job.out) \in Nat
  BY <1>1, StoreAssumption, FS_Subset, FS_CardinalityType
<1>10. /\ job' \in JobType /\ job'.kind = (IF job.victim = 0 THEN "insert" ELSE "copy")
       /\ job'.victims = job.victims /\ job'.live = job.live /\ job'.victim = job.victim
       /\ job'.out = {} /\ job'.new = job.new /\ job'.want = job.want
       /\ job.victim # 0 => job'.from = job.from + 1
  <2>1. job.from + 1 \in Nat /\ job.copied + Cardinality(job.out) \in Nat
    BY <1>1, <1>9
  <2> QED BY <1>1, <2>1 DEF PublishBatch, JobType
<1>11. \A s \in DOMAIN segs : segs[s] \in Nat /\ segs[s] <= Len(disk[s])
  BY DEF StoreInv, TypeInv, TypeOK
<1> HIDE DEF n, L, at
<1>12. \A s \in DOMAIN segs : segs'[s] \in Nat /\ segs[s] <= segs'[s] /\ segs'[s] <= Len(disk[s])
  BY <1>2, <1>3, <1>7, <1>11 DEF n
<1>13. TypeInv'
  <2>1. \A s \in DOMAIN segs' : segs'[s] \in 0..Len(disk'[s])
    BY <1>5, <1>7, <1>12, BatchAt DEF StoreInv, TypeInv, TypeOK
  <2> QED BY <1>1, <1>5, <1>6, <1>7, <1>10, <2>1 DEF StoreInv, TypeInv, TypeOK
<1>14. TicketInv'
  BY <1>1, <1>5, <1>10, NamesKept DEF StoreInv
<1>15. SegmentInv'
  <2>1. \A s \in DOMAIN segs : \A i \in 1..segs'[s] : disk[s][i].st = "synced"
    <3> SUFFICES ASSUME NEW s \in DOMAIN segs, NEW i \in 1..segs'[s]
                 PROVE  disk[s][i].st = "synced"
      OBVIOUS
    <3>1. i \in 1..segs[s] => disk[s][i].st = "synced"
      BY <1>1 DEF StoreInv, SegmentInv
    <3>2. i \notin 1..segs[s] => s = L /\ i = n + 1
      BY <1>3, <1>7, <1>11 DEF n
    <3> QED BY <1>2, <3>1, <3>2
  <2> QED BY <1>2, <1>5, <1>7, <1>10, <2>1 DEF SegmentInv
<1>16. \A h \in Hashes : Holds(index[h], h) => Holds(index[h], h)' \/ h \in moved
  <2> SUFFICES ASSUME NEW h \in Hashes, Holds(index[h], h), h \notin moved PROVE Holds(index[h], h)'
    OBVIOUS
  <2> DEFINE a == index[h]
  <2>1. a = index'[h] /\ Visible' = Visible /\ DOMAIN segs' = DOMAIN segs
    BY <1>5, <1>6, <1>7 DEF Visible
  <2>2. a.seg \in DOMAIN segs /\ a.batch \in 1..segs[a.seg]
    BY DEF Holds
  <2>3. a.batch \in 1..segs'[a.seg]
    BY <1>11, <1>12, <2>2
  <2> QED BY <1>5, <2>1, <2>3 DEF Holds
<1>17. ASSUME NEW h \in moved PROVE Holds(index[h], h)'
  <2>1. index'[h] = at /\ h \in job.out /\ Visible' = Visible
    BY <1>5, <1>6 DEF Visible
  <2>2. n + 1 \in 1..segs'[L]
    BY <1>3, <1>7
  <2>3. n + 1 <= Len(disk'[L])
    BY <1>2, <1>3, <1>5
  <2> QED BY <1>2, <1>3, <1>4, <1>5, <1>7, <2>1, <2>2, <2>3 DEF Holds
<1>18. \A h \in Hashes : index[h] # None => index'[h] # None
  BY <1>4, <1>6
<1>19. /\ Sweeping <=> job.victim # 0
       /\ Sweeping' <=> job.victim # 0
  BY <1>1, <1>10 DEF Sweeping
<1>20. IndexInv'
  <2>1. Needed' = Needed /\ Needed \subseteq Hashes
    BY <1>5 DEF Needed, Held, StoreInv, TypeInv, TypeOK, ReadType
  <2>2. \A h \in Hashes : index'[h] # None /\ (Sweeping' => h \in marked') => Holds(index[h], h)'
    <3> SUFFICES ASSUME NEW h \in Hashes, index'[h] # None, Sweeping' => h \in marked', h \notin moved
                 PROVE  Holds(index[h], h)'
      BY <1>17
    <3>1. index[h] # None /\ (Sweeping => h \in marked)
      BY <1>5, <1>6, <1>19
    <3> QED BY <1>1, <1>16, <3>1 DEF StoreInv, IndexInv
  <2>3. \A h \in Needed : index'[h] # None /\ (Sweeping' => h \in marked')
    BY <1>1, <1>5, <1>18, <1>19, <2>1 DEF StoreInv, IndexInv
  <2>4. Sweeping' => collecting' /\ \A h \in marked' : index'[h] # None
    BY <1>1, <1>5, <1>18, <1>19 DEF StoreInv, IndexInv, TypeInv, TypeOK
  <2>5. job'.kind = "insert" => \A h \in job'.new : index'[h] # None \/ h \in job'.want \cup job'.out
    <3> SUFFICES ASSUME job.victim = 0, NEW h \in job.new PROVE index'[h] # None \/ h \in job.want
      BY <1>10
    <3>1. h \in Hashes /\ (index[h] # None \/ h \in job.want \cup job.out)
      BY <1>1 DEF StoreInv, IndexInv, Writing, JobType
    <3>2. index[h] = None /\ h \in job.out => h \in moved
      OBVIOUS
    <3> QED BY <1>4, <1>6, <1>18, <3>1, <3>2
  <2>6. job'.kind \in {"insert", "copy"} /\ job'.out = {}
    BY <1>10
  <2> HIDE DEF moved
  <2> QED BY <2>1, <2>2, <2>3, <2>4, <2>5, <2>6 DEF IndexInv, Writing
<1>21. SweepInv'
  <2>1. CASE job.victim = 0
    <3>1. job'.kind = "insert" /\ job'.victim = 0 /\ ~Sweeping'
      BY <1>10, <1>19, <2>1
    <3> QED BY <3>1 DEF SweepInv, Writing
  <2>2. CASE job.victim # 0
    <3>1. /\ job'.kind = "copy" /\ Sweeping /\ Sweeping' /\ job'.from = job.from + 1
          /\ job.victim \in job.victims /\ job.victim \in DOMAIN segs /\ L \notin job.victims
          /\ \A v \in job.victims : v # 0 /\ v <= highest
          /\ \A v \in job.victims \ {job.victim} : job.live[v] = Live(v)
          /\ \A h \in marked : index[h].seg = job.victim => index[h].batch >= job.from
          /\ \A h \in marked : index[h] = Old => h \in job.out
      BY <1>1, <1>10, <1>19, <2>2 DEF StoreInv, SweepInv, Writing, L
    <3>2. \A h \in moved : index[h] = Old
      BY <2>2 DEF PublishBatch, Relocatable
    <3>3. marked \subseteq Hashes /\ marked' = marked
      BY <1>5 DEF StoreInv, TypeInv, TypeOK
    <3>4. ASSUME NEW v \in job.victims \ {job.victim} PROVE Live(v)' = Live(v)
      <4>1. \A h \in marked : index'[h].seg = v <=> index[h].seg = v
        <5> SUFFICES ASSUME NEW h \in marked, h \in moved PROVE index'[h].seg # v /\ index[h].seg # v
          BY <1>6, <3>3
        <5>1. index'[h].seg = L /\ L # v
          BY <1>4, <1>6, <3>1
        <5>2. index[h].seg = job.victim
          BY <3>2 DEF Old
        <5> QED BY <5>1, <5>2
      <4> QED BY <3>3, <4>1 DEF Live
    <3>5. ASSUME NEW h \in marked, index'[h].seg = job.victim PROVE index'[h].batch >= job.from + 1
      <4>1. h \notin moved /\ index'[h] = index[h]
        <5>1. h \in moved => index'[h].seg = L
          BY <1>4, <1>6
        <5>2. L # job.victim
          BY <3>1
        <5>3. h \notin moved
          BY <3>5, <5>1, <5>2
        <5> QED BY <1>6, <3>3, <5>3
      <4>2. index[h] # Old /\ index[h] \in Address
        BY <3>1, <3>3, <4>1 DEF StoreInv, TypeInv, TypeOK
      <4>3. index[h].batch # job.from /\ index[h].batch \in Nat
        BY <3>5, <4>1, <4>2 DEF Address, Old
      <4>4. index[h].batch >= job.from
        BY <3>1, <3>5, <4>1
      <4> QED BY <1>1, <4>1, <4>3, <4>4
    <3>6. UNCHANGED <<highest, marked>> /\ DOMAIN segs' = DOMAIN segs /\ Last' = L
      BY <1>5, <1>7, <1>8
    <3> HIDE DEF moved
    <3> QED BY <1>10, <3>1, <3>4, <3>5, <3>6 DEF SweepInv, Writing
  <2> QED BY <2>1, <2>2
<1>22. ReaderInv'
  <2>1. Visible' = Visible
    BY <1>5 DEF Visible
  <2> SUFFICES ASSUME NEW r \in Readers, readers[r].at # None
               PROVE  LET a == readers[r].at
                      IN  /\ a.seg \in Visible /\ a.batch \in 1..Len(disk[a.seg])
                          /\ readers[r].hash \subseteq disk[a.seg][a.batch].chunks
                          /\ ~collecting /\ a.seg \in DOMAIN segs /\ a.batch <= segs'[a.seg]
    BY <1>5, <1>7, <2>1 DEF ReaderInv
  <2> DEFINE a == readers[r].at
  <2>2. /\ a.seg \in Visible /\ a.batch \in 1..Len(disk[a.seg])
        /\ readers[r].hash \subseteq disk[a.seg][a.batch].chunks
        /\ ~collecting /\ a.seg \in DOMAIN segs /\ a.batch <= segs[a.seg]
    BY <1>1 DEF StoreInv, ReaderInv
  <2>3. a.batch <= segs'[a.seg]
    BY <1>11, <1>12, <2>2
  <2> QED BY <2>2, <2>3
<1> QED BY <1>1, <1>5, <1>13, <1>14, <1>15, <1>20, <1>21, <1>22, HealthyStep

\* While it serves, everything a root refers to is where every crash leaves it.
LEMMA RootsSafe ==
  ASSUME StoreInv PROVE \A h \in Rooted : Safe(h)
<1>1. CASE ~Healthy
  BY <1>1 DEF StoreInv, SafeInv, Healthy
<1>2. CASE Healthy
  <2> SUFFICES ASSUME NEW h \in Rooted PROVE Safe(h)
    OBVIOUS
  <2> DEFINE a == index[h]
  <2>1. h \in Needed /\ h \in Hashes
    BY DEF Rooted, Needed, StoreInv, TypeInv, TypeOK
  <2>2. Holds(a, h) /\ a \in Address
    BY <1>2, <2>1 DEF StoreInv, IndexInv, TypeInv, TypeOK
  <2>3. segs[a.seg] \in Nat /\ Len(disk[a.seg]) \in Nat /\ a.batch \in Nat
    BY <2>2, BatchAt DEF Holds, StoreInv, TypeInv, TypeOK, Address
  <2>4. \A i \in 1..a.batch : i \in 1..segs[a.seg]
    BY <2>2, <2>3 DEF Holds
  <2>5. \A i \in 1..a.batch : disk[a.seg][i].st = "synced"
    BY <1>2, <2>2, <2>4 DEF StoreInv, SegmentInv, Holds
  <2>6. Sound(a, h)
    BY <2>2, <2>3, <2>5 DEF Holds, Sound
  <2> QED BY <2>2, <2>6 DEF Safe
<1> QED BY <1>1, <1>2

\* The root is durable once everything it refers to is published.
LEMMA CommitInv ==
  ASSUME StoreInv, Commit PROVE StoreInv'
<1> USE DEF Commit
<1>1. /\ job \in JobType /\ Healthy /\ mode = "serving" /\ job.kind = "insert" /\ job.want = {}
      /\ job.new \in SUBSET Hashes /\ job.out = {} /\ ~Sweeping
  BY DEF StoreInv, TypeInv, Healthy, JobType, IndexInv, SweepInv, Sweeping
<1>2. job' \in JobType /\ job'.kind = "idle" /\ job'.victim = 0 /\ job'.out = {}
  BY DEF Idle, JobType, Lives
<1>3. roots' \in [Roots -> SUBSET Hashes] /\ \A o \in Roots : roots'[o] \subseteq roots[o] \cup job.new
  BY <1>1 DEF StoreInv, TypeInv, TypeOK
<1>4. \A h \in job.new : index[h] # None
  BY <1>1 DEF StoreInv, IndexInv
<1>5. Needed' \subseteq Needed \cup job.new
  BY <1>3 DEF Needed, Held
<1>6. TypeInv'
  BY <1>1, <1>2, <1>3 DEF StoreInv, TypeInv, TypeOK
<1>7. TicketInv' /\ ReaderInv'
  BY <1>1, <1>2, NamesKept, PinsKept DEF StoreInv
<1>8. SegmentInv' /\ SweepInv'
  BY <1>1, <1>2 DEF StoreInv, SegmentInv, SweepInv, Sweeping, Writing
<1>9. IndexInv'
  <2>1. \A h \in Needed' : index[h] # None
    BY <1>1, <1>4, <1>5 DEF StoreInv, IndexInv
  <2>2. ~Sweeping'
    BY <1>2 DEF Sweeping
  <2> QED BY <1>1, <1>2, <2>1, <2>2 DEF StoreInv, IndexInv, Writing, Holds, Visible
<1> QED BY <1>1, <1>6, <1>7, <1>8, <1>9, HealthyStep

\* A step that makes no new reference of a serving store.
LEMMA FewerNeeds ==
  ASSUME StoreInv, mode = "serving", Needed' \subseteq Needed,
         roots' \in [Roots -> SUBSET Hashes], Rooted' \subseteq Rooted,
         readers' \in [Readers -> ReadType], ReaderInv',
         UNCHANGED <<files, mode, state, job, births, counts>>
  PROVE  StoreInv'
<1>1. TypeInv'
  BY DEF StoreInv, TypeInv, TypeOK
<1>2. TicketInv'
  BY NamesKept DEF StoreInv
<1>3. \A h \in Hashes : Safe(h) <=> Safe(h)'
  BY DEF Safe, Sound, Visible
<1>4. SafeInv' /\ RepairInv'
  BY <1>3 DEF StoreInv, SafeInv, RepairInv, Rooted, TypeInv, TypeOK
<1>5. SegmentInv'
  BY DEF StoreInv, SegmentInv, Healthy, Last
<1>6. SweepInv'
  BY SameLast DEF StoreInv, SweepInv, Sweeping, Writing, Healthy, Old
<1>7. \A h \in Hashes : Holds(index[h], h) <=> Holds(index[h], h)'
  BY DEF Holds, Visible
<1>8. IndexInv'
  BY <1>7 DEF StoreInv, IndexInv, Sweeping, Writing, Healthy
<1> QED BY <1>1, <1>2, <1>4, <1>5, <1>6, <1>8 DEF StoreInv

\* A snapshot refers to what its image refers to.
LEMMA SnapshotInv ==
  ASSUME StoreInv, NEW o \in Roots, NEW s \in Roots, Snapshot(o, s) PROVE StoreInv'
<1> USE DEF Snapshot
<1>1. roots' \in [Roots -> SUBSET Hashes] /\ \A x \in Roots : \E y \in Roots : roots'[x] = roots[y]
  BY DEF StoreInv, TypeInv, TypeOK
<1>2. Needed' \subseteq Needed /\ Rooted' \subseteq Rooted
  BY <1>1 DEF Needed, Held, Rooted
<1>3. ReaderInv' /\ mode = "serving"
  BY PinsKept DEF StoreInv, Healthy
<1>4. readers' \in [Readers -> ReadType]
  BY DEF StoreInv, TypeInv
<1> QED BY <1>1, <1>2, <1>3, <1>4, FewerNeeds

\* A failed store keeps its roots.
LEMMA FailInv ==
  ASSUME StoreInv, Fail PROVE StoreInv'
<1> USE DEF Fail
<1>1. ~Healthy' /\ mode = "serving" /\ mode' = mode
  BY DEF Healthy
<1>2. job' \in JobType /\ job'.kind = "idle" /\ job'.victim = 0
  BY DEF Idle, JobType, Lives
<1>3. TypeInv'
  BY <1>1, <1>2 DEF StoreInv, TypeInv, TypeOK
<1>4. TicketInv'
  BY <1>1 DEF StoreInv, TicketInv, Assigned, Top, Visible
<1>5. SafeInv'
  BY RootsSafe DEF SafeInv, Rooted, Safe, Sound, Visible
<1>6. ReaderInv'
  BY <1>1 DEF StoreInv, ReaderInv, Visible
<1> QED BY <1>1, <1>3, <1>4, <1>5, <1>6 DEF StoreInv, RepairInv, SegmentInv, IndexInv, SweepInv

\* A collection starts when no file is pinned.
LEMMA BeginCollectionInv ==
  ASSUME StoreInv, BeginCollection PROVE StoreInv'
<1> USE DEF BeginCollection
<1>1. Healthy /\ mode = "serving" /\ job.kind = "idle" /\ ~Sweeping
  BY DEF Healthy, Idle, Sweeping
<1>2. DOMAIN segs \subseteq Nat
  BY DEF StoreInv, TypeInv, TypeOK
<1>3. /\ job' \in JobType /\ job'.kind = "mark" /\ job'.victim = 0 /\ job'.out = {}
      /\ job'.victims = DOMAIN segs
  BY <1>2 DEF Idle, JobType, Lives
<1>4. TypeInv'
  BY <1>1, <1>3 DEF StoreInv, TypeInv, TypeOK
<1>5. TicketInv'
  BY <1>1, <1>3, NamesKept DEF StoreInv
<1>6. SegmentInv' /\ SweepInv'
  BY <1>1, <1>3 DEF StoreInv, SegmentInv, SweepInv, Sweeping, Writing
<1>7. IndexInv'
  BY <1>1, <1>3 DEF StoreInv, IndexInv, Sweeping, Writing, Holds, Visible, Needed, Held
<1>8. ReaderInv'
  BY DEF ReaderInv, PinsDrained
<1> QED BY <1>1, <1>4, <1>5, <1>6, <1>7, <1>8, HealthyStep

\* The walk meets one more reference.
LEMMA MarkInv ==
  ASSUME StoreInv, NEW h \in Hashes, Mark(h) PROVE StoreInv'
<1> USE DEF Mark
<1>1. Healthy /\ mode = "serving" /\ job.kind = "mark" /\ ~Sweeping /\ job.victim = 0
  BY DEF Healthy, Sweeping, StoreInv, SweepInv
<1>2. TypeInv'
  BY <1>1 DEF StoreInv, TypeInv, TypeOK
<1>3. TicketInv' /\ ReaderInv'
  BY <1>1, NamesKept, PinsKept DEF StoreInv
<1>4. SegmentInv' /\ SweepInv'
  BY <1>1 DEF StoreInv, SegmentInv, SweepInv, Sweeping, Writing
<1>5. IndexInv'
  BY <1>1 DEF StoreInv, IndexInv, Sweeping, Writing, Holds, Visible, Needed, Held
<1> QED BY <1>1, <1>2, <1>3, <1>4, <1>5, HealthyStep

-----------------------------------------------------------------------------
(* Removal of a victim, readers, and the tickets of the staging logs.      *)

\* The transaction after a victim is done with.
LEMMA NextVictimIs ==
  ASSUME StoreInv, Healthy, job.kind \in {"remove", "unlinked"}, job' = NextVictim
  PROVE  /\ job.victim \in DOMAIN segs /\ job.victim # 0 /\ job.victim \in Nat
         /\ Sweeping /\ collecting
         /\ job' \in JobType /\ job'.kind = "sweep" /\ job'.victim = 0 /\ job'.out = job.out
         /\ job'.victims = job.victims \ {job.victim} /\ job'.live = job.live
         /\ \A h \in marked : index[h] # None /\ Holds(index[h], h) /\ index[h].seg # job.victim
         /\ \A r \in Readers : readers[r].at = None
<1>1. job \in JobType /\ mode = "serving" /\ job.victim # 0 /\ job.victim \in DOMAIN segs
  BY DEF StoreInv, TypeInv, SweepInv, Healthy
<1>2. Sweeping /\ collecting
  BY <1>1 DEF Sweeping, StoreInv, IndexInv
<1>3. \A h \in marked : index[h] # None /\ Holds(index[h], h) /\ index[h].seg # job.victim
  BY <1>2 DEF StoreInv, IndexInv, SweepInv, TypeInv, TypeOK
<1>4. \A r \in Readers : readers[r].at = None
  BY <1>1, <1>2 DEF StoreInv, ReaderInv
<1>5. /\ job' \in JobType /\ job'.kind = "sweep" /\ job'.victim = 0 /\ job'.out = job.out
      /\ job'.victims = job.victims \ {job.victim} /\ job'.live = job.live
  BY <1>1 DEF NextVictim, JobType
<1>6. job.victim \in Nat
  BY <1>1 DEF JobType
<1> QED BY <1>1, <1>2, <1>3, <1>4, <1>5, <1>6

\* The sweep goes on with the next victim; no marked chunk was in this one.
LEMMA SweepStep ==
  ASSUME StoreInv, Healthy, job.kind \in {"remove", "unlinked"}, job' = NextVictim,
         UNCHANGED <<roots, mode, failed, collecting, highest, index, marked, readers>>,
         \A h \in marked : Holds(index[h], h) => Holds(index[h], h)',
         DOMAIN segs' \cap unlinked' = {},
         \A s \in DOMAIN segs' : \A i \in 1..segs'[s] : disk'[s][i].st = "synced"
  PROVE  SegmentInv' /\ IndexInv' /\ SweepInv' /\ ReaderInv'
<1>1. /\ Sweeping /\ collecting /\ job.victim # 0
      /\ job'.kind = "sweep" /\ job'.victim = 0 /\ job'.out = job.out
      /\ job'.victims = job.victims \ {job.victim} /\ job'.live = job.live
      /\ \A h \in marked : index[h] # None /\ Holds(index[h], h) /\ index[h].seg # job.victim
      /\ \A r \in Readers : readers[r].at = None
  BY NextVictimIs
<1>2. SegmentInv'
  BY <1>1 DEF SegmentInv
<1>3. IndexInv'
  <2>1. Needed' = Needed /\ Sweeping'
    BY <1>1 DEF Needed, Held, Sweeping
  <2>2. \A h \in Needed : index[h] # None /\ h \in marked
    BY <1>1 DEF StoreInv, IndexInv
  <2> QED BY <1>1, <2>1, <2>2 DEF IndexInv, Writing
<1>4. SweepInv'
  <2>1. \A v : Live(v)' = Live(v)
    BY DEF Live
  <2>2. /\ \A v \in job.victims : v # 0 /\ v <= highest
        /\ \A v \in job.victims \ {job.victim} : job.live[v] = Live(v)
    BY <1>1 DEF StoreInv, SweepInv
  <2> QED BY <1>1, <2>1, <2>2 DEF SweepInv, Writing
<1>5. ReaderInv'
  BY <1>1 DEF ReaderInv
<1> QED BY <1>2, <1>3, <1>4, <1>5

\* The greatest segment is cut to its header and keeps its name.
LEMMA TrimGreatestInv ==
  ASSUME StoreInv, TrimGreatest PROVE StoreInv'
<1> USE DEF TrimGreatest
<1> DEFINE v == job.victim
<1>1. /\ Healthy /\ mode = "serving" /\ job.kind = "remove" /\ v \in DOMAIN segs
      /\ job' \in JobType /\ job'.kind = "sweep"
      /\ \A h \in marked : index[h].seg # v
  BY NextVictimIs DEF Healthy
<1>2. /\ v \in DOMAIN disk /\ DOMAIN disk' = DOMAIN disk /\ disk'[v] = <<>>
      /\ \A s \in DOMAIN disk : s # v => disk'[s] = disk[s]
      /\ DOMAIN segs' = DOMAIN segs /\ segs'[v] = 0
      /\ \A s \in DOMAIN segs : s # v => segs'[s] = segs[s]
      /\ sealed' = sealed \cup {v}
  BY <1>1 DEF StoreInv, TypeInv, TypeOK
<1>3. <<>> \in Seq(BatchType) /\ Len(<<>>) = 0 /\ 0 <= Capacity
  BY StoreAssumption, EmptySeq
<1>4. TypeInv'
  <2>1. \A s \in DOMAIN disk' : disk'[s] \in Seq(BatchType) /\ Len(disk'[s]) <= Capacity
    BY <1>2, <1>3 DEF StoreInv, TypeInv, TypeOK
  <2>2. \A s \in DOMAIN segs' : segs'[s] \in 0..Len(disk'[s])
    BY <1>2, <1>3 DEF StoreInv, TypeInv, TypeOK
  <2> QED BY <1>1, <1>2, <2>1, <2>2 DEF StoreInv, TypeInv, TypeOK
<1>5. TicketInv'
  BY <1>1, <1>2 DEF StoreInv, TicketInv, Assigned, Top, Visible, Healthy
<1>6. \A h \in marked : Holds(index[h], h) => Holds(index[h], h)'
  BY <1>1, <1>2 DEF Holds, Visible
<1>7. DOMAIN segs' \cap unlinked' = {}
  BY <1>1, <1>2 DEF StoreInv, SegmentInv
<1>8. \A s \in DOMAIN segs' : \A i \in 1..segs'[s] : disk'[s][i].st = "synced"
  BY <1>1, <1>2 DEF StoreInv, SegmentInv, TypeInv, TypeOK
<1>9. SegmentInv' /\ IndexInv' /\ SweepInv' /\ ReaderInv'
  BY <1>1, <1>6, <1>7, <1>8, SweepStep
<1> QED BY <1>1, <1>4, <1>5, <1>9, HealthyStep

\* The name is gone, perhaps not yet durably; it was not the greatest.
LEMMA UnlinkVictimInv ==
  ASSUME StoreInv, UnlinkVictim PROVE StoreInv'
<1> USE DEF UnlinkVictim
<1> DEFINE v == job.victim
<1>1. /\ job \in JobType /\ Healthy /\ mode = "serving" /\ job.kind = "remove"
      /\ v # 0 /\ v \in DOMAIN segs /\ v \in DOMAIN disk /\ v # highest
      /\ Sweeping /\ collecting /\ \A h \in marked : index[h].seg # v
  BY DEF StoreInv, TypeInv, TypeOK, SweepInv, IndexInv, Sweeping, Healthy, RetainHeader
<1>2. /\ job' \in JobType /\ job'.kind = "unlinked" /\ job'.victims = job.victims
      /\ job'.live = job.live /\ job'.victim = v /\ job'.out = job.out
      /\ job'.from = job.from /\ job'.copied = job.copied
  BY <1>1 DEF JobType
<1>3. unlinked' = unlinked \cup {v} /\ Visible' = Visible \ {v}
  BY DEF Visible
<1>4. TypeInv'
  BY <1>1, <1>2, <1>3 DEF StoreInv, TypeInv, TypeOK
<1>5. TicketInv'
  <2>1. highest \in Top' /\ Assigned' = Assigned
    BY <1>1, <1>3 DEF StoreInv, TicketInv, Top, Assigned
  <2> QED BY <1>1, <1>2, <2>1 DEF StoreInv, TicketInv, Healthy
<1>6. SegmentInv'
  BY <1>1, <1>2, <1>3 DEF StoreInv, SegmentInv
<1>7. \A h \in marked : Holds(index[h], h) => Holds(index[h], h)'
  BY <1>1, <1>3 DEF Holds
<1>8. IndexInv'
  <2>1. Needed' = Needed /\ Sweeping'
    BY <1>1, <1>2 DEF Needed, Held, Sweeping
  <2> QED BY <1>1, <1>2, <1>7, <2>1 DEF StoreInv, IndexInv, Writing
<1>9. SweepInv'
  BY <1>1, <1>2, SameLast DEF StoreInv, SweepInv, Sweeping, Writing
<1>10. ReaderInv'
  BY <1>1, <1>3 DEF StoreInv, ReaderInv
<1> QED BY <1>1, <1>4, <1>5, <1>6, <1>8, <1>9, <1>10, HealthyStep

\* The removal is durable and the segment leaves the table.
LEMMA ForgetVictimInv ==
  ASSUME StoreInv, ForgetVictim PROVE StoreInv'
<1> USE DEF ForgetVictim
<1> DEFINE v == job.victim
<1>1. /\ Healthy /\ mode = "serving" /\ job.kind = "unlinked" /\ v \in DOMAIN segs
      /\ job' \in JobType /\ job'.kind = "sweep"
      /\ \A h \in marked : index[h].seg # v
  BY NextVictimIs DEF Healthy
<1>2. /\ DOMAIN disk' = Visible /\ \A s \in Visible : disk'[s] = disk[s]
      /\ unlinked' = {} /\ Visible' = Visible /\ Visible \subseteq DOMAIN disk
  BY DEF Settled, Visible
<1>3. /\ DOMAIN segs' = DOMAIN segs \ {v}
      /\ \A s \in DOMAIN segs' : segs'[s] = segs[s]
      /\ DOMAIN segs' \subseteq Visible /\ DOMAIN segs \subseteq DOMAIN disk
  BY <1>1 DEF StoreInv, SegmentInv, TypeInv, TypeOK, Visible
<1>4. TypeInv'
  <2>1. \A s \in DOMAIN disk' : disk'[s] \in Seq(BatchType) /\ Len(disk'[s]) <= Capacity
    BY <1>2 DEF StoreInv, TypeInv, TypeOK
  <2>2. \A s \in DOMAIN segs' : segs'[s] \in 0..Len(disk'[s])
    BY <1>2, <1>3 DEF StoreInv, TypeInv, TypeOK
  <2> QED BY <1>1, <1>2, <1>3, <2>1, <2>2 DEF StoreInv, TypeInv, TypeOK
<1>5. TicketInv'
  <2>1. Top' = Top /\ Assigned' \subseteq Assigned
    BY <1>2 DEF Top, Assigned
  <2> QED BY <1>1, <2>1 DEF StoreInv, TicketInv, Healthy
<1>6. \A h \in marked : Holds(index[h], h) => Holds(index[h], h)'
  BY <1>1, <1>2, <1>3 DEF Holds
<1>7. DOMAIN segs' \cap unlinked' = {}
  BY <1>2
<1>8. \A s \in DOMAIN segs' : \A i \in 1..segs'[s] : disk'[s][i].st = "synced"
  BY <1>1, <1>2, <1>3 DEF StoreInv, SegmentInv
<1>9. SegmentInv' /\ IndexInv' /\ SweepInv' /\ ReaderInv'
  BY <1>1, <1>6, <1>7, <1>8, SweepStep
<1> QED BY <1>1, <1>4, <1>5, <1>9, HealthyStep

\* Entries not marked leave the index; every reference is marked.
LEMMA FinishCollectionInv ==
  ASSUME StoreInv, FinishCollection PROVE StoreInv'
<1> USE DEF FinishCollection
<1>1. /\ Healthy /\ mode = "serving" /\ job.kind = "sweep" /\ Sweeping /\ collecting
      /\ Needed \subseteq marked /\ marked \subseteq Hashes
      /\ \A h \in marked : index[h] # None /\ Holds(index[h], h)
  BY DEF Healthy, Sweeping, StoreInv, IndexInv, TypeInv, TypeOK
<1>2. job' \in JobType /\ job'.kind = "idle" /\ job'.victim = 0 /\ job'.out = {}
  BY DEF Idle, JobType, Lives
<1>3. /\ index' \in [Hashes -> Address] /\ \A h \in marked : index'[h] = index[h]
      /\ \A h \in Hashes : h \notin marked => index'[h] = None
  BY <1>1 DEF StoreInv, TypeInv, TypeOK, None, Address
<1>4. TypeInv'
  BY <1>1, <1>2, <1>3 DEF StoreInv, TypeInv, TypeOK
<1>5. TicketInv'
  BY <1>1, <1>2, NamesKept DEF StoreInv
<1>6. SegmentInv' /\ SweepInv'
  BY <1>1, <1>2 DEF StoreInv, SegmentInv, SweepInv, Sweeping, Writing
<1>7. IndexInv'
  <2>1. Needed' = Needed /\ ~Sweeping'
    BY <1>2 DEF Needed, Held, Sweeping
  <2>2. \A h \in marked : Holds(index[h], h)'
    BY <1>1, <1>3 DEF Holds, Visible
  <2> QED BY <1>1, <1>2, <1>3, <2>1, <2>2 DEF IndexInv, Writing
<1>8. ReaderInv'
  BY <1>1 DEF StoreInv, ReaderInv
<1> QED BY <1>1, <1>4, <1>5, <1>6, <1>7, <1>8, HealthyStep

\* A view refers to what a root refers to.
LEMMA OpenViewInv ==
  ASSUME StoreInv, NEW r \in Readers, NEW o \in Roots, OpenView(r, o) PROVE StoreInv'
<1> USE DEF OpenView
<1> DEFINE w == [NoRead EXCEPT !.on = TRUE, !.view = roots[o]]
<1>1. w \in ReadType /\ w.at = None /\ w.view = roots[o]
  BY DEF NoRead, None, Address, ReadType, StoreInv, TypeInv, TypeOK
<1>2. /\ readers' \in [Readers -> ReadType] /\ readers'[r] = w
      /\ \A q \in Readers : q # r => readers'[q] = readers[q]
  BY <1>1 DEF StoreInv, TypeInv
<1> HIDE DEF w
<1>3. Needed' \subseteq Needed /\ Rooted' = Rooted
  BY <1>1, <1>2 DEF Needed, Held, Rooted
<1>4. ReaderInv'
  BY <1>1, <1>2 DEF StoreInv, ReaderInv, Visible, Healthy
<1>5. roots' \in [Roots -> SUBSET Hashes]
  BY DEF StoreInv, TypeInv, TypeOK
<1> QED BY <1>2, <1>3, <1>4, <1>5, FewerNeeds

\* The address is captured and its file pinned while no collection runs.
LEMMA PlanInv ==
  ASSUME StoreInv, NEW r \in Readers, NEW h \in Hashes, Plan(r, h) PROVE StoreInv'
<1> USE DEF Plan
<1> DEFINE w == [readers[r] EXCEPT !.hash = {h}, !.at = index[h]]
<1>1. index[h] \in Address /\ readers[r] \in ReadType
  BY DEF StoreInv, TypeInv, TypeOK
<1>2. w \in ReadType /\ w.at = index[h] /\ w.hash = {h} /\ w.view = readers[r].view /\ w.on = readers[r].on
  BY <1>1 DEF ReadType
<1>3. /\ readers' \in [Readers -> ReadType] /\ readers'[r] = w
      /\ \A q \in Readers : q # r => readers'[q] = readers[q]
  BY <1>2 DEF StoreInv, TypeInv
<1> HIDE DEF w
<1>4. Healthy /\ mode = "serving" /\ ~collecting /\ ~Sweeping
  BY DEF MayPlan, Healthy, StoreInv, IndexInv
<1>5. Holds(index[h], h)
  BY <1>4 DEF StoreInv, IndexInv
<1>6. Needed' \subseteq Needed /\ Rooted' = Rooted
  BY <1>2, <1>3 DEF Needed, Held, Rooted
<1>7. ReaderInv'
  <2>1. LET a == index[h]
        IN  /\ a.seg \in Visible /\ a.batch \in 1..Len(disk[a.seg])
            /\ {h} \subseteq disk[a.seg][a.batch].chunks
            /\ ~collecting /\ a.seg \in DOMAIN segs /\ a.batch <= segs[a.seg]
    <3>1. segs[index[h].seg] \in Nat /\ Len(disk[index[h].seg]) \in Nat
      BY <1>5, BatchAt DEF Holds, StoreInv, TypeInv, TypeOK
    <3> QED BY <1>4, <1>5, <3>1 DEF Holds
  <2> QED BY <1>2, <1>3, <2>1, ZenonT(60) DEF StoreInv, ReaderInv, Visible, Healthy
<1>8. roots' \in [Roots -> SUBSET Hashes]
  BY DEF StoreInv, TypeInv, TypeOK
<1> QED BY <1>3, <1>4, <1>6, <1>7, <1>8, FewerNeeds

\* A read releases its pin and its view.
LEMMA ReadDoneInv ==
  ASSUME StoreInv, NEW r \in Readers, ReadDone(r) PROVE StoreInv'
<1> USE DEF ReadDone
<1>1. NoRead \in ReadType /\ NoRead.at = None /\ ~NoRead.on
  BY DEF NoRead, None, Address, ReadType
<1>2. /\ readers' \in [Readers -> ReadType] /\ readers'[r] = NoRead
      /\ \A q \in Readers : q # r => readers'[q] = readers[q]
  BY <1>1 DEF StoreInv, TypeInv
<1>3. Needed' \subseteq Needed /\ Rooted' = Rooted
  BY <1>1, <1>2 DEF Needed, Held, Rooted
<1>4. ReaderInv'
  BY <1>1, <1>2 DEF StoreInv, ReaderInv, Visible, Healthy
<1>5. roots' \in [Roots -> SUBSET Hashes]
  BY DEF StoreInv, TypeInv, TypeOK
<1> QED BY <1>2, <1>3, <1>4, <1>5, FewerNeeds

\* A step that only changes the names of the staging logs.
LEMMA OtherStepInv ==
  ASSUME StoreInv, Healthy, TicketInv', others' \subseteq Nat, highest' \in Nat,
         highest <= highest', births' \in Seq(Nat),
         UNCHANGED <<disk, stub, unlinked, archived, roots, mode, failed, collecting, index,
                     marked, segs, sealed, job, readers, counts>>
  PROVE  StoreInv'
<1>1. TypeInv'
  BY DEF StoreInv, TypeInv, TypeOK
<1>2. SegmentInv'
  BY DEF StoreInv, SegmentInv, Healthy, Last
<1>3. \A v \in job.victims : v \in Nat /\ (v <= highest => v <= highest')
  BY DEF StoreInv, TypeInv, TypeOK, JobType
<1>4. SweepInv'
  BY <1>3, SameLast DEF StoreInv, SweepInv, Sweeping, Writing, Healthy, Old
<1>5. IndexInv'
  BY DEF StoreInv, IndexInv, Sweeping, Writing, Healthy, Holds, Visible, Needed, Held
<1>6. ReaderInv'
  BY PinsKept DEF StoreInv
<1> QED BY <1>1, <1>2, <1>4, <1>5, <1>6, HealthyStep

\* A staging log takes the next ticket.
LEMMA OtherCreateInv ==
  ASSUME StoreInv, OtherCreate PROVE StoreInv'
<1> USE DEF OtherCreate
<1>1. /\ highest \in Nat /\ highest + 1 \in Nat /\ others' \subseteq Nat /\ Healthy /\ stub = {}
  BY DEF StoreInv, TypeInv, TypeOK, TicketInv
<1>2. births' \in Seq(Nat)
  BY <1>1, AppendProperties DEF StoreInv, TypeInv, TypeOK
<1>3. highest + 1 \in Top'
  BY DEF Top
<1>4. TicketInv'
  <2>1. (DOMAIN disk' \cup others' \cup archived')
          \subseteq (DOMAIN disk \cup others \cup archived) \cup {highest + 1}
    OBVIOUS
  <2>2. highest' = highest + 1 /\ births' = Append(births, highest + 1)
    OBVIOUS
  <2> QED BY <1>1, <1>3, <2>1, <2>2, NewTicket
<1> QED BY <1>1, <1>2, <1>4, OtherStepInv

\* A staging log removes a segment that is not the greatest.
LEMMA OtherRemoveInv ==
  ASSUME StoreInv, NEW t \in others, OtherRemove(t) PROVE StoreInv'
<1> USE DEF OtherRemove
<1>1. highest \in Nat /\ t \in Nat /\ others' \subseteq Nat /\ births' \in Seq(Nat) /\ Healthy
  BY DEF StoreInv, TypeInv, TypeOK
<1>2. highest \in Top' /\ Assigned' \subseteq Assigned
  BY <1>1 DEF StoreInv, TicketInv, Top, Assigned, Visible, Healthy
<1>3. TicketInv'
  BY <1>1, <1>2 DEF StoreInv, TicketInv, Healthy
<1> QED BY <1>1, <1>3, OtherStepInv

-----------------------------------------------------------------------------
(* Crashes and recovery.                                                   *)

\* What a crash leaves of the files.
LEMMA CrashFiles ==
  ASSUME StoreInv, NEW power \in BOOLEAN, NEW lost \in SUBSET Unsynced,
         NEW back \in SUBSET unlinked, NEW gone \in SUBSET stub,
         Crash(power, lost, back, gone)
  PROVE  /\ Visible \subseteq Visible' /\ unlinked' \subseteq DOMAIN disk'
         /\ \A s \in DOMAIN disk' :
              /\ s \in DOMAIN disk /\ disk'[s] \in Seq(BatchType) /\ Len(disk'[s]) = Len(disk[s])
              /\ \A i \in 1..Len(disk[s]) :
                   /\ disk'[s][i].chunks = disk[s][i].chunks
                   /\ disk[s][i].st = "synced" => disk'[s][i].st = "synced"
<1> USE DEF Crash
<1> DEFINE D == IF power THEN Visible \cup back ELSE DOMAIN disk
           f(s) == [i \in DOMAIN disk[s] |-> Settle(disk[s][i], <<s, i>> \in lost, power)]
<1>1. /\ DOMAIN disk' = D /\ D \subseteq DOMAIN disk /\ \A s \in D : disk'[s] = f(s)
      /\ Visible \subseteq Visible' /\ unlinked' \subseteq DOMAIN disk'
  BY DEF Visible, StoreInv, TypeInv, TypeOK
<1>2. \A s \in DOMAIN disk : \A i \in 1..Len(disk[s]) :
        /\ f(s)[i] \in BatchType /\ f(s)[i].chunks = disk[s][i].chunks
        /\ disk[s][i].st = "synced" => f(s)[i].st = "synced"
  <2> SUFFICES ASSUME NEW s \in DOMAIN disk, NEW i \in 1..Len(disk[s])
               PROVE  /\ f(s)[i] \in BatchType /\ f(s)[i].chunks = disk[s][i].chunks
                      /\ disk[s][i].st = "synced" => f(s)[i].st = "synced"
    OBVIOUS
  <2>1. disk[s][i] \in BatchType /\ i \in DOMAIN disk[s]
    BY BatchAt DEF StoreInv
  <2>2. <<s, i>> \in lost => disk[s][i].st = "issued"
    BY DEF Unsynced
  <2>3. f(s)[i] = Settle(disk[s][i], <<s, i>> \in lost, power)
    BY <2>1
  <2> HIDE DEF Crash
  <2> QED BY <2>1, <2>2, <2>3 DEF Settle, BatchType
<1>3. \A s \in DOMAIN disk : f(s) \in Seq(BatchType) /\ Len(f(s)) = Len(disk[s])
  <2> SUFFICES ASSUME NEW s \in DOMAIN disk
               PROVE  f(s) \in Seq(BatchType) /\ Len(f(s)) = Len(disk[s])
    OBVIOUS
  <2>1. Len(disk[s]) \in Nat /\ DOMAIN disk[s] = 1..Len(disk[s])
    BY BatchAt DEF StoreInv
  <2>2. f(s) \in [1..Len(disk[s]) -> BatchType]
    BY <1>2, <2>1
  <2>3. f(s) \in Seq(BatchType) /\ DOMAIN f(s) = 1..Len(disk[s])
    BY <2>1, <2>2, SeqDef
  <2> HIDE DEF f
  <2> QED BY <2>1, <2>3, LenProperties
<1> HIDE DEF f, D, Crash
<1> QED BY <1>1, <1>2, <1>3

\* A crash keeps every synced batch, and every file that was not being removed.
LEMMA CrashInv ==
  ASSUME StoreInv, NEW power \in BOOLEAN, NEW lost \in SUBSET Unsynced,
         NEW back \in SUBSET unlinked, NEW gone \in SUBSET stub,
         Crash(power, lost, back, gone)
  PROVE  StoreInv'
<1> USE DEF Crash
<1>1. /\ Visible \subseteq Visible' /\ unlinked' \subseteq DOMAIN disk'
      /\ \A s \in DOMAIN disk' :
           /\ s \in DOMAIN disk /\ disk'[s] \in Seq(BatchType) /\ Len(disk'[s]) = Len(disk[s])
           /\ \A i \in 1..Len(disk[s]) :
                /\ disk'[s][i].chunks = disk[s][i].chunks
                /\ disk[s][i].st = "synced" => disk'[s][i].st = "synced"
  <2> HIDE DEF Crash
  <2> QED BY CrashFiles
<1>4. Idle \in JobType /\ Idle.kind = "idle" /\ Idle.victim = 0
  BY DEF Idle, JobType, Lives
<1>5. [r \in Readers |-> NoRead] \in [Readers -> ReadType]
  BY DEF NoRead, None, Address, ReadType
<1>6. [h \in Hashes |-> None] \in [Hashes -> Address]
  BY DEF None, Address
<1>7. UNCHANGED <<archived, others, roots, births, outputs>> /\ mode' = "down"
  OBVIOUS
<1>8. /\ ~failed' /\ failed' \in BOOLEAN /\ collecting' \in BOOLEAN /\ highest' = 0
      /\ index' = [h \in Hashes |-> None] /\ marked' = {} /\ DOMAIN segs' = {} /\ sealed' = {}
      /\ job' = Idle /\ readers' = [r \in Readers |-> NoRead] /\ stub' \subseteq stub
      /\ crashes' \in Nat
  <2>1. crashes + 1 \in Nat
    BY DEF StoreInv, TypeInv, TypeOK
  <2>2. segs' = <<>> /\ DOMAIN <<>> = {}
    OBVIOUS
  <2> QED BY <2>1, <2>2
<1> HIDE DEF Crash
<1>9. TypeInv'
  <2>1. /\ DOMAIN disk' \subseteq Nat
        /\ \A s \in DOMAIN disk' : disk'[s] \in Seq(BatchType) /\ s # 0 /\ Len(disk'[s]) <= Capacity
    BY <1>1 DEF StoreInv, TypeInv, TypeOK
  <2>2. TypeOK'
    BY <1>1, <1>6, <1>7, <1>8, <2>1 DEF StoreInv, TypeInv, TypeOK
  <2> QED BY <1>4, <1>5, <1>7, <1>8, <2>1, <2>2 DEF TypeInv
<1>10. TicketInv'
  <2>1. Top \subseteq Top' /\ Assigned' \subseteq Assigned
    BY <1>1, <1>7 DEF Top, Assigned
  <2>2. \E k \in Nat : \A x \in stub \cup Assigned : x <= k
    <3>1. CASE mode = "down"
      BY <3>1 DEF StoreInv, TicketInv
    <3>2. CASE mode = "repair"
      <4>1. highest \in Nat /\ \A x \in stub \cup Assigned : x <= highest
        BY <3>2 DEF StoreInv, TicketInv, TypeInv, TypeOK
      <4> QED BY <4>1
    <3>3. CASE mode = "serving"
      <4>1. highest \in Nat /\ highest + 1 \in Nat
        BY DEF StoreInv, TypeInv, TypeOK
      <4>2. \A x \in Assigned : x \in Nat /\ x <= highest
        BY <3>3, AssignedNat DEF StoreInv, TicketInv
      <4>3. \A x \in stub : x = highest + 1
        BY <3>3 DEF StoreInv, TicketInv
      <4>4. \A x \in stub \cup Assigned : x <= highest + 1
        BY <4>1, <4>2, <4>3
      <4> QED BY <4>1, <4>4
    <3> QED BY <3>1, <3>2, <3>3 DEF StoreInv, TypeInv, TypeOK
  <2>3. \E k \in Nat : \A x \in stub' \cup Assigned' : x <= k
    BY <1>8, <2>1, <2>2
  <2>4. births' = births
    BY <1>7
  <2> QED BY <1>7, <1>8, <2>1, <2>3, <2>4 DEF StoreInv, TicketInv, Healthy
<1>11. SafeInv'
  <2> SUFFICES ASSUME NEW h \in Rooted PROVE Safe(h)'
    BY <1>7 DEF SafeInv, Rooted
  <2>1. PICK a \in Address : Sound(a, h)
    BY RootsSafe DEF Safe
  <2>2. a.seg \in Visible /\ a.seg \in Visible' /\ a.seg \in DOMAIN disk /\ a.seg \in DOMAIN disk'
    BY <1>1, <2>1 DEF Sound, Visible
  <2>3. Len(disk'[a.seg]) = Len(disk[a.seg]) /\ Len(disk[a.seg]) \in Nat
    BY <1>1, <2>2, BatchAt DEF StoreInv
  <2>4. a.batch \in 1..Len(disk[a.seg]) /\ \A i \in 1..a.batch : i \in 1..Len(disk[a.seg])
    BY <2>1, <2>3 DEF Sound
  <2>5. h \in disk'[a.seg][a.batch].chunks /\ \A i \in 1..a.batch : disk'[a.seg][i].st = "synced"
    BY <1>1, <2>1, <2>2, <2>4 DEF Sound
  <2>6. Sound(a, h)'
    BY <2>2, <2>3, <2>4, <2>5 DEF Sound
  <2> QED BY <2>6 DEF Safe
<1> QED BY <1>7, <1>9, <1>10, <1>11 DEF StoreInv, RepairInv, SegmentInv, IndexInv, SweepInv,
         ReaderInv, Healthy

\* Inspection accepts the batches before the first bad one.
LEMMA AcceptedIs ==
  ASSUME TypeInv, NEW s \in DOMAIN disk
  PROVE  /\ Accepted(s) \in 0..Len(disk[s])
         /\ \A i \in 1..Accepted(s) : disk[s][i].st # "bad"
         /\ Accepted(s) < Len(disk[s]) => disk[s][Accepted(s) + 1].st = "bad"
<1> DEFINE B == {i \in 1..Len(disk[s]) : disk[s][i].st = "bad"}
           OK(n) == /\ \A i \in 1..n : disk[s][i].st # "bad"
                    /\ n < Len(disk[s]) => disk[s][n + 1].st = "bad"
<1>1. Len(disk[s]) \in Nat
  BY BatchAt
<1>2. \E n \in 0..Len(disk[s]) : OK(n)
  <2>1. CASE B = {}
    <3>1. OK(Len(disk[s])) /\ Len(disk[s]) \in 0..Len(disk[s])
      BY <1>1, <2>1
    <3> QED BY <3>1
  <2>2. CASE B # {}
    <3>1. B \in SUBSET Nat
      BY <1>1
    <3>2. PICK m \in B : \A x \in B : m <= x
      <4> HIDE DEF B
      <4> QED BY <2>2, <3>1, LeastExists
    <3>3. m \in 1..Len(disk[s]) /\ disk[s][m].st = "bad" /\ m - 1 \in 0..Len(disk[s]) /\ (m - 1) + 1 = m
      BY <1>1, <3>2
    <3>4. \A i \in 1..(m - 1) : disk[s][i].st # "bad"
      <4> SUFFICES ASSUME NEW i \in 1..(m - 1), disk[s][i].st = "bad" PROVE FALSE
        OBVIOUS
      <4>1. i \in B /\ i < m
        BY <1>1, <3>3
      <4> QED BY <1>1, <3>2, <3>3, <4>1
    <3>5. OK(m - 1)
      BY <3>3, <3>4
    <3> QED BY <3>3, <3>5
  <2> QED BY <2>1, <2>2
<1>3. Accepted(s) = CHOOSE n \in 0..Len(disk[s]) : OK(n)
  BY DEF Accepted
<1>4. Accepted(s) \in 0..Len(disk[s]) /\ OK(Accepted(s))
  <2> HIDE DEF OK
  <2> QED BY <1>2, <1>3
<1> QED BY <1>4

\* Inspection keeps one of the places where it finds a chunk.
LEMMA FirstFoundIs ==
  ASSUME TypeInv, NEW h \in Hashes
  PROVE  /\ Found(h) = {} => FirstFound(h) = None
         /\ Found(h) # {} => FirstFound(h) \in Found(h)
<1>1. Visible \subseteq Nat /\ Found(h) \subseteq [seg : Nat, batch : Nat]
  BY StoreAssumption DEF Found, Visible, TypeInv, TypeOK
<1>2. ASSUME Found(h) # {}
      PROVE  \E a \in Found(h) : \A b \in Found(h) :
               a.seg < b.seg \/ (a.seg = b.seg /\ a.batch <= b.batch)
  <2> DEFINE S == {a.seg : a \in Found(h)}
  <2>1. S \in SUBSET Nat /\ S # {}
    BY <1>1, <1>2
  <2>2. PICK m \in S : \A x \in S : m <= x
    <3> HIDE DEF S
    <3> QED BY <2>1, LeastExists
  <2> DEFINE T == {a.batch : a \in {c \in Found(h) : c.seg = m}}
  <2>3. T \in SUBSET Nat /\ T # {}
    BY <1>1, <2>2
  <2>4. PICK n \in T : \A x \in T : n <= x
    <3> HIDE DEF T
    <3> QED BY <2>3, LeastExists
  <2>5. PICK a \in Found(h) : a.seg = m /\ a.batch = n
    BY <2>4
  <2>6. \A b \in Found(h) : a.seg < b.seg \/ (a.seg = b.seg /\ a.batch <= b.batch)
    <3> SUFFICES ASSUME NEW b \in Found(h)
                 PROVE  a.seg < b.seg \/ (a.seg = b.seg /\ a.batch <= b.batch)
      OBVIOUS
    <3>1. b.seg \in Nat /\ b.batch \in Nat /\ a.seg \in Nat /\ a.batch \in Nat
      BY <1>1
    <3>2. a.seg <= b.seg
      BY <2>2, <2>5
    <3>3. b.seg = m => a.batch <= b.batch
      BY <2>4, <2>5
    <3> QED BY <2>5, <3>1, <3>2, <3>3
  <2> QED BY <2>6
<1> QED BY <1>2 DEF FirstFound

\* What inspection finds is intact, and every root is found.
LEMMA InspectInv ==
  ASSUME StoreInv, Inspect PROVE StoreInv'
<1> USE DEF Inspect
<1>1. UNCHANGED <<disk, stub, unlinked, archived, others, roots, failed, collecting, marked,
                  sealed, readers, births, outputs, crashes>> /\ mode = "down" /\ mode' = "repair"
  OBVIOUS
<1>2. Visible' = Visible /\ Visible \subseteq DOMAIN disk /\ Visible \subseteq Nat
      /\ DOMAIN disk \subseteq Nat
  BY DEF Visible, StoreInv, TypeInv, TypeOK
<1>3. /\ DOMAIN segs' = Visible
      /\ \A s \in Visible :
           /\ segs'[s] = Accepted(s) /\ segs'[s] \in 0..Len(disk[s])
           /\ Len(disk[s]) \in Nat /\ Len(disk[s]) <= Capacity
           /\ \A i \in 1..segs'[s] : disk[s][i].st # "bad"
           /\ segs'[s] < Len(disk[s]) => disk[s][segs'[s] + 1].st = "bad"
  <2>1. DOMAIN segs' = Visible /\ \A s \in Visible : segs'[s] = Accepted(s)
    OBVIOUS
  <2>2. \A s \in DOMAIN disk : Len(disk[s]) <= Capacity
    BY DEF StoreInv, TypeInv
  <2> QED BY <1>2, <2>1, <2>2, AcceptedIs, BatchAt DEF StoreInv
<1>4. /\ job' \in JobType /\ job'.kind = "idle" /\ job'.victim = 0 /\ job'.victims = Visible
  BY <1>2 DEF Idle, JobType, Lives
<1>5. \A h \in Hashes : index'[h] = FirstFound(h)
  OBVIOUS
<1>6. \A h \in Hashes : Found(h) \subseteq Address /\ FirstFound(h) \in Address
  <2>1. \A h \in Hashes : Found(h) \subseteq Address
    BY <1>2 DEF Found, Address
  <2>2. None \in Address
    BY DEF None, Address
  <2> QED BY <2>1, <2>2, FirstFoundIs DEF StoreInv
<1>7. RootsVerified /\ highest' = Greatest(Names) /\ index' = [h \in Hashes |-> FirstFound(h)]
  OBVIOUS
<1> HIDE DEF Inspect
<1>8. highest' \in Names /\ \A x \in Names : x <= highest'
  <2>1. Names \in SUBSET Nat /\ Names # {}
    <3>1. stub \subseteq Nat /\ others \subseteq Nat /\ archived \subseteq Nat /\ 0 \in Nat
      BY DEF StoreInv, TypeInv, TypeOK
    <3> QED BY <1>2, <3>1 DEF Names
  <2>2. PICK k \in Nat : \A x \in stub \cup Assigned : x <= k
    BY <1>1 DEF StoreInv, TicketInv
  <2>3. Names \subseteq stub \cup Assigned \cup {0}
    BY <1>2 DEF Names, Assigned
  <2>4. \A x \in Names : x <= k
    BY <2>1, <2>2, <2>3
  <2> QED BY <1>7, <2>1, <2>4, GreatestBounded
<1>9. Names = Top \cup stub /\ Top' = Top /\ Assigned' = Assigned /\ Names \subseteq Nat
  <2>1. stub \subseteq Nat /\ others \subseteq Nat /\ archived \subseteq Nat /\ 0 \in Nat
    BY DEF StoreInv, TypeInv, TypeOK
  <2>2. Names \subseteq Nat
    BY <1>2, <2>1 DEF Names
  <2>3. Names = Top \cup stub
    BY DEF Names, Top
  <2>4. Top' = Top
    BY <1>1, <1>2 DEF Top
  <2>5. Assigned' = Assigned
    BY <1>1 DEF Assigned
  <2> QED BY <2>2, <2>3, <2>4, <2>5
<1>10. TypeInv'
  <2>1. index' \in [Hashes -> Address]
    BY <1>6, <1>7
  <2>2. sealed = {}
    BY <1>1 DEF StoreInv, TypeInv
  <2>3. TypeOK'
    BY <1>1, <1>2, <1>3, <1>8, <1>9, <2>1, <2>2 DEF StoreInv, TypeInv, TypeOK
  <2> QED BY <1>1, <1>4, <2>3 DEF StoreInv, TypeInv
<1>11. TicketInv'
  <2>1. \A x \in Assigned : x <= highest'
    <3> SUFFICES ASSUME NEW x \in Assigned PROVE x <= highest'
      OBVIOUS
    <3>1. PICK n \in Top : x <= n
      BY DEF StoreInv, TicketInv
    <3>2. n <= highest' /\ n \in Nat /\ highest' \in Nat /\ x \in Nat
      BY <1>8, <1>9, AssignedNat DEF StoreInv
    <3> QED BY <3>1, <3>2
  <2> QED BY <1>1, <1>8, <1>9, <2>1 DEF StoreInv, TicketInv, Healthy
<1>12. SafeInv'
  BY <1>1, <1>2 DEF StoreInv, SafeInv, Rooted, Safe, Sound
<1>13. RepairInv'
  <2>1. \A h \in Hashes : index'[h] # None => Holds(index[h], h)'
    <3> SUFFICES ASSUME NEW h \in Hashes, index'[h] # None PROVE Holds(index[h], h)'
      OBVIOUS
    <3> DEFINE a == FirstFound(h)
    <3>1. a \in Found(h) /\ index'[h] = a
      BY <1>5, FirstFoundIs DEF StoreInv
    <3>2. /\ a.seg \in Visible /\ a.batch \in 1..Capacity /\ a.batch <= Accepted(a.seg)
          /\ h \in disk[a.seg][a.batch].chunks
      BY <3>1 DEF Found
    <3> HIDE DEF a
    <3>3. a.batch \in 1..segs'[a.seg] /\ a.batch <= Len(disk[a.seg])
      <4>1. a.batch \in Nat /\ 1 <= a.batch
        BY <3>2, StoreAssumption
      <4>2. segs'[a.seg] \in 0..Len(disk[a.seg]) /\ Len(disk[a.seg]) \in Nat /\ a.batch <= segs'[a.seg]
        BY <1>3, <3>2
      <4> QED BY <4>1, <4>2
    <3>4. disk[a.seg][a.batch].st # "bad"
      <4>1. \A i \in 1..segs'[a.seg] : disk[a.seg][i].st # "bad"
        BY <1>3, <3>2
      <4> QED BY <3>3, <4>1
    <3>5. disk' = disk
      BY <1>1
    <3> QED BY <1>2, <1>3, <3>1, <3>2, <3>3, <3>4, <3>5 DEF Holds
  <2>2. \A h \in Rooted : index'[h] # None
    <3> SUFFICES ASSUME NEW h \in Rooted PROVE index'[h] # None
      OBVIOUS
    <3>1. h \in Hashes /\ Found(h) # {}
      BY <1>7 DEF Rooted, RootsVerified, StoreInv, TypeInv, TypeOK
    <3>2. index'[h] \in Found(h)
      BY <1>5, <3>1, FirstFoundIs DEF StoreInv
    <3>3. index'[h].seg \in DOMAIN disk
      BY <1>2, <3>2 DEF Found
    <3>4. index'[h].seg # 0
      BY <3>3 DEF StoreInv, TypeInv
    <3> QED BY <3>4 DEF None
  <2>3. Rooted' = Rooted
    BY <1>1 DEF Rooted
  <2>4. \A s \in DOMAIN segs' :
          /\ s \in Visible'
          /\ \A i \in 1..segs'[s] : disk'[s][i].st # "bad"
          /\ segs'[s] < Len(disk'[s]) => disk'[s][segs'[s] + 1].st = "bad"
          /\ s \in job'.victims
    <3> SUFFICES ASSUME NEW s \in Visible
                 PROVE  /\ \A i \in 1..segs'[s] : disk[s][i].st # "bad"
                        /\ segs'[s] < Len(disk[s]) => disk[s][segs'[s] + 1].st = "bad"
      <4>1. disk' = disk /\ Visible' = Visible /\ DOMAIN segs' = Visible /\ job'.victims = Visible
        BY <1>1, <1>2, <1>3, <1>4
      <4> QED BY <4>1
    <3>1. \A i \in 1..segs'[s] : disk[s][i].st # "bad"
      BY <1>3
    <3>2. segs'[s] < Len(disk[s]) => disk[s][segs'[s] + 1].st = "bad"
      BY <1>3
    <3> QED BY <3>1, <3>2
  <2>5. Visible' \subseteq DOMAIN segs' /\ job'.victims \subseteq DOMAIN segs'
    BY <1>2, <1>3, <1>4
  <2> QED BY <2>1, <2>2, <2>3, <2>4, <2>5 DEF RepairInv
<1> QED BY <1>1, <1>10, <1>11, <1>12, <1>13 DEF StoreInv, SegmentInv, IndexInv, SweepInv,
         ReaderInv, Healthy

\* A segment is cut where inspection stopped and synced.
LEMMA RepairSegmentInv ==
  ASSUME StoreInv, NEW s \in job.victims, RepairSegment(s) PROVE StoreInv'
<1> USE DEF RepairSegment
<1> DEFINE n == segs[s]
           p == SubSeq(disk[s], 1, n)
           q == SyncData(p)
<1>1. UNCHANGED <<stub, unlinked, others, roots, mode, failed, collecting, highest, index,
                  marked, segs, sealed, readers, births, outputs, crashes>> /\ mode = "repair"
  OBVIOUS
<1>2. s \in DOMAIN segs /\ s \in DOMAIN disk /\ s \in Visible /\ s \in Nat /\ job \in JobType
  BY <1>1 DEF StoreInv, RepairInv, TypeInv, TypeOK
<1>3. disk[s] \in Seq(BatchType) /\ n \in Nat /\ Len(disk[s]) \in Nat /\ n <= Len(disk[s])
      /\ Len(disk[s]) <= Capacity
  BY <1>2, BatchAt DEF StoreInv, TypeInv, TypeOK
<1>4. p \in Seq(BatchType) /\ Len(p) = n /\ \A i \in 1..n : p[i] = disk[s][i]
  <2>1. \A i \in 1..n : i \in 1..Len(disk[s])
    BY <1>3
  <2> HIDE DEF n
  <2> QED BY <1>3, <2>1, SubSeqProperties
<1>5. \A i \in 1..n : disk[s][i].st # "bad"
  BY <1>1, <1>2 DEF StoreInv, RepairInv
<1>6. /\ q \in Seq(BatchType) /\ Len(q) = n
      /\ \A i \in 1..n : q[i].chunks = disk[s][i].chunks /\ q[i].st = "synced"
  <2> HIDE DEF n, p
  <2> QED BY <1>4, <1>5, SyncDataIs
<1>7. /\ DOMAIN disk' = DOMAIN disk /\ disk'[s] = q
      /\ \A x \in DOMAIN disk : x # s => disk'[x] = disk[x]
      /\ archived' \in {archived, archived \cup {s}}
  BY <1>2 DEF CutTail
<1>8. Visible' = Visible
  BY <1>1, <1>7 DEF Visible
<1>9. /\ job' \in JobType /\ job'.kind = job.kind /\ job'.victim = job.victim
      /\ job'.victims = job.victims \ {s}
  BY <1>2 DEF JobType
<1> HIDE DEF n, p, q, RepairSegment
<1>10. TypeInv'
  <2>1. \A x \in DOMAIN disk' : disk'[x] \in Seq(BatchType) /\ Len(disk'[x]) <= Capacity
    <3>1. Len(q) <= Capacity
      BY <1>3, <1>6, StoreAssumption
    <3> QED BY <1>6, <1>7, <3>1 DEF StoreInv, TypeInv, TypeOK
  <2>2. \A x \in DOMAIN segs' : segs'[x] \in 0..Len(disk'[x])
    <3>1. segs[s] \in 0..Len(q)
      BY <1>3, <1>6 DEF n
    <3> QED BY <1>1, <1>7, <3>1 DEF StoreInv, TypeInv, TypeOK
  <2>3. archived' \subseteq Nat
    BY <1>2, <1>7 DEF StoreInv, TypeInv, TypeOK
  <2> QED BY <1>1, <1>7, <1>9, <2>1, <2>2, <2>3 DEF StoreInv, TypeInv, TypeOK
<1>11. TicketInv'
  <2>1. Assigned' = Assigned /\ Top \subseteq Top'
    BY <1>1, <1>2, <1>7, <1>8 DEF Assigned, Top
  <2> QED BY <1>1, <2>1 DEF StoreInv, TicketInv, Healthy
<1>12. SafeInv'
  <2> SUFFICES ASSUME NEW h \in Rooted PROVE Safe(h)'
    BY <1>1 DEF SafeInv, Rooted
  <2>1. PICK a \in Address : Sound(a, h)
    BY RootsSafe DEF Safe
  <2>2. CASE a.seg = s
    <3>1. a.batch \in Nat /\ a.batch \in 1..Len(disk[s]) /\ \A i \in 1..a.batch : disk[s][i].st = "synced"
      BY <2>1, <2>2 DEF Sound, Address
    <3>2. n < Len(disk[s]) => disk[s][n + 1].st = "bad"
      BY <1>1, <1>2 DEF StoreInv, RepairInv, n
    <3>3. n < Len(disk[s]) => n + 1 \notin 1..a.batch
      BY <3>1, <3>2
    <3>4. a.batch <= n
      BY <1>3, <3>1, <3>3
    <3>5. a.batch \in 1..n /\ \A i \in 1..a.batch : i \in 1..n
      BY <1>3, <3>1, <3>4
    <3>6. Sound(a, h)'
      BY <1>6, <1>7, <1>8, <2>1, <2>2, <3>5 DEF Sound
    <3> QED BY <3>6 DEF Safe
  <2>3. CASE a.seg # s
    <3>1. disk'[a.seg] = disk[a.seg]
      BY <1>7, <2>1, <2>3 DEF Sound, Visible
    <3>2. Sound(a, h)'
      BY <1>8, <2>1, <3>1 DEF Sound
    <3> QED BY <3>2 DEF Safe
  <2> QED BY <2>2, <2>3
<1>13. RepairInv'
  <2>1. \A x \in DOMAIN segs :
          /\ x \in Visible
          /\ \A i \in 1..segs[x] : disk'[x][i].st # "bad"
          /\ segs[x] < Len(disk'[x]) => disk'[x][segs[x] + 1].st = "bad"
          /\ x \notin job'.victims => \A i \in 1..segs[x] : disk'[x][i].st = "synced"
    <3> SUFFICES ASSUME NEW x \in DOMAIN segs
                 PROVE  /\ x \in Visible
                        /\ \A i \in 1..segs[x] : disk'[x][i].st # "bad"
                        /\ segs[x] < Len(disk'[x]) => disk'[x][segs[x] + 1].st = "bad"
                        /\ x \notin job'.victims => \A i \in 1..segs[x] : disk'[x][i].st = "synced"
      OBVIOUS
    <3>1. CASE x = s
      <4>1. /\ \A i \in 1..segs[x] : disk'[x][i].st = "synced"
            /\ Len(disk'[x]) = segs[x]
        BY <1>6, <1>7, <3>1 DEF n
      <4>2. ~(segs[x] < Len(disk'[x]))
        BY <1>3, <3>1, <4>1 DEF n
      <4> QED BY <1>2, <3>1, <4>1, <4>2
    <3>2. CASE x # s
      <4>1. disk'[x] = disk[x]
        BY <1>7, <3>2 DEF StoreInv, TypeInv, TypeOK
      <4> QED BY <1>1, <1>9, <3>2, <4>1 DEF StoreInv, RepairInv
    <3> QED BY <3>1, <3>2
  <2>2. \A h \in Hashes : Holds(index[h], h) => Holds(index[h], h)'
    <3> SUFFICES ASSUME NEW h \in Hashes, Holds(index[h], h) PROVE Holds(index[h], h)'
      OBVIOUS
    <3> DEFINE a == index[h]
    <3>1. a = index'[h] /\ a.seg \in DOMAIN segs /\ a.seg \in Visible /\ a.batch \in 1..segs[a.seg]
      BY <1>1 DEF Holds
    <3>2. CASE a.seg = s
      <4>1. a.batch \in 1..n /\ a.batch <= Len(q)
        BY <1>3, <1>6, <3>1, <3>2 DEF n
      <4> QED BY <1>1, <1>6, <1>7, <1>8, <3>1, <3>2, <4>1 DEF Holds
    <3>3. CASE a.seg # s
      <4>1. disk'[a.seg] = disk[a.seg]
        BY <1>7, <3>1, <3>3 DEF Visible
      <4> QED BY <1>1, <1>8, <3>1, <4>1 DEF Holds
    <3> QED BY <3>2, <3>3
  <2>3. Rooted' = Rooted
    BY <1>1 DEF Rooted
  <2> QED BY <1>1, <1>8, <1>9, <2>1, <2>2, <2>3 DEF StoreInv, RepairInv
<1> QED BY <1>1, <1>10, <1>11, <1>12, <1>13 DEF StoreInv, SegmentInv, IndexInv, SweepInv,
         ReaderInv, Healthy

\* A file without a header is archived under its name.
LEMMA RejectFileInv ==
  ASSUME StoreInv, NEW t \in stub, RejectFile(t) PROVE StoreInv'
<1> USE DEF RejectFile
<1>1. UNCHANGED <<others, roots, mode, failed, collecting, highest, index,
                  marked, segs, sealed, job, readers, births, outputs, crashes>>
      /\ mode = "repair" /\ archived' = archived \cup {t} /\ stub' = stub \ {t}
  OBVIOUS
<1>2. /\ DOMAIN disk' = Visible /\ \A s \in Visible : disk'[s] = disk[s]
      /\ unlinked' = {} /\ Visible' = Visible /\ Visible \subseteq DOMAIN disk
  BY DEF Settled, Visible
<1>3. DOMAIN segs = Visible /\ t \in Nat /\ t <= highest
  BY <1>1 DEF StoreInv, RepairInv, TicketInv, TypeInv, TypeOK
<1>4. TypeInv'
  <2>1. \A s \in DOMAIN disk' : disk'[s] \in Seq(BatchType) /\ Len(disk'[s]) <= Capacity
    BY <1>2 DEF StoreInv, TypeInv, TypeOK
  <2>2. \A s \in DOMAIN segs' : segs'[s] \in 0..Len(disk'[s])
    BY <1>1, <1>2, <1>3 DEF StoreInv, TypeInv, TypeOK
  <2> HIDE DEF RejectFile
  <2> QED BY <1>1, <1>2, <1>3, <2>1, <2>2 DEF StoreInv, TypeInv, TypeOK
<1>5. TicketInv'
  <2>1. Top' = Top \cup {t} /\ Assigned' \subseteq Assigned \cup {t} /\ Top' \cup stub' = Top \cup stub
    BY <1>1, <1>2 DEF Top, Assigned
  <2>2. \A x \in Assigned' : \E n \in Top' : x <= n
    <3>1. t <= t
      BY <1>3
    <3> QED BY <2>1, <3>1 DEF StoreInv, TicketInv
  <2> HIDE DEF RejectFile
  <2> QED BY <1>1, <1>3, <2>1, <2>2 DEF StoreInv, TicketInv, Healthy
<1>6. SafeInv'
  <2> SUFFICES ASSUME NEW h \in Rooted PROVE Safe(h)'
    BY <1>1 DEF SafeInv, Rooted
  <2>1. PICK a \in Address : Sound(a, h)
    BY RootsSafe DEF Safe
  <2>2. Sound(a, h)'
    BY <1>2, <2>1 DEF Sound
  <2> QED BY <2>2 DEF Safe
<1>7. RepairInv'
  <2>1. \A h \in Hashes : Holds(index[h], h) => Holds(index[h], h)'
    BY <1>1, <1>2, <1>3 DEF Holds
  <2>2. Rooted' = Rooted
    BY <1>1 DEF Rooted
  <2> HIDE DEF RejectFile
  <2> QED BY <1>1, <1>2, <1>3, <2>1, <2>2 DEF StoreInv, RepairInv
<1> QED BY <1>1, <1>4, <1>5, <1>6, <1>7 DEF StoreInv, SegmentInv, IndexInv, SweepInv,
         ReaderInv, Healthy

\* The store serves what recovery repaired.
LEMMA FinishRecoveryInv ==
  ASSUME StoreInv, FinishRecovery PROVE StoreInv'
<1> USE DEF FinishRecovery
<1>1. UNCHANGED <<disk, stub, unlinked, archived, others, roots, failed, collecting, highest,
                  index, marked, segs, sealed, job, readers, births, outputs, crashes>>
      /\ mode = "repair" /\ mode' = "serving" /\ job.victims = {} /\ stub = {}
  OBVIOUS
<1>2. job.kind = "idle" /\ job.victim = 0 /\ \A r \in Readers : ~readers[r].on /\ readers[r].at = None
  BY <1>1 DEF StoreInv, TypeInv, NoRead
<1>3. TypeInv'
  BY <1>1 DEF StoreInv, TypeInv, TypeOK
<1>4. TicketInv'
  BY <1>1 DEF StoreInv, TicketInv, Assigned, Top, Visible
<1>5. SafeInv' /\ RepairInv'
  BY <1>1, RootsSafe DEF SafeInv, RepairInv, Rooted, Safe, Sound, Visible
<1>6. ~Sweeping' /\ ~Writing'
  BY <1>1, <1>2 DEF Sweeping, Writing
<1>7. SegmentInv' /\ SweepInv'
  BY <1>1, <1>2, <1>6 DEF StoreInv, RepairInv, SegmentInv, SweepInv, Visible
<1>8. IndexInv'
  <2>1. Needed' = Rooted
    <3>1. Held = {}
      BY <1>2 DEF Held
    <3> QED BY <1>1, <3>1 DEF Needed, Rooted, Held
  <2>2. \A h \in Hashes : Holds(index[h], h) => Holds(index[h], h)'
    BY <1>1 DEF Holds, Visible
  <2> QED BY <1>1, <1>2, <1>6, <2>1, <2>2 DEF StoreInv, RepairInv, IndexInv
<1>9. ReaderInv'
  BY <1>1, <1>2 DEF ReaderInv
<1> QED BY <1>3, <1>4, <1>5, <1>7, <1>8, <1>9 DEF StoreInv

-----------------------------------------------------------------------------
(* The invariant, and what it says.                                        *)

\* A new store.
LEMMA InitInv ==
  ASSUME Init PROVE StoreInv
<1> USE DEF Init
<1>1. /\ DOMAIN disk = {} /\ DOMAIN segs = {} /\ DOMAIN births = {} /\ births \in Seq(Nat)
      /\ mode = "serving" /\ stub = {} /\ highest = 0
  BY EmptySeq
<1>2. Idle \in JobType /\ Idle.kind = "idle" /\ Idle.victim = 0 /\ Idle.out = {}
  BY DEF Idle, JobType, Lives
<1>3. NoRead \in ReadType /\ NoRead.at = None /\ ~NoRead.on
  BY DEF NoRead, None, Address, ReadType
<1>4. None \in Address
  BY DEF None, Address
<1>5. TypeInv
  <2>1. roots \in [Roots -> SUBSET Hashes] /\ index \in [Hashes -> Address]
        /\ readers \in [Readers -> ReadType]
    BY <1>3, <1>4
  <2>2. stub = {} /\ unlinked = {} /\ archived = {} /\ others = {} /\ sealed = {} /\ marked = {}
        /\ failed \in BOOLEAN /\ collecting \in BOOLEAN /\ highest \in Nat /\ outputs \in Nat
        /\ crashes \in Nat
    OBVIOUS
  <2> HIDE DEF Init
  <2>3. TypeOK
    BY <1>1, <2>1, <2>2 DEF TypeOK
  <2> USE DEF Init
  <2> QED BY <1>1, <1>2, <2>1, <2>3 DEF TypeInv
<1>6. TicketInv
  BY <1>1 DEF TicketInv, Assigned, Top, Visible
<1>7. Needed = {} /\ Rooted = {}
  BY <1>3 DEF Needed, Held, Rooted
<1>8. ~Sweeping /\ ~Writing
  BY <1>2 DEF Sweeping, Writing
<1>9. SegmentInv /\ IndexInv /\ SweepInv
  BY <1>1, <1>2, <1>7, <1>8 DEF SegmentInv, IndexInv, SweepInv
<1>10. ReaderInv
  BY <1>3 DEF ReaderInv
<1> QED BY <1>1, <1>5, <1>6, <1>9, <1>10 DEF StoreInv, SafeInv, RepairInv

\* Steps that change nothing.
LEMMA StutterInv ==
  ASSUME StoreInv, UNCHANGED vars PROVE StoreInv'
<1> USE DEF vars
<1>1. TypeInv'
  BY DEF StoreInv, TypeInv, TypeOK
<1>2. TicketInv'
  BY NamesKept DEF StoreInv
<1>3. SafeInv' /\ RepairInv'
  BY DEF StoreInv, SafeInv, RepairInv, Rooted, Safe, Sound, Visible, Holds
<1>4. SegmentInv'
  BY DEF StoreInv, SegmentInv, Healthy, Last
<1>5. SweepInv'
  BY SameLast DEF StoreInv, SweepInv, Sweeping, Writing, Healthy, Old
<1>6. IndexInv'
  BY DEF StoreInv, IndexInv, Sweeping, Writing, Healthy, Holds, Visible, Needed, Held
<1>7. ReaderInv'
  BY PinsKept DEF StoreInv
<1> QED BY <1>1, <1>2, <1>3, <1>4, <1>5, <1>6, <1>7 DEF StoreInv

\* Every step of the worker, the readers, the staging logs, recovery and the
\* host keeps the invariant.
LEMMA NextInv ==
  ASSUME StoreInv, [Next]_vars PROVE StoreInv'
<1>1. CASE OutputStep
  BY <1>1, InsertInv, BeginCreateInv, FinishCreateInv, WriteBatchInv, SyncBatchInv,
     PublishBatchInv, CommitInv DEF OutputStep
<1>2. CASE CollectionStep
  BY <1>2, MarkInv, FinishMarkingInv, StartVictimInv, CopyBatchInv, CopiedAllInv,
     TrimGreatestInv, UnlinkVictimInv, ForgetVictimInv, FinishCollectionInv DEF CollectionStep
<1>3. CASE RequestStep
  BY <1>3, BeginOutputInv, SnapshotInv, BeginCollectionInv DEF RequestStep
<1>4. CASE OtherStep
  BY <1>4, OpenViewInv, PlanInv, ReadDoneInv, OtherCreateInv, OtherRemoveInv DEF OtherStep
<1>5. CASE RecoveryStep
  BY <1>5, InspectInv, FinishRecoveryInv, RepairSegmentInv, RejectFileInv DEF RecoveryStep
<1>6. CASE CrashStep
  BY <1>6, CrashInv DEF CrashStep
<1> QED BY <1>1, <1>2, <1>3, <1>4, <1>5, <1>6, FailInv, StutterInv DEF Next

\* The invariant of the store holds in every reachable state, whatever the
\* worker, readers, staging logs, crashes and recovery do (store/file).
THEOREM StoreInvariant == Spec => []StoreInv
<1>1. Init => StoreInv
  BY InitInv
<1>2. StoreInv /\ [Next]_vars => StoreInv'
  BY NextInv
<1> QED BY <1>1, <1>2, PTL DEF Spec

\* In a state of the invariant every root is readable, survives and no ticket
\* was assigned twice.
LEMMA RootsKeptHere ==
  ASSUME StoreInv PROVE RootsKept
<1>1. TypeOK /\ TicketsUnique
  BY DEF StoreInv, TypeInv, TicketInv, TicketsUnique
<1>2. RootsReadable
  BY DEF StoreInv, IndexInv, RootsReadable, Needed, TypeInv, TypeOK, Held, ReadType
<1>3. RootsSurvive
  <2> SUFFICES ASSUME NEW o \in Roots, NEW h \in roots[o] PROVE Found(h) # {}
    BY DEF RootsSurvive
  <2>1. h \in Rooted
    BY DEF Rooted
  <2>2. PICK a \in Address : Sound(a, h)
    BY <2>1, RootsSafe DEF Safe
  <2>3. a.seg \in Visible /\ a.seg \in DOMAIN disk /\ a.batch \in 1..Len(disk[a.seg])
    BY <2>2 DEF Sound, Visible
  <2>4. Len(disk[a.seg]) \in Nat /\ Len(disk[a.seg]) <= Capacity /\ Capacity \in Nat
    BY <2>3, BatchAt, StoreAssumption DEF StoreInv, TypeInv
  <2> DEFINE n == Accepted(a.seg)
  <2>5. n \in 0..Len(disk[a.seg]) /\ (n < Len(disk[a.seg]) => disk[a.seg][n + 1].st = "bad")
    BY <2>3, AcceptedIs DEF StoreInv
  <2> HIDE DEF n
  <2>6. n < Len(disk[a.seg]) => n + 1 \notin 1..a.batch
    BY <2>2, <2>5 DEF Sound
  <2>7. a.batch <= n /\ a.batch \in 1..Capacity
    BY <2>3, <2>4, <2>5, <2>6
  <2>8. a \in [seg : Visible, batch : 1..Capacity]
    BY <2>3, <2>7 DEF Address
  <2> QED BY <2>2, <2>7, <2>8 DEF Found, Sound, n
<1> QED BY <1>1, <1>2, <1>3 DEF RootsKept

\* No chunk a root or a pinned view refers to is ever lost, whether the store
\* serves or has stopped, and no ticket is assigned twice.
THEOREM RootsNeverLost == Spec => []RootsKept
<1>1. StoreInv => RootsKept
  BY RootsKeptHere
<1> QED BY <1>1, StoreInvariant, PTL

\* The file of a planned read is not cut, removed or overwritten under its pin.
THEOREM PinsHold == Spec => []ReadsStable
<1>1. StoreInv => ReadsStable
  BY DEF StoreInv, ReaderInv, ReadsStable
<1> QED BY <1>1, StoreInvariant, PTL

-----------------------------------------------------------------------------
(* No consistency check fails: sizes and counts.                           *)

\* Every file fits its segment, every batch its header.
FitInv ==
  \A s \in DOMAIN disk :
    /\ End(disk[s], Len(disk[s])) <= Capacity
    /\ \A i \in 1..Len(disk[s]) : Cardinality(disk[s][i].chunks) <= MaxChunks

\* A file ends where the table says, but for the batch being published and
\* the segments recovery has not cut yet.
CutInv ==
  /\ Healthy => \A s \in DOMAIN segs :
       Len(disk[s]) = segs[s] \/ (job.kind \in {"written", "synced"} /\ s = Last)
  /\ mode = "repair" => \A s \in DOMAIN segs \ job.victims : Len(disk[s]) = segs[s]

Filled == job.copied # 0 \/ job.kind \in {"write", "written", "synced"}

\* The live chunks of a victim are copied or still to be copied, and the
\* segment they are copied to is no longer than what was copied.
CopyInv ==
  Healthy =>
    /\ Sweeping => job.victims \subseteq DOMAIN segs
    /\ Writing => Cardinality(job.out) <= MaxChunks
    /\ job.kind = "write" => Last \notin sealed /\ OutputFits
    /\ job.victim # 0 /\ Writing => \A h \in job.out : h \in marked /\ index[h] = Old
    /\ job.victim # 0 => job.from >= 1 /\ job.copied + Live(job.victim) = job.live[job.victim]
    /\ job.victim # 0 /\ Filled => job.victim < highest
    /\ job.victim # 0 /\ Filled /\ (job.kind = "copy" \/ Writing) =>
         /\ Last \notin sealed
         /\ End(disk[Last], segs[Last]) <= End(disk[job.victim], job.from - 1)

AlarmInv == FitInv /\ CutInv /\ CopyInv

\* The chunks of the first n batches of b.
Packed(b, n) == {p \in (1..n) \X Hashes : p[2] \in b[p[1]].chunks}

\* The chunks of a file can be counted.
LEMMA EndType ==
  ASSUME NEW b, NEW n \in Nat
  PROVE  /\ IsFiniteSet(Packed(b, n)) /\ Cardinality(Packed(b, n)) \in Nat
         /\ End(b, n) = 1 + n + Cardinality(Packed(b, n)) /\ End(b, n) \in Nat
<1>1. IsFiniteSet(1..n)
  <2>1. 1 \in Int /\ n \in Int
    OBVIOUS
  <2> QED BY <2>1, FS_Interval
<1>2. IsFiniteSet((1..n) \X Hashes)
  BY <1>1, StoreAssumption, FS_Product
<1>3. Packed(b, n) \in SUBSET ((1..n) \X Hashes)
  BY DEF Packed
<1>4. IsFiniteSet(Packed(b, n)) /\ Cardinality(Packed(b, n)) \in Nat
  BY <1>2, <1>3, FS_Subset, FS_CardinalityType
<1>5. End(b, n) = 1 + n + Cardinality(Packed(b, n))
  BY DEF End, Packed
<1> QED BY <1>4, <1>5

\* An empty segment is one header long.
LEMMA EmptyEnd ==
  Len(<<>>) = 0 /\ End(<<>>, 0) = 1
<1>1. Packed(<<>>, 0) = {}
  BY DEF Packed
<1>2. Cardinality({}) = 0 /\ 0 \in Nat
  BY FS_EmptySet
<1>3. End(<<>>, 0) = 1 + 0 + Cardinality(Packed(<<>>, 0))
  BY <1>2, EndType
<1> QED BY <1>1, <1>2, <1>3

\* A file with more batches is longer.
LEMMA EndMonotone ==
  ASSUME NEW b, NEW c, NEW n \in Nat, NEW m \in Nat, n <= m,
         \A i \in 1..n : b[i].chunks = c[i].chunks
  PROVE  End(b, n) <= End(c, m)
<1>1. Packed(b, n) \in SUBSET Packed(c, m)
  BY DEF Packed
<1>2. Cardinality(Packed(b, n)) <= Cardinality(Packed(c, m))
  BY <1>1, EndType, FS_Subset
<1> QED BY <1>2, EndType

\* One more batch: its header and its chunks.
LEMMA EndStep ==
  ASSUME NEW b, NEW n \in Nat, b[n + 1].chunks \in SUBSET Hashes
  PROVE  End(b, n + 1) = End(b, n) + 1 + Cardinality(b[n + 1].chunks)
<1> DEFINE C == b[n + 1].chunks
           N == {n + 1} \X C
<1>1. Packed(b, n + 1) = Packed(b, n) \cup N /\ Packed(b, n) \cap N = {}
  BY DEF Packed
<1>2. IsFiniteSet(C) /\ Cardinality(C) \in Nat
  BY StoreAssumption, FS_Subset, FS_CardinalityType
<1>3. IsFiniteSet({n + 1}) /\ Cardinality({n + 1}) = 1
  BY FS_Singleton
<1> HIDE DEF C
<1>4. IsFiniteSet(N) /\ Cardinality(N) = 1 * Cardinality(C)
  BY <1>2, <1>3, FS_Product
<1>5. Cardinality({}) = 0
  BY FS_EmptySet
<1> HIDE DEF N
<1>6. Cardinality(Packed(b, n) \cup N)
        = Cardinality(Packed(b, n)) + Cardinality(N) - Cardinality(Packed(b, n) \cap N)
  BY <1>4, EndType, FS_Union
<1>7. n + 1 \in Nat
  OBVIOUS
<1>8. Cardinality(Packed(b, n + 1)) = Cardinality(Packed(b, n)) + Cardinality(C)
  <2>1. Cardinality(Packed(b, n)) \in Nat
    BY EndType
  <2>2. Cardinality(N) = Cardinality(C)
    BY <1>2, <1>4
  <2>3. Cardinality(Packed(b, n + 1)) = Cardinality(Packed(b, n)) + Cardinality(N) - 0
    BY <1>1, <1>5, <1>6
  <2> QED BY <1>2, <2>1, <2>2, <2>3
<1> QED BY <1>2, <1>7, <1>8, EndType DEF C

\* A part of the live chunks leaves a segment.
LEMMA LiveType ==
  ASSUME TypeInv, NEW v PROVE Live(v) \in Nat /\ IsFiniteSet({h \in marked : index[h].seg = v})
<1>1. {h \in marked : index[h].seg = v} \in SUBSET Hashes
  BY DEF TypeInv, TypeOK
<1> QED BY <1>1, StoreAssumption, FS_Subset, FS_CardinalityType DEF Live

\* A step that changes neither files nor the worker's state.
LEMMA AlarmSame ==
  ASSUME StoreInv, StoreInv', AlarmInv, highest <= highest',
         UNCHANGED <<disk, segs, sealed, index, marked, job, mode, failed>>
  PROVE  AlarmInv'
<1>1. Last' = Last /\ \A v : Live(v)' = Live(v)
  BY SameLast
<1>2. highest \in Nat /\ highest' \in Nat /\ job.victim \in Nat
  BY DEF StoreInv, TypeInv, TypeOK, JobType
<1>3. FitInv'
  BY DEF AlarmInv, FitInv, End
<1>4. CutInv'
  BY <1>1 DEF AlarmInv, CutInv, Healthy
<1>5. \A b, n : End(b, n)' = End(b, n)
  BY DEF End
<1>6. job.victim < highest => job.victim < highest'
  BY <1>2
<1>7. CopyInv'
  <2>1. Healthy' = Healthy /\ Sweeping' = Sweeping /\ Writing' = Writing /\ Filled' = Filled
        /\ OutputFits' = OutputFits /\ Old' = Old
    BY <1>1 DEF Healthy, Sweeping, Writing, Filled, OutputFits, Old, End
  <2> QED BY <1>1, <1>6, <2>1 DEF AlarmInv, CopyInv
<1> QED BY <1>3, <1>4, <1>7 DEF AlarmInv

\* A step that leaves the worker without a batch in hand and no victim.
LEMMA AlarmIdle ==
  ASSUME AlarmInv, Healthy, job.kind \notin {"written", "synced"},
         UNCHANGED <<disk, segs, mode, failed>>,
         job'.kind \in {"idle", "insert", "mark", "sweep"}, job'.victim = 0,
         job'.kind = "sweep" => job'.victims \subseteq DOMAIN segs
  PROVE  AlarmInv'
<1>1. FitInv'
  BY DEF AlarmInv, FitInv
<1>2. CutInv'
  BY DEF AlarmInv, CutInv, Healthy
<1>3. CopyInv'
  BY DEF CopyInv, Sweeping, Writing
<1> QED BY <1>1, <1>2, <1>3 DEF AlarmInv

\* A step that changes only the transaction of the worker.
LEMMA AlarmJob ==
  ASSUME AlarmInv, Healthy, job.kind \notin {"written", "synced"},
         UNCHANGED <<disk, segs, mode, failed>>, CopyInv'
  PROVE  AlarmInv'
<1>1. FitInv'
  BY DEF AlarmInv, FitInv
<1>2. CutInv'
  BY DEF AlarmInv, CutInv, Healthy
<1> QED BY <1>1, <1>2 DEF AlarmInv

\* A batch takes a header's worth of blocks more than the chunks in it.
LEMMA EndGrow ==
  ASSUME NEW b, NEW n \in Nat, NEW T \in SUBSET Hashes, T \subseteq b[n + 1].chunks
  PROVE  End(b, n) + 1 + Cardinality(T) <= End(b, n + 1)
<1> DEFINE N == {n + 1} \X T
<1>1. Packed(b, n) \cup N \in SUBSET Packed(b, n + 1) /\ Packed(b, n) \cap N = {}
  BY DEF Packed
<1>2. IsFiniteSet(T) /\ Cardinality(T) \in Nat
  BY StoreAssumption, FS_Subset, FS_CardinalityType
<1>3. IsFiniteSet({n + 1}) /\ Cardinality({n + 1}) = 1
  BY FS_Singleton
<1>4. IsFiniteSet(N) /\ Cardinality(N) = 1 * Cardinality(T)
  BY <1>2, <1>3, FS_Product
<1>5. Cardinality({}) = 0
  BY FS_EmptySet
<1> HIDE DEF N
<1>6. Cardinality(Packed(b, n) \cup N)
        = Cardinality(Packed(b, n)) + Cardinality(N) - Cardinality(Packed(b, n) \cap N)
  BY <1>4, EndType, FS_Union
<1>7. n + 1 \in Nat
  OBVIOUS
<1>8. Cardinality(Packed(b, n) \cup N) <= Cardinality(Packed(b, n + 1))
  BY <1>1, <1>7, EndType, FS_Subset
<1>9. Cardinality(Packed(b, n)) + Cardinality(T) <= Cardinality(Packed(b, n + 1))
  <2>1. Cardinality(Packed(b, n)) \in Nat /\ Cardinality(Packed(b, n + 1)) \in Nat
    BY <1>7, EndType
  <2>2. Cardinality(N) = Cardinality(T)
    BY <1>2, <1>4
  <2>3. Cardinality(Packed(b, n) \cup N) = Cardinality(Packed(b, n)) + Cardinality(N) - 0
    BY <1>1, <1>5, <1>6
  <2> QED BY <1>2, <1>8, <2>1, <2>2, <2>3
<1> QED BY <1>2, <1>7, <1>9, EndType

\* Insert: an output of at most MaxChunks chunks, in a segment with room.
LEMMA InsertAlarm ==
  ASSUME StoreInv, AlarmInv, NEW chunks \in SUBSET job.want, Insert(chunks) PROVE AlarmInv'
<1> USE DEF Insert
<1> DEFINE out == Missing(chunks)
<1>1. /\ job \in JobType /\ Healthy /\ job.kind = "insert" /\ job.victim = 0
      /\ out \in SUBSET chunks /\ chunks \in SUBSET Hashes
  BY DEF StoreInv, TypeInv, SweepInv, JobType, Missing
<1>2. /\ job'.kind = (IF out = {} THEN "insert" ELSE IF NeedsSegment(out) THEN "create" ELSE "write")
      /\ job'.out = out /\ job'.victim = 0
      /\ UNCHANGED <<disk, segs, sealed, mode, failed>>
  BY <1>1 DEF JobType
<1>3. IsFiniteSet(chunks) /\ Cardinality(chunks) \in Nat /\ Cardinality(out) \in Nat
      /\ Cardinality(out) <= Cardinality(chunks)
  <2> HIDE DEF out
  <2> QED BY <1>1, StoreAssumption, FS_Subset, FS_CardinalityType
<1>4. Cardinality(out) <= MaxChunks
  BY <1>3, StoreAssumption
<1>5. ASSUME out # {}, ~NeedsSegment(out) PROVE (Last \notin sealed /\ OutputFits)'
  <2>1. DOMAIN segs # {} /\ Last \notin sealed
        /\ ~(Cardinality(out) + 1 > Capacity - End(disk[Last], segs[Last]))
    BY <1>5 DEF NeedsSegment
  <2>2. Last \in DOMAIN segs
    BY <2>1, LastSegment DEF StoreInv, Healthy
  <2>3. segs[Last] \in Nat
    BY <2>2 DEF StoreInv, TypeInv, TypeOK
  <2>4. End(disk[Last], segs[Last]) \in Nat
    BY <2>3, EndType
  <2>5. Cardinality(out) + 1 <= Capacity - End(disk[Last], segs[Last])
    BY <1>3, <2>1, <2>4, StoreAssumption
  <2>6. Last' = Last
    BY <1>2 DEF Last
  <2> HIDE DEF Insert, out
  <2> QED BY <1>2, <2>1, <2>5, <2>6 DEF OutputFits
<1> HIDE DEF Insert, out
<1>6. CopyInv'
  BY <1>1, <1>2, <1>4, <1>5 DEF CopyInv, Sweeping, Writing
<1> QED BY <1>1, <1>2, <1>6, AlarmJob

\* The segment's name is taken.
LEMMA BeginCreateAlarm ==
  ASSUME StoreInv, AlarmInv, BeginCreate PROVE AlarmInv'
<1> USE DEF BeginCreate
<1>1. job \in JobType /\ Healthy /\ job.kind = "create"
  BY DEF StoreInv, TypeInv
<1>2. /\ job'.kind = "creating" /\ job'.victims = job.victims
      /\ job'.live = job.live /\ job'.victim = job.victim /\ job'.out = job.out
      /\ job'.from = job.from /\ job'.copied = job.copied
  BY <1>1 DEF JobType
<1>3. UNCHANGED <<disk, segs, sealed, index, marked, highest, mode, failed>>
  OBVIOUS
<1>4. Last' = Last /\ \A v : Live(v)' = Live(v)
  BY <1>3, SameLast
<1> HIDE DEF BeginCreate
<1>5. /\ Sweeping' = Sweeping /\ Writing' /\ Writing /\ Filled' = Filled /\ Old' = Old
  BY <1>1, <1>2 DEF Sweeping, Writing, Filled, Old
<1>6. CopyInv'
  BY <1>1, <1>2, <1>3, <1>4, <1>5 DEF AlarmInv, CopyInv
<1> QED BY <1>1, <1>3, <1>6, AlarmJob

\* An empty segment holds every output.
LEMMA FinishCreateAlarm ==
  ASSUME StoreInv, AlarmInv, FinishCreate PROVE AlarmInv'
<1>1. job \in JobType /\ Healthy /\ job.kind = "creating" /\ highest \in Nat
      /\ job.victim \in Nat /\ job.from \in Nat /\ job.out \in SUBSET Hashes
  BY DEF StoreInv, TypeInv, TypeOK, FinishCreate, JobType
<1>2. /\ job'.kind = "write" /\ job'.victims = job.victims
      /\ job'.live = job.live /\ job'.victim = job.victim /\ job'.out = job.out
      /\ job'.from = job.from /\ job'.copied = job.copied
  BY <1>1 DEF JobType, FinishCreate
<1> DEFINE number == highest + 1
<1>3. /\ DOMAIN disk \subseteq Nat /\ number \notin DOMAIN disk
      /\ \A s \in DOMAIN disk : s <= highest
      /\ DOMAIN segs \subseteq Visible /\ Visible \subseteq DOMAIN disk
      /\ DOMAIN disk' = Visible \cup {number} /\ disk'[number] = <<>>
      /\ \A s \in Visible : disk'[s] = disk[s]
      /\ DOMAIN segs' = DOMAIN segs \cup {number} /\ segs'[number] = 0
      /\ \A s \in DOMAIN segs : segs'[s] = segs[s]
      /\ Last' = number
  BY NewSegment
<1>4. UNCHANGED <<sealed, index, marked, mode, failed>> /\ highest' = number
  BY DEF FinishCreate
<1> HIDE DEF number
<1>5. Len(<<>>) = 0 /\ End(<<>>, 0) = 1
  BY EmptyEnd
<1>6. FitInv'
  <2>1. End(disk'[number], Len(disk'[number])) <= Capacity
    BY <1>3, <1>5, StoreAssumption
  <2>2. \A i \in 1..Len(disk'[number]) : FALSE
    BY <1>3, <1>5
  <2> QED BY <1>3, <2>1, <2>2 DEF AlarmInv, FitInv
<1>7. CutInv'
  <2>1. \A s \in DOMAIN segs : Len(disk[s]) = segs[s]
    BY <1>1 DEF AlarmInv, CutInv
  <2>2. \A s \in DOMAIN segs' : Len(disk'[s]) = segs'[s]
    BY <1>3, <1>5, <2>1
  <2>3. mode' # "repair"
    BY <1>1, <1>4 DEF Healthy
  <2> QED BY <2>2, <2>3 DEF CutInv
<1>8. CopyInv'
  <2>1. Cardinality(job.out) <= MaxChunks /\ Cardinality(job.out) \in Nat
    BY <1>1, StoreAssumption, FS_Subset, FS_CardinalityType DEF AlarmInv, CopyInv, Writing
  <2>2. Cardinality(job.out) + 1 <= Capacity - 1
    BY <2>1, StoreAssumption
  <2>3. End(disk'[number], segs'[number]) = 1
    BY <1>3, <1>5
  <2>4. OutputFits'
    BY <1>2, <1>3, <2>2, <2>3 DEF OutputFits
  <2>5. number \notin sealed
    BY <1>3 DEF StoreInv, TypeInv, TypeOK
  <2>6. \A v : Live(v)' = Live(v)
    BY <1>4 DEF Live
  <2>7. CASE job.victim = 0
    <3>1. ~Sweeping' /\ Writing'
      BY <1>2, <2>7 DEF Sweeping, Writing
    <3> QED BY <1>2, <1>3, <1>4, <2>1, <2>4, <2>5, <2>7, <3>1 DEF CopyInv
  <2>8. CASE job.victim # 0
    <3>1. Sweeping /\ Writing /\ Writing' /\ Old' = Old
      BY <1>1, <1>2, <2>8 DEF Sweeping, Writing, Old
    <3>2. /\ job.victims \subseteq DOMAIN segs
          /\ \A h \in job.out : h \in marked /\ index[h] = Old
          /\ job.from >= 1 /\ job.copied + Live(job.victim) = job.live[job.victim]
      BY <1>1, <2>8, <3>1 DEF AlarmInv, CopyInv
    <3>3. job.victim < number
      <4>1. job.victim <= highest
        BY <1>1, <2>8, <3>1 DEF StoreInv, SweepInv
      <4> QED BY <1>1, <4>1 DEF number
    <3>4. job.from - 1 \in Nat
      BY <1>1, <3>2
    <3>5. 1 <= End(disk'[job.victim], job.from - 1)
      BY <3>4, EndType
    <3>6. /\ job'.victims \subseteq DOMAIN segs'
          /\ \A h \in job'.out : h \in marked' /\ index'[h] = Old'
          /\ job'.from >= 1 /\ job'.copied + Live(job.victim)' = job'.live[job'.victim]
      BY <1>2, <1>3, <1>4, <2>6, <3>1, <3>2
    <3> QED BY <1>2, <1>3, <1>4, <2>1, <2>3, <2>4, <2>5, <3>3, <3>5, <3>6 DEF CopyInv
  <2> QED BY <2>7, <2>8
<1> QED BY <1>6, <1>7, <1>8 DEF AlarmInv

\* The file of the last segment grows by a batch that fits, or is synced.
LEMMA AlarmFile ==
  ASSUME StoreInv, AlarmInv, Healthy, job.kind \in {"write", "written"}, NEW L, L = Last, NEW q,
         Len(q) = segs[L] + 1, End(q, segs[L] + 1) <= Capacity,
         \A i \in 1..segs[L] : q[i].chunks = disk[L][i].chunks,
         q[segs[L] + 1].chunks = job.out, disk' = [disk EXCEPT ![L] = q],
         NEW k \in {"written", "synced"}, job' = [job EXCEPT !.kind = k],
         UNCHANGED <<mode, highest, index, marked, segs, sealed, failed>>
  PROVE  AlarmInv'
<1>1. /\ job \in JobType /\ mode = "serving" /\ DOMAIN segs # {} /\ job.victim \in Nat
  BY DEF StoreInv, TypeInv, SegmentInv, Healthy, JobType
<1>2. L \in DOMAIN segs /\ L \in DOMAIN disk /\ segs[L] \in Nat /\ segs[L] <= Len(disk[L])
      /\ Len(disk[L]) \in Nat
  <2>1. L \in DOMAIN segs /\ L \in DOMAIN disk
    BY <1>1, LastSegment DEF StoreInv
  <2> QED BY <2>1, BatchAt DEF StoreInv, TypeInv, TypeOK
<1>3. /\ job'.kind = k /\ job'.victims = job.victims
      /\ job'.live = job.live /\ job'.victim = job.victim /\ job'.out = job.out
      /\ job'.from = job.from /\ job'.copied = job.copied
  BY <1>1 DEF JobType
<1>4. /\ DOMAIN disk' = DOMAIN disk /\ disk'[L] = q
      /\ \A s \in DOMAIN disk : s # L => disk'[s] = disk[s]
  BY <1>2
<1>5. Last' = L /\ \A v : Live(v)' = Live(v)
  BY SameLast
<1>6. Cardinality(job.out) <= MaxChunks
  BY DEF AlarmInv, CopyInv, Writing
<1>7. FitInv'
  <2>1. \A i \in 1..Len(q) : Cardinality(q[i].chunks) <= MaxChunks
    <3> SUFFICES ASSUME NEW i \in 1..Len(q) PROVE Cardinality(q[i].chunks) <= MaxChunks
      OBVIOUS
    <3>1. i = segs[L] + 1 \/ (i \in 1..segs[L] /\ i \in 1..Len(disk[L]))
      BY <1>2
    <3>2. i \in 1..Len(disk[L]) => Cardinality(disk[L][i].chunks) <= MaxChunks
      BY <1>2 DEF AlarmInv, FitInv
    <3> QED BY <1>6, <3>1, <3>2
  <2>2. End(q, Len(q)) <= Capacity
    OBVIOUS
  <2> QED BY <1>4, <2>1, <2>2 DEF AlarmInv, FitInv
<1>8. CutInv'
  <2>1. \A s \in DOMAIN segs : s # L => Len(disk'[s]) = segs[s]
    <3>1. \A s \in DOMAIN segs : s \in DOMAIN disk /\ (s # L => Len(disk[s]) = segs[s])
      BY DEF AlarmInv, CutInv, StoreInv, TypeInv, TypeOK
    <3> QED BY <1>4, <3>1
  <2> QED BY <1>1, <1>3, <1>5, <2>1 DEF CutInv
<1>9. CopyInv'
  <2>1. /\ Sweeping' <=> job.victim # 0
        /\ Sweeping <=> job.victim # 0
        /\ Old' = Old /\ Writing' /\ Writing /\ Filled
    BY <1>3 DEF Sweeping, Writing, Filled, Old
  <2>2. CASE job.victim = 0
    BY <1>3, <1>6, <2>1, <2>2 DEF CopyInv
  <2>3. CASE job.victim # 0
    <3>1. /\ job.victims \subseteq DOMAIN segs
          /\ \A h \in job.out : h \in marked /\ index[h] = Old
          /\ job.from >= 1 /\ job.copied + Live(job.victim) = job.live[job.victim]
          /\ job.victim < highest /\ L \notin sealed
          /\ End(disk[L], segs[L]) <= End(disk[job.victim], job.from - 1)
      BY <2>1, <2>3 DEF AlarmInv, CopyInv
    <3>2. job.victim # L /\ job.victim \in DOMAIN disk
      BY <2>3 DEF StoreInv, SweepInv, TypeInv, TypeOK
    <3>3. disk'[job.victim] = disk[job.victim]
      BY <1>4, <3>2
    <3>4. job.from \in Nat /\ job.from - 1 \in Nat
      BY <1>1, <3>1 DEF JobType
    <3>5. End(q, segs[L]) <= End(disk[L], segs[L])
      BY <1>2, EndMonotone
    <3>6. End(q, segs[L]) <= End(disk[job.victim], job.from - 1)
      <4>1. End(q, segs[L]) \in Nat /\ End(disk[L], segs[L]) \in Nat
            /\ End(disk[job.victim], job.from - 1) \in Nat
        BY <1>2, <3>4, EndType
      <4> QED BY <3>1, <3>5, <4>1
    <3>7. End(disk'[L], segs'[L]) <= End(disk'[job'.victim], job'.from - 1)
      BY <1>3, <1>4, <3>3, <3>6
    <3>8. /\ job'.victims \subseteq DOMAIN segs'
          /\ \A h \in job'.out : h \in marked' /\ index'[h] = Old'
          /\ job'.from >= 1 /\ job'.copied + Live(job.victim)' = job'.live[job'.victim]
          /\ job'.victim < highest' /\ L \notin sealed'
      BY <1>3, <1>5, <2>1, <3>1
    <3> QED BY <1>3, <1>5, <1>6, <3>7, <3>8 DEF CopyInv
  <2> QED BY <2>2, <2>3
<1> QED BY <1>7, <1>8, <1>9 DEF AlarmInv

\* The batch fits the segment it is written to.
LEMMA WriteBatchAlarm ==
  ASSUME StoreInv, AlarmInv, WriteBatch PROVE AlarmInv'
<1> USE DEF WriteBatch
<1> DEFINE L == Last
           n == segs[L]
           p == SubSeq(disk[L], 1, n)
           b == Batch(job.out)
           q == Append(p, b)
<1>1. /\ Healthy /\ job.kind = "write" /\ L \in DOMAIN segs /\ L \in DOMAIN disk
      /\ job.out \in SUBSET Hashes
  BY LastSegment DEF StoreInv, SegmentInv, TypeInv, Healthy, JobType
<1>2. disk[L] \in Seq(BatchType) /\ n \in 0..Len(disk[L])
  BY <1>1 DEF StoreInv, TypeInv, TypeOK
<1>3. b \in BatchType /\ b.chunks = job.out
  BY <1>1 DEF Batch, BatchType
<1>4. Len(disk[L]) \in Nat /\ n \in Nat
  BY <1>2, LenProperties
<1>5. p \in Seq(BatchType) /\ Len(p) = n /\ \A i \in 1..n : p[i] = disk[L][i]
  <2> HIDE DEF L, n
  <2>1. \A i \in 1..n : i \in 1..Len(disk[L])
    BY <1>2, <1>4
  <2> QED BY <1>2, <1>4, <2>1, SubSeqProperties
<1>6. /\ Len(q) = n + 1 /\ q[n + 1] = b /\ \A i \in 1..n : q[i] = p[i]
  <2> HIDE DEF L, n, p, b
  <2> QED BY <1>3, <1>4, <1>5, AppendProperties
<1>7. disk' = [disk EXCEPT ![L] = q] /\ job' = [job EXCEPT !.kind = "written"]
  BY <1>1
<1>8. UNCHANGED <<mode, highest, index, marked, segs, sealed, failed>>
  OBVIOUS
<1>9. L = Last /\ n = segs[L]
  OBVIOUS
<1>10. Cardinality(job.out) + 1 <= Capacity - End(disk[L], n)
  BY DEF OutputFits
<1> HIDE DEF L, n, p, q, b, WriteBatch
<1>11. End(q, n + 1) <= Capacity
  <2>1. End(q, n + 1) = End(q, n) + 1 + Cardinality(q[n + 1].chunks)
    BY <1>1, <1>3, <1>4, <1>6, EndStep
  <2>2. End(q, n) <= End(disk[L], n)
    BY <1>4, <1>5, <1>6, EndMonotone
  <2>3. Cardinality(job.out) \in Nat
    BY <1>1, StoreAssumption, FS_Subset, FS_CardinalityType
  <2>4. End(q, n) \in Nat /\ End(disk[L], n) \in Nat
    BY <1>4, EndType
  <2>5. q[n + 1].chunks = job.out
    BY <1>3, <1>6
  <2> QED BY <1>10, <2>1, <2>2, <2>3, <2>4, <2>5, StoreAssumption
<1>12. \A i \in 1..segs[L] : q[i].chunks = disk[L][i].chunks
  BY <1>5, <1>6, <1>9
<1> QED BY <1>1, <1>3, <1>6, <1>7, <1>8, <1>9, <1>11, <1>12, AlarmFile

\* The written batch is durable.
LEMMA SyncBatchAlarm ==
  ASSUME StoreInv, AlarmInv, SyncBatch PROVE AlarmInv'
<1> USE DEF SyncBatch
<1> DEFINE L == Last
           q == SyncData(disk[L])
<1>1. /\ Healthy /\ job.kind = "written" /\ L \in DOMAIN segs /\ L \in DOMAIN disk
      /\ Len(disk[L]) = segs[L] + 1 /\ disk[L][segs[L] + 1].chunks = job.out
  BY LastSegment DEF StoreInv, SegmentInv, Healthy
<1>2. disk[L] \in Seq(BatchType) /\ segs[L] \in Nat /\ segs[L] + 1 \in Nat
  BY <1>1 DEF StoreInv, TypeInv, TypeOK
<1>3. /\ Len(q) = Len(disk[L])
      /\ \A i \in 1..Len(disk[L]) : q[i].chunks = disk[L][i].chunks
  BY <1>2, SyncDataIs
<1>4. disk' = [disk EXCEPT ![L] = q] /\ job' = [job EXCEPT !.kind = "synced"] /\ L = Last
  BY <1>1
<1>5. UNCHANGED <<mode, highest, index, marked, segs, sealed, failed>>
  OBVIOUS
<1> HIDE DEF L, q, SyncBatch
<1>6. /\ \A i \in 1..segs[L] : q[i].chunks = disk[L][i].chunks
      /\ q[segs[L] + 1].chunks = job.out /\ Len(q) = segs[L] + 1
  <2>1. segs[L] + 1 \in 1..Len(disk[L]) /\ \A i \in 1..segs[L] : i \in 1..Len(disk[L])
    BY <1>1, <1>2
  <2> QED BY <1>1, <1>3, <2>1
<1>7. End(q, segs[L] + 1) <= Capacity
  <2>1. End(q, segs[L] + 1) <= End(disk[L], segs[L] + 1)
    BY <1>1, <1>2, <1>3, EndMonotone
  <2>2. End(disk[L], segs[L] + 1) <= Capacity
    BY <1>1 DEF AlarmInv, FitInv
  <2>3. End(q, segs[L] + 1) \in Nat /\ End(disk[L], segs[L] + 1) \in Nat
    BY <1>2, EndType
  <2> QED BY <2>1, <2>2, <2>3, StoreAssumption
<1> QED BY <1>1, <1>4, <1>5, <1>6, <1>7, AlarmFile

\* What is published is counted as copied and no longer as live in the victim.
LEMMA PublishBatchAlarm ==
  ASSUME StoreInv, AlarmInv, PublishBatch PROVE AlarmInv'
<1> DEFINE L == Last
           n == segs[L]
           v == job.victim
           f == job.from
<1>1. /\ job \in JobType /\ Healthy /\ mode = "serving" /\ job.kind = "synced"
      /\ job.out \in SUBSET Hashes /\ v \in Nat /\ f \in Nat /\ job.copied \in Nat
  BY DEF PublishBatch, StoreInv, TypeInv, Healthy, JobType
<1>2. /\ L \in DOMAIN segs /\ L \in DOMAIN disk /\ Len(disk[L]) = n + 1
      /\ disk[L][n + 1].chunks = job.out
  BY <1>1, LastSegment DEF StoreInv, SegmentInv
<1>3. n \in Nat
  BY <1>2 DEF StoreInv, TypeInv, TypeOK
<1>4. UNCHANGED <<disk, mode, failed, highest, marked, sealed>>
  BY DEF PublishBatch
<1>5. /\ DOMAIN segs' = DOMAIN segs /\ segs'[L] = n + 1
      /\ \A s \in DOMAIN segs : s # L => segs'[s] = segs[s]
  BY <1>2 DEF PublishBatch
<1>6. Last' = L
  BY <1>5 DEF Last
<1>7. IsFiniteSet(job.out) /\ Cardinality(job.out) \in Nat
  BY <1>1, StoreAssumption, FS_Subset, FS_CardinalityType
<1>8. /\ job'.kind = (IF v = 0 THEN "insert" ELSE "copy") /\ job'.victim = v
      /\ job'.victims = job.victims /\ job'.live = job.live
      /\ v # 0 => job'.from = f + 1 /\ job'.copied = job.copied + Cardinality(job.out)
  BY <1>1 DEF PublishBatch, JobType
<1>9. FitInv'
  BY <1>4 DEF AlarmInv, FitInv
<1>10. CutInv'
  <2>1. \A s \in DOMAIN segs : s # L => Len(disk[s]) = segs[s]
    BY <1>1 DEF AlarmInv, CutInv
  <2>2. \A s \in DOMAIN segs' : Len(disk'[s]) = segs'[s]
    BY <1>2, <1>4, <1>5, <2>1
  <2>3. mode' # "repair"
    BY <1>1, <1>4
  <2> QED BY <2>2, <2>3 DEF CutInv
<1>11. CASE v = 0
  <2>1. ~Sweeping' /\ ~Writing' /\ job'.kind = "insert" /\ job'.victim = 0
    BY <1>8, <1>11 DEF Sweeping, Writing
  <2>2. CopyInv'
    BY <2>1 DEF CopyInv
  <2> QED BY <1>9, <1>10, <2>2 DEF AlarmInv
<1>12. CASE v # 0
  <2>1. /\ v \in job.victims /\ v \in DOMAIN segs /\ v \in DOMAIN disk /\ L \notin job.victims /\ L # v
    BY <1>1, <1>12 DEF StoreInv, SweepInv, TypeInv, TypeOK
  <2>2. /\ job.victims \subseteq DOMAIN segs
        /\ \A h \in job.out : h \in marked /\ index[h] = Old
        /\ f >= 1 /\ job.copied + Live(v) = job.live[v]
        /\ v < highest /\ L \notin sealed
        /\ End(disk[L], n) <= End(disk[v], f - 1)
    BY <1>1, <1>12 DEF AlarmInv, CopyInv, Sweeping, Writing, Filled
  <2> DEFINE S == {h \in marked : index[h].seg = v}
             T == {h \in marked : index'[h].seg = v}
  <2>3. job.out \subseteq S
    BY <2>2 DEF Old
  <2>4. T = S \ job.out
    <3>1. \A h \in marked : h \in Hashes
      BY DEF StoreInv, TypeInv, TypeOK
    <3>2. \A h \in job.out : index'[h] = [seg |-> L, batch |-> n + 1]
      BY <1>1, <2>2 DEF PublishBatch
    <3>3. \A h \in Hashes : h \notin job.out => index'[h] = index[h]
      BY DEF PublishBatch
    <3>4. \A h \in job.out : index'[h].seg # v
      BY <2>1, <3>2
    <3> HIDE DEF L, n, v
    <3> QED BY <3>1, <3>3, <3>4
  <2>5. IsFiniteSet(S) /\ Live(v) = Cardinality(S) /\ Live(v) \in Nat
    BY LiveType DEF Live, StoreInv
  <2>6. Live(v)' = Cardinality(T)
    BY <1>4, <1>8 DEF Live
  <2> HIDE DEF S, T
  <2>7. Cardinality(T) = Cardinality(S) - Cardinality(job.out)
    <3>1. S \cap job.out = job.out
      BY <2>3
    <3>2. Cardinality(S \ job.out) = Cardinality(S) - Cardinality(S \cap job.out)
      BY <2>5, FS_Difference
    <3> QED BY <2>4, <3>1, <3>2
  <2>8. job.copied + Cardinality(job.out) + Live(v)' = job.live[v]
    BY <1>1, <1>7, <2>2, <2>5, <2>6, <2>7
  <2>9. End(disk[L], n + 1) <= End(disk[v], f)
    <3>1. End(disk[L], n + 1) = End(disk[L], n) + 1 + Cardinality(job.out)
      BY <1>1, <1>2, <1>3, EndStep
    <3>2. job.out \subseteq disk[v][f].chunks
      <4> SUFFICES ASSUME NEW h \in job.out PROVE h \in disk[v][f].chunks
        OBVIOUS
      <4>1. h \in marked /\ h \in Hashes /\ index[h] = Old
        BY <1>1, <2>2
      <4>2. Holds(Old, h)
        BY <1>1, <1>12, <4>1 DEF StoreInv, IndexInv, Sweeping
      <4> QED BY <4>2 DEF Holds, Old
    <3>3. f - 1 \in Nat /\ (f - 1) + 1 = f
      BY <1>1, <2>2
    <3>4. End(disk[v], f - 1) + 1 + Cardinality(job.out) <= End(disk[v], (f - 1) + 1)
      BY <1>1, <3>2, <3>3, EndGrow
    <3>5. End(disk[L], n) \in Nat /\ End(disk[v], f - 1) \in Nat /\ End(disk[v], f) \in Nat
      BY <1>1, <1>3, <3>3, EndType
    <3> HIDE DEF n, L, v, f
    <3> QED BY <1>7, <2>2, <3>1, <3>3, <3>4, <3>5
  <2>10. CopyInv'
    <3>1. job'.kind = "copy" /\ ~Writing' /\ job'.victim = v /\ job'.from = f + 1
          /\ job'.copied = job.copied + Cardinality(job.out)
      BY <1>8, <1>12 DEF Writing
    <3>2. (f + 1) - 1 = f /\ f + 1 >= 1
      BY <1>1
    <3>3. End(disk'[L], segs'[L]) <= End(disk'[v], job'.from - 1)
      BY <1>4, <1>5, <2>9, <3>1, <3>2
    <3>4. /\ job'.victims \subseteq DOMAIN segs' /\ job'.from >= 1
          /\ job'.copied + Live(job.victim)' = job'.live[job'.victim]
          /\ job'.victim < highest' /\ L \notin sealed'
      BY <1>4, <1>5, <1>8, <2>2, <2>8, <3>1, <3>2
    <3> HIDE DEF n, L, f
    <3> QED BY <1>6, <3>1, <3>3, <3>4 DEF CopyInv
  <2> QED BY <1>9, <1>10, <2>10 DEF AlarmInv
<1> QED BY <1>11, <1>12

\* A victim starts with everything live still to be copied.
LEMMA StartVictimAlarm ==
  ASSUME StoreInv, AlarmInv, NEW v \in job.victims, StartVictim(v) PROVE AlarmInv'
<1> USE DEF StartVictim
<1>1. /\ job \in JobType /\ Healthy /\ job.kind = "sweep" /\ v \in Nat /\ Sweeping /\ job.victim = 0
      /\ v # 0 /\ job.victims \subseteq DOMAIN segs /\ job.live[v] = Live(v) /\ Live(v) \in Nat
  <2>1. job \in JobType /\ Healthy /\ job.kind = "sweep" /\ Sweeping /\ job.victim = 0
    BY DEF StoreInv, TypeInv, Sweeping, SweepInv
  <2>2. v \in Nat /\ v # 0
    BY <2>1 DEF JobType, StoreInv, SweepInv
  <2>3. job.victims \subseteq DOMAIN segs /\ job.live[v] = Live(v)
    BY <2>1, <2>2 DEF StoreInv, SweepInv, AlarmInv, CopyInv
  <2>4. Live(v) \in Nat
    BY LiveType DEF StoreInv
  <2> QED BY <2>1, <2>2, <2>3, <2>4
<1>2. UNCHANGED <<disk, segs, sealed, index, marked, highest, mode, failed>>
  OBVIOUS
<1>3. CASE KeepVictim(v)
  <2>1. /\ job'.kind = "sweep" /\ job'.victims = job.victims \ {v} /\ job'.victim = 0
    BY <1>1, <1>3 DEF JobType
  <2> HIDE DEF StartVictim
  <2> QED BY <1>1, <1>2, <2>1, AlarmIdle
<1>4. CASE ~KeepVictim(v)
  <2>1. /\ job'.victims = job.victims /\ job'.kind \in {"remove", "copy"}
        /\ job'.live = job.live /\ job'.victim = v /\ job'.from = 1 /\ job'.copied = 0
    BY <1>1, <1>4 DEF JobType
  <2>2. \A u : Live(u)' = Live(u)
    BY SameLast
  <2>3. ~Filled' /\ ~Writing'
    BY <2>1 DEF Filled, Writing
  <2>4. job'.copied + Live(v)' = job'.live[v]
    BY <1>1, <2>1, <2>2
  <2> HIDE DEF StartVictim
  <2>5. CopyInv'
    BY <1>1, <1>2, <2>1, <2>3, <2>4 DEF CopyInv
  <2> QED BY <1>1, <1>2, <2>5, AlarmJob
<1> QED BY <1>3, <1>4

\* What is copied of a batch fits behind what was copied before.
LEMMA CopyBatchAlarm ==
  ASSUME StoreInv, AlarmInv, CopyBatch PROVE AlarmInv'
<1> USE DEF CopyBatch
<1> DEFINE v == job.victim
           f == job.from
           L == Last
<1>1. /\ job \in JobType /\ Healthy /\ job.kind = "copy" /\ v # 0 /\ v \in DOMAIN segs
      /\ v \in DOMAIN disk /\ Sweeping
  BY DEF StoreInv, TypeInv, TypeOK, SweepInv, Sweeping
<1>2. /\ job.victims \subseteq DOMAIN segs
      /\ f >= 1 /\ job.copied + Live(v) = job.live[v]
      /\ Filled => v < highest /\ L \notin sealed
                   /\ End(disk[L], segs[L]) <= End(disk[v], f - 1)
  BY <1>1 DEF AlarmInv, CopyInv
<1>3. f \in Nat /\ f - 1 \in Nat /\ (f - 1) + 1 = f /\ f <= segs[v] /\ segs[v] \in Nat
      /\ segs[v] <= Len(disk[v]) /\ Len(disk[v]) \in Nat
  <2>1. f \in Nat /\ segs[v] \in 0..Len(disk[v]) /\ Len(disk[v]) \in Nat
    BY <1>1, BatchAt DEF JobType, StoreInv, TypeInv, TypeOK
  <2> QED BY <1>2, <2>1
<1>4. UNCHANGED <<disk, segs, sealed, index, marked, highest, mode, failed>>
  OBVIOUS
<1>5. Last' = L /\ \A u : Live(u)' = Live(u)
  BY SameLast
<1>6. Filled <=> job.copied # 0
  BY <1>1 DEF Filled
<1>7. CASE LiveHere = {}
  <2>1. /\ job'.kind = "copy" /\ job'.victims = job.victims
        /\ job'.live = job.live /\ job'.victim = v
        /\ job'.from = f + 1 /\ job'.copied = job.copied
    BY <1>1, <1>7 DEF JobType
  <2>2. ~Writing' /\ (Filled' <=> job.copied # 0)
    BY <2>1 DEF Writing, Filled
  <2> HIDE DEF CopyBatch, L
  <2>3. ASSUME Filled PROVE End(disk[L], segs[L]) <= End(disk[v], f)
    <3>1. f - 1 <= f
      BY <1>3
    <3>2. End(disk[v], f - 1) <= End(disk[v], f)
      BY <1>3, <3>1, EndMonotone
    <3>3. L \in DOMAIN segs
      BY <1>1, LastSegment DEF StoreInv, L, Healthy
    <3>4. segs[L] \in Nat
      BY <3>3 DEF StoreInv, TypeInv, TypeOK
    <3>5. End(disk[L], segs[L]) \in Nat /\ End(disk[v], f - 1) \in Nat /\ End(disk[v], f) \in Nat
      BY <1>3, <3>4, EndType
    <3> QED BY <1>2, <2>3, <3>2, <3>5
  <2>4. (f + 1) - 1 = f /\ f + 1 >= 1
    BY <1>3
  <2>5. /\ job'.victims \subseteq DOMAIN segs' /\ job'.from >= 1
        /\ job'.copied + Live(job.victim)' = job'.live[job'.victim]
        /\ Filled' => /\ job'.victim < highest' /\ L \notin sealed'
                      /\ End(disk'[L], segs'[L]) <= End(disk'[job'.victim], job'.from - 1)
    BY <1>2, <1>4, <1>5, <1>6, <2>1, <2>2, <2>3, <2>4
  <2>6. CopyInv'
    BY <1>5, <2>1, <2>2, <2>5 DEF CopyInv
  <2> QED BY <1>1, <1>4, <2>6, AlarmJob
<1>8. CASE LiveHere # {}
  <2>1. /\ job'.kind = (IF job.copied = 0 THEN "create" ELSE "write")
        /\ job'.victims = job.victims /\ job'.live = job.live /\ job'.victim = v
        /\ job'.out = LiveHere /\ job'.from = f /\ job'.copied = job.copied
    BY <1>1, <1>8 DEF JobType
  <2>2. Writing' /\ (Filled' <=> job.copied # 0) /\ Old' = Old
    BY <2>1 DEF Writing, Filled, Old
  <2>3. /\ LiveHere \subseteq disk[v][f].chunks /\ disk[v][f].chunks \in SUBSET Hashes
        /\ Cardinality(disk[v][f].chunks) <= MaxChunks
        /\ \A h \in LiveHere : h \in marked /\ index[h] = Old
    <3>1. f \in 1..Len(disk[v])
      BY <1>2, <1>3
    <3>2. disk[v][f] \in BatchType
      BY <1>1, <3>1, BatchAt DEF StoreInv
    <3>3. Cardinality(disk[v][f].chunks) <= MaxChunks
      BY <1>1, <3>1 DEF AlarmInv, FitInv
    <3> QED BY <3>2, <3>3 DEF LiveHere, BatchType
  <2>4. Cardinality(LiveHere) \in Nat /\ Cardinality(LiveHere) <= MaxChunks
    <3>1. IsFiniteSet(disk[v][f].chunks)
      BY <2>3, StoreAssumption, FS_Subset
    <3>2. IsFiniteSet(LiveHere) /\ Cardinality(LiveHere) <= Cardinality(disk[v][f].chunks)
      BY <2>3, <3>1, FS_Subset
    <3>3. Cardinality(LiveHere) \in Nat /\ Cardinality(disk[v][f].chunks) \in Nat
      BY <3>1, <3>2, FS_CardinalityType
    <3> QED BY <2>3, <3>2, <3>3, StoreAssumption
  <2> HIDE DEF CopyBatch, L
  <2>5. ASSUME job.copied # 0 PROVE OutputFits'
    <3>1. L \in DOMAIN segs
      BY <1>1, LastSegment DEF StoreInv, L, Healthy
    <3>2. segs[L] \in Nat
      BY <3>1 DEF StoreInv, TypeInv, TypeOK
    <3>3. End(disk[v], f - 1) + 1 + Cardinality(LiveHere) <= End(disk[v], (f - 1) + 1)
      <4>1. LiveHere \in SUBSET Hashes
        BY <2>3
      <4>2. LiveHere \subseteq disk[v][(f - 1) + 1].chunks
        BY <1>3, <2>3
      <4> HIDE DEF v, f
      <4> QED BY <1>3, <4>1, <4>2, EndGrow
    <3>4. End(disk[v], f) <= End(disk[v], Len(disk[v]))
      <4>1. f <= Len(disk[v])
        BY <1>3
      <4> QED BY <1>3, <4>1, EndMonotone
    <3>5. End(disk[v], Len(disk[v])) <= Capacity
      BY <1>1 DEF AlarmInv, FitInv
    <3>6. /\ End(disk[L], segs[L]) \in Nat /\ End(disk[v], f - 1) \in Nat
          /\ End(disk[v], f) \in Nat /\ End(disk[v], Len(disk[v])) \in Nat
      BY <1>3, <3>2, EndType
    <3>7. End(disk[L], segs[L]) <= End(disk[v], f - 1)
      BY <1>2, <1>6, <2>5
    <3>8. Cardinality(LiveHere) + 1 <= Capacity - End(disk[L], segs[L])
      <4>1. End(disk[v], f - 1) + 1 + Cardinality(LiveHere) <= End(disk[v], f)
        BY <1>3, <3>3
      <4> HIDE DEF v, f
      <4> QED BY <2>4, <3>4, <3>5, <3>6, <3>7, <4>1, StoreAssumption
    <3> QED BY <1>4, <1>5, <2>1, <3>8 DEF OutputFits
  <2>6. /\ job'.victims \subseteq DOMAIN segs' /\ job'.from >= 1
        /\ job'.copied + Live(job.victim)' = job'.live[job'.victim]
        /\ Filled' => /\ job'.victim < highest' /\ L \notin sealed'
                      /\ End(disk'[L], segs'[L]) <= End(disk'[job'.victim], job'.from - 1)
        /\ \A h \in job'.out : h \in marked' /\ index'[h] = Old'
        /\ Cardinality(job'.out) <= MaxChunks
    BY <1>2, <1>4, <1>5, <1>6, <2>1, <2>2, <2>3, <2>4
  <2>7. job'.kind = "write" => job.copied # 0
    BY <2>1
  <2>8. CopyInv'
    BY <1>5, <2>1, <2>2, <2>5, <2>6, <2>7 DEF CopyInv
  <2> QED BY <1>1, <1>4, <2>8, AlarmJob
<1> QED BY <1>7, <1>8

\* The steps between two victims.
LEMMA CopiedAllAlarm ==
  ASSUME StoreInv, AlarmInv, CopiedAll \/ UnlinkVictim PROVE AlarmInv'
<1>1. /\ job \in JobType /\ Healthy /\ job.kind \in {"copy", "remove"} /\ Sweeping
      /\ job.victim # 0
  BY DEF StoreInv, TypeInv, SweepInv, Sweeping, CopiedAll, UnlinkVictim
<1>2. /\ job'.kind \in {"remove", "unlinked"} /\ job'.victims = job.victims
      /\ job'.live = job.live /\ job'.victim = job.victim
      /\ job'.from = job.from /\ job'.copied = job.copied
  BY <1>1 DEF JobType, CopiedAll, UnlinkVictim
<1>3. UNCHANGED <<disk, segs, sealed, index, marked, highest, mode, failed>>
  BY DEF CopiedAll, UnlinkVictim
<1>4. \A u : Live(u)' = Live(u)
  BY <1>3, SameLast
<1>5. ~Writing' /\ (Filled' => Filled)
  BY <1>2 DEF Writing, Filled
<1>6. /\ job.victims \subseteq DOMAIN segs /\ job.from >= 1
      /\ job.copied + Live(job.victim) = job.live[job.victim]
      /\ Filled => job.victim < highest
  BY <1>1 DEF AlarmInv, CopyInv
<1>7. CopyInv'
  BY <1>2, <1>3, <1>4, <1>5, <1>6 DEF CopyInv
<1> QED BY <1>1, <1>3, <1>7, AlarmJob

\* The victim is cut to its header, or forgotten.
LEMMA NextVictimAlarm ==
  ASSUME StoreInv, AlarmInv, TrimGreatest \/ ForgetVictim PROVE AlarmInv'
<1> DEFINE v == job.victim
<1>1. /\ Healthy /\ mode = "serving" /\ job.kind \in {"remove", "unlinked"} /\ job' = NextVictim
      /\ UNCHANGED <<mode, failed>>
  BY DEF TrimGreatest, ForgetVictim, Healthy
<1>2. /\ v \in DOMAIN segs /\ Sweeping /\ job'.kind = "sweep" /\ job'.victim = 0
      /\ job'.victims = job.victims \ {v}
  BY <1>1, NextVictimIs
<1>3. \A s \in DOMAIN segs : s \in DOMAIN disk /\ Len(disk[s]) = segs[s]
  BY <1>1 DEF AlarmInv, CutInv, StoreInv, TypeInv, TypeOK
<1>4. Len(<<>>) = 0 /\ End(<<>>, 0) = 1 /\ 1 <= Capacity
  BY EmptyEnd, StoreAssumption
<1>5. FitInv' /\ (\A s \in DOMAIN segs' : Len(disk'[s]) = segs'[s])
      /\ DOMAIN segs \ {v} \subseteq DOMAIN segs'
  <2>1. CASE TrimGreatest
    <3>1. /\ DOMAIN disk' = DOMAIN disk /\ disk'[v] = <<>>
          /\ \A s \in DOMAIN disk : s # v => disk'[s] = disk[s]
          /\ DOMAIN segs' = DOMAIN segs /\ segs'[v] = 0
          /\ \A s \in DOMAIN segs : s # v => segs'[s] = segs[s]
      BY <1>2, <1>3, <2>1 DEF TrimGreatest
    <3>2. \A i \in 1..Len(disk'[v]) : FALSE
      BY <1>4, <3>1
    <3>3. FitInv'
      BY <1>4, <3>1, <3>2 DEF AlarmInv, FitInv
    <3>4. \A s \in DOMAIN segs' : Len(disk'[s]) = segs'[s]
      BY <1>3, <1>4, <3>1
    <3> QED BY <3>1, <3>3, <3>4
  <2>2. CASE ForgetVictim
    <3>1. /\ DOMAIN disk' = Visible /\ Visible \subseteq DOMAIN disk
          /\ \A s \in Visible : disk'[s] = disk[s]
          /\ DOMAIN segs' = DOMAIN segs \ {v} /\ \A s \in DOMAIN segs' : segs'[s] = segs[s]
      BY <2>2 DEF ForgetVictim, Settled, Visible
    <3>2. DOMAIN segs' \subseteq Visible
      BY <1>3, <2>2, <3>1 DEF ForgetVictim, StoreInv, SegmentInv, Visible
    <3>3. FitInv'
      BY <3>1 DEF AlarmInv, FitInv
    <3> QED BY <1>3, <3>1, <3>2, <3>3
  <2> QED BY <2>1, <2>2
<1>6. CutInv'
  BY <1>1, <1>5 DEF CutInv
<1>7. job.victims \subseteq DOMAIN segs
  BY <1>1, <1>2 DEF AlarmInv, CopyInv
<1>8. CopyInv'
  BY <1>2, <1>5, <1>7 DEF CopyInv, Writing
<1> QED BY <1>5, <1>6, <1>8 DEF AlarmInv

\* Files after a crash are no longer than before.
LEMMA CrashAlarm ==
  ASSUME StoreInv, AlarmInv, NEW power \in BOOLEAN, NEW lost \in SUBSET Unsynced,
         NEW back \in SUBSET unlinked, NEW gone \in SUBSET stub,
         Crash(power, lost, back, gone)
  PROVE  AlarmInv'
<1>1. \A s \in DOMAIN disk' :
        /\ s \in DOMAIN disk /\ Len(disk'[s]) = Len(disk[s])
        /\ \A i \in 1..Len(disk[s]) : disk'[s][i].chunks = disk[s][i].chunks
  BY CrashFiles
<1>2. FitInv'
  <2> SUFFICES ASSUME NEW s \in DOMAIN disk'
               PROVE  /\ End(disk'[s], Len(disk'[s])) <= Capacity
                      /\ \A i \in 1..Len(disk'[s]) : Cardinality(disk'[s][i].chunks) <= MaxChunks
    BY DEF FitInv
  <2>1. Len(disk[s]) \in Nat /\ Len(disk[s]) <= Len(disk[s])
    BY <1>1, BatchAt DEF StoreInv
  <2>2. End(disk'[s], Len(disk[s])) <= End(disk[s], Len(disk[s]))
    BY <1>1, <2>1, EndMonotone
  <2>3. End(disk[s], Len(disk[s])) <= Capacity
    BY <1>1 DEF AlarmInv, FitInv
  <2>4. End(disk'[s], Len(disk[s])) \in Nat /\ End(disk[s], Len(disk[s])) \in Nat
    BY <2>1, EndType
  <2>5. End(disk'[s], Len(disk[s])) <= Capacity
    BY <2>2, <2>3, <2>4, StoreAssumption
  <2>6. \A i \in 1..Len(disk[s]) : Cardinality(disk[s][i].chunks) <= MaxChunks
    BY <1>1 DEF AlarmInv, FitInv
  <2> QED BY <1>1, <2>5, <2>6
<1>3. mode' = "down"
  BY DEF Crash
<1> QED BY <1>2, <1>3 DEF AlarmInv, CutInv, CopyInv, Healthy

\* Recovery cuts a file to what was accepted of it.
LEMMA RepairSegmentAlarm ==
  ASSUME StoreInv, AlarmInv, NEW s \in job.victims, RepairSegment(s) PROVE AlarmInv'
<1> USE DEF RepairSegment
<1> DEFINE n == segs[s]
           p == SubSeq(disk[s], 1, n)
           q == SyncData(p)
<1>1. UNCHANGED <<mode, segs>> /\ mode = "repair"
  OBVIOUS
<1>2. s \in DOMAIN segs /\ s \in DOMAIN disk /\ job \in JobType
  BY <1>1 DEF StoreInv, RepairInv, TypeInv, TypeOK
<1>3. disk[s] \in Seq(BatchType) /\ n \in Nat /\ Len(disk[s]) \in Nat /\ n <= Len(disk[s])
  BY <1>2, BatchAt DEF StoreInv, TypeInv, TypeOK
<1>4. \A i \in 1..n : i \in 1..Len(disk[s])
  BY <1>3
<1>5. p \in Seq(BatchType) /\ Len(p) = n /\ \A i \in 1..n : p[i] = disk[s][i]
  <2> HIDE DEF n
  <2> QED BY <1>3, <1>4, SubSeqProperties
<1>6. Len(q) = n /\ \A i \in 1..n : q[i].chunks = disk[s][i].chunks
  <2> HIDE DEF n, p
  <2> QED BY <1>5, SyncDataIs
<1>7. /\ DOMAIN disk' = DOMAIN disk /\ disk'[s] = q
      /\ \A x \in DOMAIN disk : x # s => disk'[x] = disk[x]
  BY <1>2 DEF CutTail
<1>8. job'.victims = job.victims \ {s}
  BY <1>2 DEF JobType
<1> HIDE DEF q, p, RepairSegment
<1>9. FitInv'
  <2>1. End(q, n) <= End(disk[s], Len(disk[s])) /\ End(disk[s], Len(disk[s])) <= Capacity
    BY <1>2, <1>3, <1>6, EndMonotone DEF AlarmInv, FitInv
  <2>2. End(q, n) \in Nat /\ End(disk[s], Len(disk[s])) \in Nat
    BY <1>3, EndType
  <2>3. End(q, Len(q)) <= Capacity
    BY <1>6, <2>1, <2>2, StoreAssumption
  <2>4. \A i \in 1..Len(q) : Cardinality(q[i].chunks) <= MaxChunks
    BY <1>2, <1>4, <1>6 DEF AlarmInv, FitInv
  <2> QED BY <1>7, <2>3, <2>4 DEF AlarmInv, FitInv
<1>10. \A x \in DOMAIN segs \ job'.victims : Len(disk'[x]) = segs[x]
  <2>1. \A x \in DOMAIN segs \ job.victims : x \in DOMAIN disk /\ Len(disk[x]) = segs[x]
    BY <1>1 DEF AlarmInv, CutInv, StoreInv, TypeInv, TypeOK
  <2> QED BY <1>6, <1>7, <1>8, <2>1
<1> QED BY <1>1, <1>9, <1>10 DEF AlarmInv, CutInv, CopyInv, Healthy

\* The other steps of recovery.
LEMMA RecoveryAlarm ==
  ASSUME StoreInv, AlarmInv, Inspect \/ FinishRecovery \/ \E t \in stub : RejectFile(t)
  PROVE  AlarmInv'
<1>1. CASE Inspect
  <2>1. disk' = disk /\ mode' = "repair" /\ DOMAIN segs' = Visible /\ job'.victims = Visible
    BY <1>1 DEF Inspect, Idle
  <2> QED BY <2>1 DEF AlarmInv, FitInv, CutInv, CopyInv, Healthy
<1>2. CASE FinishRecovery
  <2>1. UNCHANGED <<disk, segs, job>> /\ mode = "repair" /\ mode' = "serving" /\ job.victims = {}
        /\ job.kind = "idle" /\ job.victim = 0
    BY <1>2 DEF FinishRecovery, StoreInv, TypeInv
  <2>2. FitInv' /\ CutInv'
    BY <2>1 DEF AlarmInv, FitInv, CutInv
  <2>3. CopyInv'
    BY <2>1 DEF CopyInv, Sweeping, Writing
  <2> QED BY <2>2, <2>3 DEF AlarmInv
<1>3. CASE \E t \in stub : RejectFile(t)
  <2>1. /\ DOMAIN disk' = Visible /\ Visible \subseteq DOMAIN disk
        /\ \A x \in Visible : disk'[x] = disk[x]
        /\ UNCHANGED <<segs, job, mode>> /\ mode = "repair"
    BY <1>3 DEF RejectFile, Settled, Visible
  <2>2. DOMAIN segs \subseteq Visible
    BY <2>1 DEF StoreInv, RepairInv
  <2>3. FitInv' /\ CutInv'
    BY <2>1, <2>2 DEF AlarmInv, FitInv, CutInv, Healthy
  <2> QED BY <2>1, <2>3 DEF AlarmInv, CopyInv, Healthy
<1> QED BY <1>1, <1>2, <1>3

\* Steps after which the worker holds no batch and no victim.
LEMMA QuietAlarm ==
  ASSUME StoreInv, AlarmInv,
         \/ \E o \in Roots : \E new \in SUBSET Hashes : \E chunks \in SUBSET new :
              BeginOutput(o, new, chunks)
         \/ Commit \/ BeginCollection \/ FinishMarking \/ FinishCollection
         \/ \E h \in Hashes : Mark(h)
  PROVE  AlarmInv'
<1>1. CASE \E o \in Roots : \E new \in SUBSET Hashes : \E chunks \in SUBSET new :
             BeginOutput(o, new, chunks)
  <2>0. PICK o \in Roots : \E new \in SUBSET Hashes : \E chunks \in SUBSET new :
               BeginOutput(o, new, chunks)
    BY <1>1
  <2>1. /\ Healthy /\ job.kind = "idle" /\ UNCHANGED <<disk, segs, mode, failed>>
        /\ job'.kind = "insert" /\ job'.victim = 0
    <3>1. PICK new \in SUBSET Hashes : \E chunks \in SUBSET new : BeginOutput(o, new, chunks)
      BY <2>0
    <3>2. PICK chunks \in SUBSET new : BeginOutput(o, new, chunks)
      BY <3>1
    <3> QED BY <3>2 DEF BeginOutput, Idle
  <2> QED BY <2>1, AlarmIdle
<1>2. CASE Commit
  <2>1. /\ Healthy /\ job.kind = "insert" /\ UNCHANGED <<disk, segs, mode, failed>>
        /\ job'.kind = "idle" /\ job'.victim = 0
    BY <1>2 DEF Commit, Idle
  <2> QED BY <2>1, AlarmIdle
<1>3. CASE BeginCollection
  <2>1. /\ Healthy /\ job.kind = "idle" /\ UNCHANGED <<disk, segs, mode, failed>>
        /\ job'.kind = "mark" /\ job'.victim = 0
    BY <1>3 DEF BeginCollection, Idle
  <2> QED BY <2>1, AlarmIdle
<1>4. CASE FinishMarking
  <2>1. Healthy /\ job \in JobType /\ job.kind = "mark"
    BY <1>4 DEF FinishMarking, StoreInv, TypeInv
  <2>2. job.victim = 0 /\ job.victims \subseteq DOMAIN segs
    BY <2>1 DEF StoreInv, SweepInv
  <2>3. /\ UNCHANGED <<disk, segs, mode, failed>>
        /\ job'.kind = "sweep" /\ job'.victim = 0 /\ job'.victims = job.victims
    BY <1>4, <2>1, <2>2 DEF FinishMarking, JobType
  <2> QED BY <2>1, <2>2, <2>3, AlarmIdle
<1>5. CASE FinishCollection
  <2>1. /\ Healthy /\ job.kind = "sweep" /\ UNCHANGED <<disk, segs, mode, failed>>
        /\ job'.kind = "idle" /\ job'.victim = 0
    BY <1>5 DEF FinishCollection, Idle
  <2> QED BY <2>1, AlarmIdle
<1>6. CASE \E h \in Hashes : Mark(h)
  <2>1. /\ Healthy /\ job.kind = "mark" /\ UNCHANGED <<disk, segs, mode, failed, job>>
    BY <1>6 DEF Mark
  <2>2. job.victim = 0
    BY <2>1 DEF StoreInv, SweepInv
  <2> QED BY <2>1, <2>2, AlarmIdle
<1> QED BY <1>1, <1>2, <1>3, <1>4, <1>5, <1>6

\* Steps of others than the worker.
LEMMA OthersAlarm ==
  ASSUME StoreInv, StoreInv', AlarmInv,
         OtherStep \/ (\E o, s \in Roots : Snapshot(o, s)) \/ UNCHANGED vars
  PROVE  AlarmInv'
<1>1. UNCHANGED <<disk, segs, sealed, index, marked, job, mode, failed>>
  BY DEF OtherStep, OpenView, Plan, ReadDone, OtherCreate, OtherRemove, Snapshot, vars
<1>2. highest \in Nat /\ highest' \in Nat
  BY DEF StoreInv, TypeInv, TypeOK
<1>3. highest' = highest \/ highest' = highest + 1
  BY DEF OtherStep, OpenView, Plan, ReadDone, OtherCreate, OtherRemove, Snapshot, vars
<1>4. highest <= highest'
  BY <1>2, <1>3
<1> QED BY <1>1, <1>4, AlarmSame

\* An error leaves the files as they are.
LEMMA FailAlarm ==
  ASSUME AlarmInv, Fail PROVE AlarmInv'
<1>1. UNCHANGED disk /\ ~Healthy' /\ mode' = "serving"
  BY DEF Fail, Healthy
<1> QED BY <1>1 DEF AlarmInv, FitInv, CutInv, CopyInv

\* Every step keeps sizes and counts.
LEMMA NextAlarm ==
  ASSUME StoreInv, StoreInv', AlarmInv, [Next]_vars PROVE AlarmInv'
<1>1. CASE OutputStep
  BY <1>1, InsertAlarm, BeginCreateAlarm, FinishCreateAlarm, WriteBatchAlarm, SyncBatchAlarm,
     PublishBatchAlarm, QuietAlarm DEF OutputStep
<1>2. CASE CollectionStep
  BY <1>2, QuietAlarm, StartVictimAlarm, CopyBatchAlarm, CopiedAllAlarm, NextVictimAlarm
     DEF CollectionStep
<1>3. CASE RequestStep
  BY <1>3, QuietAlarm, OthersAlarm DEF RequestStep
<1>4. CASE RecoveryStep
  BY <1>4, RecoveryAlarm, RepairSegmentAlarm DEF RecoveryStep
<1>5. CASE CrashStep
  BY <1>5, CrashAlarm DEF CrashStep
<1> QED BY <1>1, <1>2, <1>3, <1>4, <1>5, FailAlarm, OthersAlarm DEF Next

\* In such a state every check of an output or a collection succeeds.
LEMMA NoAlarmHere ==
  ASSUME StoreInv, AlarmInv PROVE NoFalseAlarm
<1>1. CASE ~Healthy
  <2>1. ~failed => job.kind = "idle"
    BY <1>1 DEF Healthy, StoreInv, TypeInv
  <2> QED BY <2>1 DEF NoFalseAlarm
<1>2. CASE Healthy
  <2>1. job.kind = "write" => Last \notin sealed /\ OutputFits
    BY <1>2 DEF AlarmInv, CopyInv
  <2>2. job.kind = "synced" => Relocatable
    BY <1>2 DEF AlarmInv, CopyInv, Writing, Relocatable
  <2>3. job.kind = "mark" => \A h \in Walked : index[h] # None
    BY <1>2 DEF StoreInv, IndexInv, Walked
  <2>4. job.kind = "sweep" =>
          \A v \in job.victims : v \in DOMAIN segs /\ Len(disk[v]) = segs[v]
    BY <1>2 DEF AlarmInv, CopyInv, CutInv, Sweeping
  <2>5. ASSUME job.victim # 0, \A h \in marked : index[h].seg # job.victim
        PROVE  job.copied = job.live[job.victim] /\ (job.copied # 0 => job.victim < highest)
    <3>1. {h \in marked : index[h].seg = job.victim} = {}
      BY <2>5
    <3>2. Live(job.victim) = 0
      BY <3>1, FS_EmptySet DEF Live
    <3>3. job.copied \in Nat
      BY DEF StoreInv, TypeInv, JobType
    <3>4. job.copied + Live(job.victim) = job.live[job.victim]
          /\ (job.copied # 0 => job.victim < highest)
      BY <1>2, <2>5 DEF AlarmInv, CopyInv, Filled
    <3> QED BY <3>2, <3>3, <3>4
  <2>6. ASSUME job.kind = "copy", job.from > segs[job.victim]
        PROVE  job.copied = job.live[job.victim]
    <3>1. job.victim # 0 /\ job.victim \in DOMAIN segs /\ Sweeping /\ job.from \in Nat
          /\ segs[job.victim] \in Nat
      BY <1>2, <2>6 DEF StoreInv, SweepInv, Sweeping, TypeInv, TypeOK, JobType
    <3>2. ASSUME NEW h \in marked PROVE index[h].seg # job.victim
      <4>1. Holds(index[h], h) /\ index[h] \in Address
        BY <1>2, <3>1 DEF StoreInv, IndexInv, TypeInv, TypeOK
      <4>2. index[h].seg = job.victim => index[h].batch >= job.from
        BY <1>2, <2>6, <3>1 DEF StoreInv, SweepInv
      <4>3. index[h].seg = job.victim => index[h].batch <= segs[job.victim]
        BY <3>1, <4>1 DEF Holds
      <4>4. index[h].batch \in Nat
        BY <4>1 DEF Address
      <4> QED BY <2>6, <3>1, <4>2, <4>3, <4>4
    <3> QED BY <2>5, <3>1, <3>2
  <2>7. ASSUME job.kind = "remove", RetainHeader(job.victim) PROVE job.live[job.victim] = 0
    <3>1. job.victim # 0 /\ \A h \in marked : index[h].seg # job.victim
      BY <1>2, <2>7 DEF StoreInv, SweepInv
    <3>2. job.victim = highest /\ highest \in Nat
      BY <2>7 DEF RetainHeader, StoreInv, TypeInv, TypeOK
    <3> QED BY <2>5, <3>1, <3>2
  <2> QED BY <2>1, <2>2, <2>3, <2>4, <2>6, <2>7 DEF NoFalseAlarm
<1> QED BY <1>1, <1>2

\* No consistency check of an output or a collection fails: batches fit, every
\* reference is indexed, every live chunk of a victim is copied, no entry moves
\* and no file changes its length under the worker (store/file).
THEOREM ChecksNeverFail == Spec => []NoFalseAlarm
<1>1. Init => AlarmInv
  <2> SUFFICES ASSUME Init PROVE AlarmInv
    OBVIOUS
  <2>1. DOMAIN disk = {} /\ DOMAIN segs = {} /\ mode = "serving" /\ job.kind = "idle" /\ job.victim = 0
    BY DEF Init, Idle
  <2> QED BY <2>1 DEF AlarmInv, FitInv, CutInv, CopyInv, Sweeping, Writing
<1>2. StoreInv /\ StoreInv' /\ AlarmInv /\ [Next]_vars => AlarmInv'
  BY NextAlarm
<1>3. StoreInv /\ AlarmInv => NoFalseAlarm
  BY NoAlarmHere
<1> QED BY <1>1, <1>2, <1>3, StoreInvariant, PTL DEF Spec

=============================================================================
