----------------------------- MODULE ChunkStore -----------------------------
(***************************************************************************)
(* The content-addressed chunk store shared by the images of a host        *)
(* (crates/cas/core/src/store/file): insertion by the single compactor,    *)
(* concurrent readers, copying collection, crashes and recovery, and the   *)
(* tickets its segments share with the staging logs.                       *)
(*                                                                         *)
(* A chunk is identified by its hash.  A batch is the set of hashes it      *)
(* holds, an address the segment and batch of a chunk; sizes are in blocks *)
(* (one per segment header, batch header and chunk).  The manifests are     *)
(* abstracted to the hashes each durable root refers to.                   *)
(***************************************************************************)
EXTENDS Integers, Sequences, FiniteSets

CONSTANTS
  Hashes,      \* chunk contents
  Roots,       \* catalog entries: images and snapshots
  Readers,     \* concurrent read requests
  Capacity,    \* Config.segment_bytes, in blocks
  MaxChunks,   \* chunks of one batch (MAX_CHUNKS)
  MaxTickets,  \* bound: up to this ticket the staging logs allocate
  MaxOutputs,  \* bound: compaction outputs
  MaxCrashes   \* bound: process crashes and power losses

ASSUME StoreAssumption ==
  /\ IsFiniteSet(Hashes)
  /\ Capacity \in Nat /\ MaxChunks \in Nat \ {0}
  /\ Capacity >= MaxChunks + 2
  /\ MaxTickets \in Nat /\ MaxOutputs \in Nat /\ MaxCrashes \in Nat

VARIABLES
  disk,       \* ticket -> batches of a chunk file with a durable header
  stub,       \* files whose header is not durable; one that became durable
              \* before a crash is as after FinishCreate
  unlinked,   \* files removed from a directory that is not synced yet
  archived,   \* tickets named in the directory of rejected files
  others,     \* tickets of staging segments
  roots,      \* hashes each durable root refers to
  mode,       \* serving, down, or repair
  failed,     \* State.failed
  collecting, \* State.collecting
  highest,    \* Tickets.highest
  index,      \* address of each hash, or None
  marked,     \* entries marked by the collection
  segs,       \* ticket -> number of published batches (State.segments)
  sealed,     \* segments that take no more batches
  job,        \* the transaction of the single worker
  readers,    \* views and file pins of the read requests
  births,     \* history: tickets in the order they were assigned
  outputs,    \* history: compaction outputs so far
  crashes     \* history: crashes so far

files == <<disk, stub, unlinked, archived, others>>
state == <<failed, collecting, highest, index, marked, segs, sealed>>
counts == <<outputs, crashes>>
vars == <<disk, stub, unlinked, archived, others, roots, mode, failed,
          collecting, highest, index, marked, segs, sealed, job, readers,
          births, outputs, crashes>>

-----------------------------------------------------------------------------
(* Records                                                                 *)

None == [seg |-> 0, batch |-> 0]
Batch(chunks) == [chunks |-> chunks, st |-> "issued"]

Idle == [kind |-> "idle", root |-> {}, new |-> {}, want |-> {}, out |-> {},
         victims |-> {}, live |-> <<>>, victim |-> 0, from |-> 0, copied |-> 0]

NoRead == [on |-> FALSE, view |-> {}, hash |-> {}, at |-> None]

Greatest(S) == CHOOSE m \in S : \A k \in S : k <= m
First(s, S) == s \in S /\ \A t \in S : s <= t

Visible == DOMAIN disk \ unlinked

\* Blocks of a file up to the end of its batch n (Segment.end).
End(batches, n) ==
  1 + n + Cardinality({p \in (1..n) \X Hashes : p[2] \in batches[p[1]].chunks})

Total(s) == End(disk[s], segs[s]) - 1 - segs[s]

Held == {readers[r].view : r \in {q \in Readers : readers[q].on}}

\* What the manifests of all images and snapshots, and the views still pinned,
\* refer to (pinned_roots).
Needed == UNION ({roots[o] : o \in Roots} \cup Held)

\* The file position a is a published batch that holds h.
Holds(a, h) ==
  /\ a.seg \in DOMAIN segs /\ a.seg \in Visible
  /\ a.batch \in 1..segs[a.seg] /\ a.batch <= Len(disk[a.seg])
  /\ disk[a.seg][a.batch].st # "bad" /\ h \in disk[a.seg][a.batch].chunks

Healthy == mode = "serving" /\ ~failed

-----------------------------------------------------------------------------
(* Output: one batch of new or relocated chunks, then the manifest          *)

\* Compaction prepared the next root of o; `chunks` are those it has to insert.
BeginOutput(o, new, chunks) ==
  /\ Healthy /\ job = Idle /\ outputs < MaxOutputs
  /\ chunks # {} /\ chunks \subseteq new /\ new \ chunks \subseteq roots[o]
  /\ job' = [Idle EXCEPT !.kind = "insert", !.root = {o}, !.new = new,
                         !.want = chunks]
  /\ outputs' = outputs + 1
  /\ UNCHANGED <<files, roots, mode, state, readers, births, crashes>>

Missing(chunks) == {h \in chunks : index[h] = None}

Last == Greatest(DOMAIN segs)

\* mutant: the batch header is not counted
NeedsSegmentShort(out) ==
  \/ DOMAIN segs = {} \/ Last \in sealed
  \/ Cardinality(out) > Capacity - End(disk[Last], segs[Last])

NeedsSegment(out) ==
  \/ DOMAIN segs = {} \/ Last \in sealed
  \/ Cardinality(out) + 1 > Capacity - End(disk[Last], segs[Last])

\* Store::insert up to its output: chunks already indexed are reused.
Insert(chunks) ==
  /\ Healthy /\ job.kind = "insert"
  /\ chunks # {} /\ chunks \subseteq job.want
  /\ Cardinality(chunks) <= MaxChunks
  /\ chunks = job.want \/ Cardinality(chunks) = MaxChunks
  /\ LET out == Missing(chunks)
     IN  job' = [job EXCEPT
                   !.want = @ \ chunks, !.out = out,
                   !.kind = IF out = {} THEN "insert"
                            ELSE IF NeedsSegment(out) THEN "create"
                            ELSE "write"]
  /\ UNCHANGED <<files, roots, mode, state, readers, births, counts>>

\* Segment::create under the ticket lock: the name exists.
BeginCreate ==
  /\ Healthy /\ job.kind = "create"
  /\ stub' = stub \cup {highest + 1}
  /\ job' = [job EXCEPT !.kind = "creating"]
  /\ UNCHANGED <<disk, unlinked, archived, others, roots, mode, state, readers,
                 births, counts>>

\* Files that remain once their directory is synced.
Settled == [s \in Visible |-> disk[s]]

\* Header, file and directory are synced; only now is the ticket assigned.
FinishCreate ==
  /\ Healthy /\ job.kind = "creating"
  /\ LET number == highest + 1
     IN  /\ disk' = [s \in Visible \cup {number} |->
                       IF s = number THEN <<>> ELSE disk[s]]
         /\ segs' = [s \in DOMAIN segs \cup {number} |->
                       IF s = number THEN 0 ELSE segs[s]]
         /\ stub' = stub \ {number}
         /\ highest' = number
         /\ births' = Append(births, number)
  /\ unlinked' = {}
  /\ job' = [job EXCEPT !.kind = "write"]
  /\ UNCHANGED <<archived, others, roots, mode, failed, collecting, index,
                 marked, sealed, readers, counts>>

OutputFits == Cardinality(job.out) + 1 <= Capacity - End(disk[Last], segs[Last])

WriteBatch ==
  /\ Healthy /\ job.kind = "write"
  /\ Last \notin sealed /\ OutputFits
  /\ disk' = [disk EXCEPT ![Last] = Append(SubSeq(@, 1, segs[Last]),
                                           Batch(job.out))]
  /\ job' = [job EXCEPT !.kind = "written"]
  /\ UNCHANGED <<stub, unlinked, archived, others, roots, mode, state, readers,
                 births, counts>>

SyncSkipped(batches) == batches  \* mutant: fdatasync is skipped

\* fdatasync of the file holding these batches.
SyncData(batches) ==
  [i \in DOMAIN batches |->
     [batches[i] EXCEPT !.st = IF @ = "bad" THEN "bad" ELSE "synced"]]

SyncBatch ==
  /\ Healthy /\ job.kind = "written"
  /\ disk' = [disk EXCEPT ![Last] = SyncData(@)]
  /\ job' = [job EXCEPT !.kind = "synced"]
  /\ UNCHANGED <<stub, unlinked, archived, others, roots, mode, state, readers,
                 births, counts>>

Old == [seg |-> job.victim, batch |-> job.from]

\* Index::relocate demands that no relocated entry has moved meanwhile.
Relocatable == job.victim # 0 => \A h \in job.out : index[h] = Old

\* Publication follows sync: an entry is inserted, or relocated from Old.
PublishBatch ==
  /\ Healthy /\ job.kind = "synced" /\ Relocatable
  /\ index' = [h \in Hashes |->
                 IF h \in job.out /\ index[h] \in {None, Old}
                   THEN [seg |-> Last, batch |-> segs[Last] + 1] ELSE index[h]]
  /\ segs' = [segs EXCEPT ![Last] = @ + 1]
  /\ job' = IF job.victim = 0
              THEN [job EXCEPT !.kind = "insert", !.out = {}]
              ELSE [job EXCEPT !.kind = "copy", !.out = {}, !.from = @ + 1,
                               !.copied = @ + Cardinality(job.out)]
  /\ UNCHANGED <<files, roots, mode, failed, collecting, highest, marked,
                 sealed, readers, births, counts>>

\* Every chunk is published; the manifest commit makes the root durable.
Commit ==
  /\ Healthy /\ job.kind = "insert" /\ job.want = {}
  /\ roots' = [o \in Roots |-> IF o \in job.root THEN job.new ELSE roots[o]]
  /\ job' = Idle
  /\ UNCHANGED <<files, mode, state, readers, births, counts>>

\* A snapshot is one more durable root.
Snapshot(o, s) ==
  /\ Healthy /\ job = Idle
  /\ roots[s] = {} /\ roots[o] # {}
  /\ roots' = [roots EXCEPT ![s] = roots[o]]
  /\ UNCHANGED <<files, mode, state, job, readers, births, counts>>

\* An output or collection error, also running out of space between victims,
\* is terminal (Output and Guard).
Fail ==
  /\ Healthy /\ job # Idle
  /\ failed' = TRUE /\ job' = Idle
  /\ UNCHANGED <<files, roots, mode, collecting, highest, index, marked, segs,
                 sealed, readers, births, counts>>

-----------------------------------------------------------------------------
(* Collection                                                              *)

DrainedAlways == TRUE  \* mutant: file pins are not waited for

\* No read holds a segment file.
PinsDrained == \A r \in Readers : readers[r].at = None

BeginCollection ==
  /\ Healthy /\ job = Idle /\ ~collecting
  /\ PinsDrained
  /\ collecting' = TRUE /\ marked' = {}
  /\ job' = [Idle EXCEPT !.kind = "mark", !.victims = DOMAIN segs]
  /\ UNCHANGED <<files, roots, mode, failed, highest, index, segs, sealed,
                 readers, births, counts>>

\* The hashes the walk over every root and pinned view visits.
Walked == Needed

\* One reference met by the walk.
Mark(h) ==
  /\ Healthy /\ job.kind = "mark"
  /\ h \in Walked \ marked /\ index[h] # None
  /\ marked' = marked \cup {h}
  /\ UNCHANGED <<files, roots, mode, failed, collecting, highest, index, segs,
                 sealed, job, readers, births, counts>>

Live(s) == Cardinality({h \in marked : index[h].seg = s})

FinishMarking ==
  /\ Healthy /\ job.kind = "mark" /\ Walked \subseteq marked
  /\ job' = [job EXCEPT !.kind = "sweep",
                        !.live = [s \in job.victims |-> Live(s)]]
  /\ UNCHANGED <<files, roots, mode, state, readers, births, counts>>

\* Nothing to gain: the victim stays as it is.
KeepVictim(v) == job.live[v] # 0 /\ job.live[v] = Total(v)

StartVictim(v) ==
  /\ Healthy /\ job.kind = "sweep" /\ First(v, job.victims)
  /\ v \in DOMAIN segs /\ Len(disk[v]) = segs[v]
  /\ job' = IF KeepVictim(v) THEN [job EXCEPT !.victims = @ \ {v}]
            ELSE [job EXCEPT
                    !.kind = IF job.live[v] = 0 THEN "remove" ELSE "copy",
                    !.victim = v, !.from = 1, !.copied = 0]
  /\ UNCHANGED <<files, roots, mode, state, readers, births, counts>>

\* Chunks of the next batch that are live at this very address.
LiveHere == {h \in disk[job.victim][job.from].chunks :
               h \in marked /\ index[h] = Old}

\* The first copy of a victim opens a new segment.
CopyBatch ==
  /\ Healthy /\ job.kind = "copy" /\ job.from <= segs[job.victim]
  /\ job' = IF LiveHere = {} THEN [job EXCEPT !.from = @ + 1]
            ELSE [job EXCEPT
                    !.out = LiveHere,
                    !.kind = IF job.copied = 0 THEN "create" ELSE "write"]
  /\ UNCHANGED <<files, roots, mode, state, readers, births, counts>>

CopiedAll ==
  /\ Healthy /\ job.kind = "copy" /\ job.from > segs[job.victim]
  /\ job.copied = job.live[job.victim]
  /\ job' = [job EXCEPT !.kind = "remove"]
  /\ UNCHANGED <<files, roots, mode, state, readers, births, counts>>

NextVictim == [job EXCEPT !.kind = "sweep", !.victims = @ \ {job.victim},
                          !.victim = 0, !.from = 0, !.copied = 0]

\* Tickets are recovered from file names: the greatest one keeps its header.
RetainHeader(s) == s = highest

TrimGreatest ==
  /\ Healthy /\ job.kind = "remove" /\ RetainHeader(job.victim)
  /\ job.live[job.victim] = 0
  /\ disk' = [disk EXCEPT ![job.victim] = <<>>]
  /\ segs' = [segs EXCEPT ![job.victim] = 0]
  /\ sealed' = sealed \cup {job.victim}
  /\ job' = NextVictim
  /\ UNCHANGED <<stub, unlinked, archived, others, roots, mode, failed,
                 collecting, highest, index, marked, readers, births, counts>>

UnlinkVictim ==
  /\ Healthy /\ job.kind = "remove" /\ ~RetainHeader(job.victim)
  /\ unlinked' = unlinked \cup {job.victim}
  /\ job' = [job EXCEPT !.kind = "unlinked"]
  /\ UNCHANGED <<disk, stub, archived, others, roots, mode, state, readers,
                 births, counts>>

\* The directory is synced before the segment leaves the table.
ForgetVictim ==
  /\ Healthy /\ job.kind = "unlinked"
  /\ disk' = Settled /\ unlinked' = {}
  /\ segs' = [s \in DOMAIN segs \ {job.victim} |-> segs[s]]
  /\ sealed' = sealed \ {job.victim}
  /\ job' = NextVictim
  /\ UNCHANGED <<stub, archived, others, roots, mode, failed, collecting,
                 highest, index, marked, readers, births, counts>>

FinishCollection ==
  /\ Healthy /\ job.kind = "sweep" /\ job.victims = {}
  /\ index' = [h \in Hashes |-> IF h \in marked THEN index[h] ELSE None]
  /\ collecting' = FALSE
  /\ job' = Idle
  /\ UNCHANGED <<files, roots, mode, failed, highest, marked, segs, sealed,
                 readers, births, counts>>

-----------------------------------------------------------------------------
(* Readers, and the staging logs that share the tickets                    *)

\* A read captures the view of an image.
OpenView(r, o) ==
  /\ mode = "serving" /\ ~readers[r].on /\ roots[o] # {}
  /\ readers' = [readers EXCEPT ![r] = [NoRead EXCEPT !.on = TRUE,
                                                      !.view = roots[o]]]
  /\ UNCHANGED <<files, roots, mode, state, job, births, counts>>

MayPlan == Healthy /\ ~collecting

\* Reader::plan captures the address and pins the file.
Plan(r, h) ==
  /\ MayPlan
  /\ readers[r].on /\ readers[r].at = None /\ h \in readers[r].view
  /\ index[h] # None
  /\ readers' = [readers EXCEPT ![r].hash = {h}, ![r].at = index[h]]
  /\ UNCHANGED <<files, roots, mode, state, job, births, counts>>

ReadDone(r) ==
  /\ mode = "serving" /\ readers[r].on
  /\ readers' = [readers EXCEPT ![r] = NoRead]
  /\ UNCHANGED <<files, roots, mode, state, job, births, counts>>

\* A staging log creates a segment, or reclaims one that is not the greatest.
OtherCreate ==
  /\ Healthy /\ job.kind # "creating" /\ highest < MaxTickets
  /\ others' = others \cup {highest + 1}
  /\ highest' = highest + 1
  /\ births' = Append(births, highest + 1)
  /\ UNCHANGED <<disk, stub, unlinked, archived, roots, mode, failed,
                 collecting, index, marked, segs, sealed, job, readers, counts>>

OtherRemove(t) ==
  /\ Healthy /\ t \in others /\ t < highest
  /\ others' = others \ {t}
  /\ UNCHANGED <<disk, stub, unlinked, archived, roots, mode, state, job,
                 readers, births, counts>>

-----------------------------------------------------------------------------
(* Crashes and recovery                                                    *)

Unsynced == {p \in (DOMAIN disk) \X (1..Capacity) :
               p[2] <= Len(disk[p[1]]) /\ disk[p[1]][p[2]].st = "issued"}

\* A batch not synced is intact or bad after the crash, a file not durably
\* created or removed is there or not; what the host keeps is on the platter.
Settle(bt, lost, power) ==
  [bt EXCEPT !.st = IF lost THEN "bad"
                    ELSE IF power /\ @ = "issued" THEN "synced" ELSE @]

Crash(power, lost, back, gone) ==
  /\ crashes < MaxCrashes /\ (power \/ mode # "down")
  /\ lost \subseteq Unsynced /\ back \subseteq unlinked /\ gone \subseteq stub
  /\ ~power => back = {} /\ gone = {}
  /\ disk' = [s \in IF power THEN Visible \cup back ELSE DOMAIN disk |->
                [i \in DOMAIN disk[s] |->
                   Settle(disk[s][i], <<s, i>> \in lost, power)]]
  /\ unlinked' = IF power THEN {} ELSE unlinked
  /\ stub' = stub \ gone
  /\ mode' = "down" /\ failed' = FALSE /\ collecting' = FALSE
  /\ highest' = 0 /\ index' = [h \in Hashes |-> None] /\ marked' = {}
  /\ segs' = <<>> /\ sealed' = {}
  /\ job' = Idle /\ readers' = [r \in Readers |-> NoRead]
  /\ crashes' = crashes + 1
  /\ UNCHANGED <<archived, others, roots, births, outputs>>

\* inspect_batches: batches before the first that does not verify.
Accepted(s) ==
  CHOOSE n \in 0..Len(disk[s]) :
    /\ \A i \in 1..n : disk[s][i].st # "bad"
    /\ n < Len(disk[s]) => disk[s][n + 1].st = "bad"

\* Where inspection finds h; the first one met is kept.
Found(h) == {a \in [seg : Visible, batch : 1..Capacity] :
               a.batch <= Accepted(a.seg) /\ h \in disk[a.seg][a.batch].chunks}
FirstFound(h) ==
  IF Found(h) = {} THEN None
  ELSE CHOOSE a \in Found(h) :
         \A b \in Found(h) :
           a.seg < b.seg \/ (a.seg = b.seg /\ a.batch <= b.batch)

\* Every name Tickets::open observes.
Names == Visible \cup stub \cup others \cup archived \cup {0}

\* mutant: a torn tail refuses the store
NoTornTail ==
  /\ \A o \in Roots : \A h \in roots[o] : Found(h) # {}
  /\ \A s \in Visible : Accepted(s) = Len(disk[s])

\* The coordinator verifies what every root refers to.
RootsVerified == \A o \in Roots : \A h \in roots[o] : Found(h) # {}

\* Read-only inspection.
Inspect ==
  /\ mode = "down"
  /\ index' = [h \in Hashes |-> FirstFound(h)]
  /\ RootsVerified
  /\ segs' = [s \in Visible |-> Accepted(s)]
  /\ highest' = Greatest(Names)
  /\ mode' = "repair"
  /\ job' = [Idle EXCEPT !.victims = Visible]
  /\ UNCHANGED <<files, roots, failed, collecting, marked, sealed, readers,
                 births, counts>>

CutTail(s) == SubSeq(disk[s], 1, segs[s])

\* A rejected tail is archived and cut off; every segment is synced.
RepairSegment(s) ==
  /\ mode = "repair" /\ First(s, job.victims)
  /\ archived' = IF Len(disk[s]) > segs[s] THEN archived \cup {s} ELSE archived
  /\ disk' = [disk EXCEPT ![s] = SyncData(CutTail(s))]
  /\ job' = [job EXCEPT !.victims = @ \ {s}]
  /\ UNCHANGED <<stub, unlinked, others, roots, mode, state, readers, births,
                 counts>>

\* A file without a header is archived, then removed.
RejectFile(t) ==
  /\ mode = "repair" /\ job.victims = {} /\ First(t, stub)
  /\ archived' = archived \cup {t}
  /\ stub' = stub \ {t}
  /\ disk' = Settled /\ unlinked' = {}
  /\ UNCHANGED <<others, roots, mode, state, job, readers, births, counts>>

FinishRecovery ==
  /\ mode = "repair" /\ job.victims = {} /\ stub = {}
  /\ mode' = "serving"
  /\ UNCHANGED <<files, roots, state, job, readers, births, counts>>

-----------------------------------------------------------------------------
Init ==
  /\ disk = <<>> /\ stub = {} /\ unlinked = {} /\ archived = {} /\ others = {}
  /\ roots = [o \in Roots |-> {}]
  /\ mode = "serving" /\ failed = FALSE /\ collecting = FALSE
  /\ highest = 0 /\ index = [h \in Hashes |-> None] /\ marked = {}
  /\ segs = <<>> /\ sealed = {}
  /\ job = Idle /\ readers = [r \in Readers |-> NoRead]
  /\ births = <<>> /\ outputs = 0 /\ crashes = 0

OutputStep ==
  \/ \E chunks \in SUBSET job.want : Insert(chunks)
  \/ BeginCreate \/ FinishCreate \/ WriteBatch \/ SyncBatch \/ PublishBatch
  \/ Commit

CollectionStep ==
  \/ \E h \in Hashes : Mark(h)
  \/ FinishMarking
  \/ \E v \in job.victims : StartVictim(v)
  \/ CopyBatch \/ CopiedAll \/ TrimGreatest \/ UnlinkVictim \/ ForgetVictim
  \/ FinishCollection

RequestStep ==
  \/ \E o \in Roots : \E new \in SUBSET Hashes : \E chunks \in SUBSET new :
       BeginOutput(o, new, chunks)
  \/ \E o, s \in Roots : Snapshot(o, s)
  \/ BeginCollection

OtherStep ==
  \/ \E r \in Readers :
       \/ \E o \in Roots : OpenView(r, o)
       \/ \E h \in Hashes : Plan(r, h)
       \/ ReadDone(r)
  \/ OtherCreate
  \/ \E t \in others : OtherRemove(t)

RecoveryStep ==
  \/ Inspect \/ FinishRecovery
  \/ \E s \in job.victims : RepairSegment(s)
  \/ \E t \in stub : RejectFile(t)

CrashStep ==
  \E power \in BOOLEAN, lost \in SUBSET Unsynced, back \in SUBSET unlinked,
     gone \in SUBSET stub : Crash(power, lost, back, gone)

Next ==
  \/ OutputStep \/ CollectionStep \/ RequestStep \/ OtherStep \/ RecoveryStep
  \/ Fail \/ CrashStep

Spec == Init /\ [][Next]_vars

\* The worker finishes what it started, recovery is a sequential program.
FairSpec ==
  /\ Spec
  /\ WF_vars(OutputStep) /\ WF_vars(CollectionStep) /\ WF_vars(RecoveryStep)

-----------------------------------------------------------------------------
(* Properties                                                              *)

Address == [seg : Nat, batch : Nat]
BatchType == [chunks : SUBSET Hashes, st : {"issued", "synced", "bad"}]

\* Every variable has its type, and the published part of a segment is on disk.
TypeOK ==
  /\ DOMAIN disk \subseteq Nat
  /\ \A s \in DOMAIN disk : disk[s] \in Seq(BatchType)
  /\ stub \subseteq Nat /\ unlinked \subseteq DOMAIN disk
  /\ archived \subseteq Nat /\ others \subseteq Nat
  /\ roots \in [Roots -> SUBSET Hashes]
  /\ mode \in {"serving", "down", "repair"}
  /\ failed \in BOOLEAN /\ collecting \in BOOLEAN
  /\ highest \in Nat /\ index \in [Hashes -> Address] /\ marked \subseteq Hashes
  /\ DOMAIN segs \subseteq DOMAIN disk
  /\ \A s \in DOMAIN segs : segs[s] \in 0..Len(disk[s])
  /\ sealed \subseteq DOMAIN segs
  /\ births \in Seq(Nat) /\ outputs \in Nat /\ crashes \in Nat

\* Everything a committed root or a pinned view refers to is indexed at an
\* intact batch that holds it, also while a collection moves chunks.
RootsReadable ==
  Healthy => \A h \in Needed : index[h] # None /\ Holds(index[h], h)

\* Whatever instant the process or the host stops at, recovery finds every
\* chunk a durable root refers to.
RootsSurvive ==
  mode = "down" => \A o \in Roots : \A h \in roots[o] : Found(h) # {}

\* A planned read finds its chunk until it is done: the file is not cut,
\* removed or overwritten under its pin.
ReadsStable ==
  \A r \in Readers : readers[r].at # None /\ mode = "serving" =>
    LET a == readers[r].at
    IN  /\ a.seg \in Visible /\ a.batch <= Len(disk[a.seg])
        /\ readers[r].hash \subseteq disk[a.seg][a.batch].chunks

\* None of the consistency checks of an output or a collection fails: the
\* batch fits its destination, every reference is indexed, every live chunk
\* of a victim is copied, no entry moved and no file changed length.
NoFalseAlarm ==
  ~failed =>
    /\ job.kind = "write" => Last \notin sealed /\ OutputFits
    /\ job.kind = "synced" => Relocatable
    /\ job.kind = "mark" => \A h \in Walked : index[h] # None
    /\ job.kind = "sweep" =>
         \A v \in job.victims : v \in DOMAIN segs /\ Len(disk[v]) = segs[v]
    /\ job.kind = "copy" /\ job.from > segs[job.victim] =>
         job.copied = job.live[job.victim]
    /\ job.kind = "remove" /\ RetainHeader(job.victim) =>
         job.live[job.victim] = 0

\* A ticket is assigned once in the life of a store, although the counter is
\* recovered from the names that are left.
TicketsUnique ==
  \A i, j \in DOMAIN births : births[i] = births[j] => i = j

\* No chunk a root or a view needs is ever lost, whether the store serves or has
\* stopped, and no ticket comes back (commit, sweep, recovery).
RootsKept == TypeOK /\ RootsReadable /\ RootsSurvive /\ TicketsUnique

\* A store that stopped is served again.
StoreServes == mode = "down" ~> mode = "serving"
=============================================================================
