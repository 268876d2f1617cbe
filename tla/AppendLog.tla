----------------------------- MODULE AppendLog -----------------------------
(***************************************************************************)
(* The staging write-ahead log of one image (crates/cas/core/src/append),  *)
(* the background worker that rotates, compacts and reclaims it            *)
(* (crates/cas/daemon/src/local/host/worker.rs), crashes, and cold and     *)
(* live recovery.                                                          *)
(*                                                                         *)
(* Data is abstracted to what the properties tell apart: a mutation covers *)
(* one logical block, a payload is identified by the mutation's sequence   *)
(* number and writer epoch, and a batch on disk is intact or bad.  Segment *)
(* geometry is kept in units of one 4 KiB block: one for the segment       *)
(* header, one per batch header, one per WRITE payload.                    *)
(***************************************************************************)
EXTENDS Integers, Sequences, FiniteSets

CONSTANTS
  Blocks,        \* logical blocks of the image
  Readers,       \* concurrent read requests
  Kinds,         \* kinds of mutation the guest issues: FALSE WRITE, TRUE ZERO
  Capacity,      \* Config.segment_bytes, in blocks
  Staging,       \* Limits.staging_bytes, in blocks
  Intervals,     \* Limits.intervals
  PackLimit,     \* descriptors a builder may pack (MAX_DESCRIPTORS)
  CompactLimit,  \* descriptors one compaction takes (MAX_CHANGES)
  MaxMutations,  \* bound: mutations admitted
  MaxTickets,    \* bound: segment numbers allocated
  MaxCrashes     \* bound: process crashes and power losses

ASSUME ConstantsAssumption ==
  /\ IsFiniteSet(Blocks) /\ Kinds \subseteq BOOLEAN
  /\ Capacity \in Nat /\ Staging \in Nat /\ Intervals \in Nat
  /\ PackLimit \in Nat /\ CompactLimit \in Nat
  /\ MaxMutations \in Nat /\ MaxTickets \in Nat /\ MaxCrashes \in Nat
  /\ Capacity >= 4 /\ Staging >= Capacity
  /\ 1 <= PackLimit /\ PackLimit <= CompactLimit /\ 1 <= MaxTickets

VARIABLES
  disk,       \* ticket -> segment file with a durable header
  stub,       \* tickets of files whose header never became durable
  highest,    \* Tickets.highest: greatest ticket assigned
  manifest,   \* the manifest's selected commit on disk
  history,    \* admitted mutations, in sequence order (guest descriptors)
  live,       \* mutations whose inflight slot is not yet retired
  acked,      \* the carrier's published prefix
  attach,     \* epoch of the retained carrier, 0 when there is none
  mode,       \* serving, or the stage of recovery
  failed,     \* Log.failed
  published,  \* P
  issued,     \* Log.issued
  durable,    \* E
  fenced,     \* Log.fenced
  cohort,     \* boundary of the active sync cohort, or NoCohort
  index,      \* staged sequence covering each block, 0 when none
  base,       \* the manifest view this log reads below its index
  segs,       \* tickets of Log.segments
  current,    \* ticket of the segment being appended to
  cursor,     \* compaction_cursor: where the next scan may resume
  job,        \* the transaction of the single allocation/background owner
  plans,      \* captured read plans
  promised,   \* history: greatest E ever reported
  crashes     \* history: crashes so far

media == <<disk, stub, highest, manifest>>
guest == <<history, live, acked, attach>>
frontiers == <<published, issued, durable, fenced, cohort>>
memory == <<index, base, segs, current, cursor>>
vars == <<disk, stub, highest, manifest, history, live, acked, attach, mode,
          failed, published, issued, durable, fenced, cohort, index, base,
          segs, current, cursor, job, plans, promised, crashes>>

-----------------------------------------------------------------------------
(* Records                                                                 *)

NoCohort == -1
Zero == <<0, 0>>
NoCursor == [seg |-> 0, seq |-> 0]
EmptyView == [d |-> 0, map |-> [b \in Blocks |-> Zero]]

Value(n, m) == IF m.zero THEN Zero ELSE <<n, m.epoch>>

\* A batch covers mutations last-Len(data)+1 .. last; a fence covers none.
Batch(last, data) ==
  [last |-> last, data |-> data, st |-> "issued", punched |-> FALSE]

IsFence(bt) == bt.data = <<>>
First(bt) == bt.last - Len(bt.data) + 1
Covers(bt, n) == First(bt) <= n /\ n <= bt.last
At(bt, n) == bt.data[n - First(bt) + 1]
HasPayload(bt) == \E i \in DOMAIN bt.data : ~bt.data[i].zero

\* Greatest and least member of a set of naturals, 0 when it has none.
Greatest(S) == IF \E m \in S : \A k \in S : k <= m
                 THEN CHOOSE m \in S : \A k \in S : k <= m ELSE 0
Least(S) == IF \E m \in S : \A k \in S : m <= k
              THEN CHOOSE m \in S : \A k \in S : m <= k ELSE 0

\* The newest n in lo+1..hi that h maps to block b, 0 when there is none.
LastTouch(h, lo, hi, b) ==
  Greatest({n \in (lo + 1)..hi : h[n].block = b})

\* The view v after mutations v.d+1 .. hi of h.
Apply(v, h, hi) ==
  [d |-> hi,
   map |-> [b \in Blocks |->
              LET n == LastTouch(h, v.d, hi, b)
              IN  IF n = 0 THEN v.map[b] ELSE Value(n, h[n])]]

\* Image contents after the first k mutations of the history.
Content(k) == Apply(EmptyView, history, k).map

Idle == [kind |-> "idle", fresh |-> FALSE, through |-> 0, view |-> EmptyView,
         cursor |-> NoCursor, oldest |-> 0, todo |-> {}]

NoPlan == [on |-> FALSE, block |-> 0, upto |-> 0, seq |-> 0, seg |-> 0,
           value |-> Zero]

\* Write payload blocks held by the batches of a file.
PayloadOf(batches, S) ==
  {p \in S \X (1..PackLimit) :
     /\ p[2] <= Len(batches[p[1]].data)
     /\ ~batches[p[1]].data[p[2]].zero}

\* Log.offset for a file holding these batches.
Used(batches) ==
  1 + Len(batches) + Cardinality(PayloadOf(batches, DOMAIN batches))

PrefixAt(s, k) == IF k = 0 THEN disk[s].preceding ELSE disk[s].batches[k].last
LastOf(s) == PrefixAt(s, Len(disk[s].batches))

\* t is the next member of S after s.
Adjacent(S, s, t) ==
  /\ s \in S /\ t \in S /\ s < t
  /\ \A u \in S : ~(s < u /\ u < t)

\* Where the files of S record mutation n, and the record.
Places(S, n) ==
  {p \in (S \cap DOMAIN disk) \X (1..Capacity) :
     /\ p[2] <= Len(disk[p[1]].batches)
     /\ Covers(disk[p[1]].batches[p[2]], n)}
Stored(S, n) ==
  LET p == CHOOSE p \in Places(S, n) : TRUE
  IN  At(disk[p[1]].batches[p[2]], n)
Recorded(S, lo, hi) == [n \in (lo + 1)..hi |-> Stored(S, n)]

-----------------------------------------------------------------------------
(* The log's own predicates                                                *)

Healthy == mode \in {"serving", "live", "fresh", "fence"} /\ ~failed
Rotating == job.kind \in {"prepared", "creating", "created"}
CoversFlush(boundary) == fenced /\ durable >= boundary

\* mutant: a rotation does not wait for the flush of the full segment
DrainedUnsynced == ~Rotating /\ cohort = NoCohort /\ issued = published

Drained ==
  /\ ~Rotating /\ cohort = NoCohort
  /\ issued = published /\ durable = published

Mapped == {b \in Blocks : index[b] # 0}

AppendCapacity ==
  (Intervals - Cardinality(Mapped)) \div 2 - (issued - published)

Fits(bt) == Used(Append(disk[current].batches, bt)) + 1 <= Capacity
FenceFits == Used(disk[current].batches) + 1 <= Capacity

\* The segment has no room for a one-block WRITE and its fence.
Full == Used(disk[current].batches) + 3 > Capacity

PunchedBatches(s) ==
  {i \in DOMAIN disk[s].batches : disk[s].batches[i].punched}
Allocated ==
  Cardinality(segs) * Capacity
    - Cardinality(UNION {{s} \X PayloadOf(disk[s].batches, PunchedBatches(s)) :
                           s \in segs \cap DOMAIN disk})

NextBatch(n) == Batch(n, SubSeq(history, issued + 1, n))

\* LiveRecovery replays one mutation per batch; its next batch does not fit.
ReplayBlocked == issued < Len(history) /\ ~Fits(NextBatch(issued + 1))

-----------------------------------------------------------------------------
(* Admission, append and publication                                       *)

\* The carrier assigns the next mutation ordinal to a guest WRITE or ZERO.
Admit(b, zero) ==
  /\ mode = "serving" /\ ~failed /\ attach # 0
  /\ Len(history) < MaxMutations
  /\ history' = Append(history, [block |-> b, zero |-> zero, epoch |-> attach])
  /\ live' = live \cup {Len(history) + 1}
  /\ UNCHANGED <<media, acked, attach, mode, failed, frontiers, memory, job,
                 plans, promised, crashes>>

PrepareAppend(n) ==
  /\ Healthy /\ mode \in {"serving", "live"}
  /\ cohort = NoCohort /\ ~Rotating
  /\ issued < n /\ n <= Len(history)
  /\ n - issued <= PackLimit /\ n - issued <= AppendCapacity
  /\ mode = "live" => issued = published /\ n = issued + 1 /\ FenceFits
  /\ Fits(NextBatch(n))
  /\ disk' = [disk EXCEPT ![current].batches = Append(@, NextBatch(n))]
  /\ issued' = n
  /\ UNCHANGED <<stub, highest, manifest, guest, mode, failed, published,
                 durable, fenced, cohort, memory, job, plans, promised,
                 crashes>>

\* A full aligned write completed, in any order among those outstanding.
WriteComplete(i) ==
  /\ mode # "down"
  /\ i \in DOMAIN disk[current].batches
  /\ disk[current].batches[i].st = "issued"
  /\ disk' = [disk EXCEPT ![current].batches[i].st = "written"]
  /\ UNCHANGED <<stub, highest, manifest, guest, mode, failed, frontiers,
                 memory, job, plans, promised, crashes>>

PublishAppend(i) ==
  /\ Healthy
  /\ i \in DOMAIN disk[current].batches
  /\ LET bt == disk[current].batches[i]
     IN  /\ bt.st = "written" /\ ~IsFence(bt)
         /\ First(bt) = published + 1
         /\ index' = [b \in Blocks |->
                        LET n == LastTouch(history, published, bt.last, b)
                        IN  IF n = 0 THEN index[b] ELSE n]
         /\ published' = bt.last
         /\ acked' = IF attach # 0 THEN bt.last ELSE acked
  /\ UNCHANGED <<media, history, live, attach, mode, failed, issued, durable,
                 fenced, cohort, base, segs, current, cursor, job, plans,
                 promised, crashes>>

\* The guest's descriptor is completed and its slot retired.
Retire(n) ==
  /\ mode = "serving" /\ ~failed /\ attach # 0
  /\ n \in live /\ n <= acked
  /\ live' = live \ {n}
  /\ UNCHANGED <<media, history, acked, attach, mode, failed, frontiers,
                 memory, job, plans, promised, crashes>>

-----------------------------------------------------------------------------
(* Flush cohorts                                                           *)

PrepareFence ==
  /\ Healthy /\ mode # "fresh"
  /\ cohort = NoCohort /\ ~Rotating /\ FenceFits
  /\ ~CoversFlush(issued)
  /\ mode = "live" =>
       issued = published /\ (issued = Len(history) \/ ReplayBlocked)
  /\ disk' = [disk EXCEPT ![current].batches = Append(@, Batch(issued, <<>>))]
  /\ cohort' = issued
  /\ UNCHANGED <<stub, highest, manifest, guest, mode, failed, published,
                 issued, durable, fenced, memory, job, plans, promised,
                 crashes>>

SyncAnytime == TRUE  \* mutant: the sync does not wait for the covered appends

\* No reserved append is unpublished.
SyncReady == issued = published /\ published = cohort

\* The cohort's fence is written and every covered append has published.
ReadyToSync ==
  /\ Healthy /\ cohort # NoCohort
  /\ \E i \in DOMAIN disk[current].batches :
       /\ IsFence(disk[current].batches[i])
       /\ disk[current].batches[i].st = "written"
  /\ SyncReady

Synced(batches) ==
  [i \in DOMAIN batches |->
     IF batches[i].st = "bad" THEN batches[i]
     ELSE [batches[i] EXCEPT !.st = "synced"]]

\* fdatasync reached the platter; its completion is not yet observed.
SyncData ==
  /\ ReadyToSync
  /\ disk' = [disk EXCEPT ![current].batches = Synced(@)]
  /\ UNCHANGED <<stub, highest, manifest, guest, mode, failed, frontiers,
                 memory, job, plans, promised, crashes>>

SyncUnchecked == TRUE  \* mutant: the result of fdatasync is not awaited

SyncSucceeded ==
  \A i \in DOMAIN disk[current].batches :
    disk[current].batches[i].st = "synced"

CompleteSync ==
  /\ Healthy /\ cohort # NoCohort
  /\ SyncReady /\ SyncSucceeded
  /\ durable' = cohort
  /\ fenced' = TRUE
  /\ cohort' = NoCohort
  /\ promised' = IF promised < cohort THEN cohort ELSE promised
  /\ UNCHANGED <<media, guest, mode, failed, published, issued, memory, job,
                 plans, crashes>>

\* An IO failure is terminal for this process.
Fail ==
  /\ Healthy
  /\ failed' = TRUE
  /\ UNCHANGED <<media, guest, mode, frontiers, memory, job, plans, promised,
                 crashes>>

-----------------------------------------------------------------------------
(* Rotation: prepared under the sequencer, created by the worker, installed *)
(* under the sequencer.                                                    *)

\* mutant: a full fence slot is not noticed
ReplayOnlyRolls == Drained /\ ReplayBlocked

\* Live recovery needs a segment: the final fence slot is taken, or the next
\* replayed mutation does not fit behind a completed flush.
ReplayRotates == ~FenceFits \/ (Drained /\ ReplayBlocked)

QuotaFits == Allocated + Capacity <= Staging

PrepareRotation(fresh) ==
  /\ Healthy /\ job = Idle
  /\ cohort = NoCohort /\ issued = published
  /\ CASE mode = "serving" ->
            /\ Drained
            /\ IF fresh
                 THEN /\ attach # 0 /\ live = {} /\ published = Len(history)
                      /\ CoversFlush(published)
                      /\ \A r \in Readers : ~plans[r].on
                 ELSE Full
       [] mode = "live" ->
            ~fresh /\ ReplayRotates
       [] mode = "fresh" -> fresh
       [] OTHER -> FALSE
  /\ QuotaFits
  /\ mode = "serving" => highest < MaxTickets
  /\ job' = [Idle EXCEPT !.kind = "prepared", !.fresh = fresh]
  /\ attach' = IF fresh THEN 0 ELSE attach
  /\ UNCHANGED <<media, history, live, acked, mode, failed, frontiers, memory,
                 plans, promised, crashes>>

\* The worker found no physical space and handed the preparation back.
CancelRotation ==
  /\ Healthy /\ mode = "serving" /\ job.kind = "prepared" /\ ~job.fresh
  /\ job' = Idle
  /\ UNCHANGED <<media, guest, mode, failed, frontiers, memory, plans,
                 promised, crashes>>

\* The name exists; its header is not durable yet.
BeginCreate ==
  /\ Healthy /\ job.kind = "prepared"
  /\ stub' = stub \cup {highest + 1}
  /\ job' = [job EXCEPT !.kind = "creating"]
  /\ UNCHANGED <<disk, highest, manifest, guest, mode, failed, frontiers,
                 memory, plans, promised, crashes>>

EpochOf(number) == IF job.fresh THEN number ELSE disk[current].epoch

\* Header, file and directory are synced; only now is the ticket assigned.
FinishCreate ==
  /\ job.kind = "creating"
  /\ LET number == highest + 1
         header == [epoch |-> EpochOf(number),
                    preceding |-> published, batches |-> <<>>]
     IN  /\ disk' = [s \in DOMAIN disk \cup {number} |->
                       IF s = number THEN header ELSE disk[s]]
         /\ stub' = stub \ {number}
         /\ highest' = number
  /\ job' = [job EXCEPT !.kind = "created"]
  /\ UNCHANGED <<manifest, guest, mode, failed, frontiers, memory, plans,
                 promised, crashes>>

InstallRotation ==
  /\ Healthy /\ job.kind = "created"
  /\ current' = highest
  /\ segs' = segs \cup {highest}
  /\ fenced' = FALSE
  /\ job' = Idle
  /\ mode' = IF mode = "fresh" THEN "fence" ELSE mode
  /\ UNCHANGED <<media, guest, failed, published, issued, durable, cohort,
                 index, base, cursor, plans, promised, crashes>>

\* A fresh carrier is exported only for a durable epoch and fence.
Attach ==
  /\ mode = "serving" /\ ~failed /\ attach = 0 /\ ~Rotating
  /\ CoversFlush(published) /\ durable = published
  /\ attach' = disk[current].epoch
  /\ acked' = published
  /\ UNCHANGED <<media, history, live, mode, failed, frontiers, memory, job,
                 plans, promised, crashes>>

-----------------------------------------------------------------------------
(* Compaction: select, load, publish chunks and manifest, publish D.        *)

\* The segments a scan visits, in ticket order.
Scanned(c) == {s \in segs : s >= c.seg}

\* The scan ends inside s: at E, or at a batch beyond the mapping bound.
Stops(s) ==
  \E i \in DOMAIN disk[s].batches :
    \/ PrefixAt(s, i - 1) = job.through
    \/ ~IsFence(disk[s].batches[i])
         /\ disk[s].batches[i].last - base.d > CompactLimit

\* Selection.load demands that it starts at or below D and that the segments
\* it visits are contiguous.
ScanError ==
  LET S == Scanned(job.cursor)
  IN  \/ /\ job.cursor = NoCursor
         /\ \E s \in S : (\A t \in S : s <= t) /\ disk[s].preceding > base.d
      \/ \E s, t \in S :
           /\ Adjacent(S, s, t)
           /\ \A u \in S : u < t => ~Stops(u)
           /\ disk[t].preceding # LastOf(s)

SelectCompaction ==
  /\ Healthy /\ mode = "serving" /\ job = Idle
  /\ base.d < durable
  /\ job' = [Idle EXCEPT
               !.kind = "selected", !.through = durable,
               !.cursor = IF cursor.seq = base.d /\ cursor.seg \in segs
                            THEN cursor ELSE NoCursor]
  /\ UNCHANGED <<media, guest, mode, failed, frontiers, memory, plans,
                 promised, crashes>>

\* Batch boundaries above D and no further than E.
Cuts ==
  {m \in (base.d + 1)..job.through :
     \E s \in Scanned(job.cursor) : \E i \in DOMAIN disk[s].batches :
       ~IsFence(disk[s].batches[i]) /\ disk[s].batches[i].last = m}

\* The longest prefix of whole batches within the mapping bound.
Cut ==
  CHOOSE m \in Cuts :
    /\ m - base.d <= CompactLimit
    /\ \A k \in Cuts : k - base.d <= CompactLimit => k <= m

\* Segment of the last batch read: the scan stops at E before reading on, or
\* at the batch that would exceed the bound.
ScanEnd(m) ==
  Greatest({s \in Scanned(job.cursor) :
              \E i \in DOMAIN disk[s].batches :
                IF m = job.through THEN Covers(disk[s].batches[i], m)
                                   ELSE disk[s].batches[i].last <= m})

Readable(m) ==
  \A n \in (base.d + 1)..m :
    \E p \in Places(Scanned(job.cursor), n) :
      ~disk[p[1]].batches[p[2]].punched /\ disk[p[1]].batches[p[2]].st # "bad"

LoadCompaction ==
  /\ Healthy /\ job.kind = "selected"
  /\ ~ScanError /\ Cut \in Cuts /\ Readable(Cut)
  /\ job' = [job EXCEPT
               !.kind = "loaded",
               !.view = Apply(base, Recorded(Scanned(job.cursor), base.d, Cut),
                              Cut),
               !.cursor = [seg |-> ScanEnd(Cut), seq |-> Cut]]
  /\ UNCHANGED <<media, guest, mode, failed, frontiers, memory, plans,
                 promised, crashes>>

\* A worker error fails the image.
LoadError ==
  /\ Healthy /\ job.kind = "selected"
  /\ ScanError
  /\ failed' = TRUE
  /\ job' = Idle
  /\ UNCHANGED <<media, guest, mode, frontiers, memory, plans, promised,
                 crashes>>

\* The governor has no space for the output.
DeferCompaction ==
  /\ Healthy /\ job.kind = "loaded"
  /\ job' = Idle
  /\ UNCHANGED <<media, guest, mode, failed, frontiers, memory, plans,
                 promised, crashes>>

\* Chunks, then the manifest commit, are durable.  A failure after the worker
\* looked at the health gate does not stop its output.
PublishManifest ==
  /\ job.kind = "loaded"
  /\ manifest' = job.view
  /\ job' = [job EXCEPT !.kind = "output"]
  /\ UNCHANGED <<disk, stub, highest, guest, mode, failed, frontiers, memory,
                 plans, promised, crashes>>

Reclamation(view) ==
  [Idle EXCEPT
     !.kind = "punch", !.view = view,
     !.oldest = Least(live),
     !.todo = {s \in segs : disk[s].preceding <= view.d}]

\* mutant: the mapping at the cut itself survives
RetainFrom(d) == [b \in Blocks |-> IF index[b] >= d THEN index[b] ELSE 0]

\* Index.retain_after: the base view supplies what D covers.
RetainAfter(d) == [b \in Blocks |-> IF index[b] > d THEN index[b] ELSE 0]

PublishCompaction ==
  /\ Healthy /\ job.kind = "output"
  /\ index' = RetainAfter(job.view.d)
  /\ base' = job.view
  /\ cursor' = job.cursor
  /\ job' = Reclamation(job.view)
  /\ UNCHANGED <<media, guest, mode, failed, frontiers, segs, current, plans,
                 promised, crashes>>

-----------------------------------------------------------------------------
(* Reclamation                                                             *)

\* Port.retry: an earlier pass left pinned batches or older segments behind.
SelectReclamation ==
  /\ Healthy /\ mode = "serving" /\ job = Idle
  /\ durable = base.d /\ Cardinality(segs) > 1
  /\ job' = Reclamation(base)
  /\ UNCHANGED <<media, guest, mode, failed, frontiers, memory, plans,
                 promised, crashes>>

Unpinned(s, i) == FALSE  \* mutant: reclamation ignores batch pins

Pinned(s, i) ==
  \E r \in Readers : /\ plans[r].on /\ plans[r].seg = s
                     /\ Covers(disk[s].batches[i], plans[r].seq)
ReadersOf(s) == {r \in Readers : plans[r].on /\ plans[r].seg = s}

NextSegment(s) == s \in job.todo /\ \A t \in job.todo : s <= t

PunchSegment(s) ==
  /\ job.kind = "punch" /\ NextSegment(s)
  /\ disk' = [disk EXCEPT ![s].batches =
                [i \in DOMAIN @ |->
                   IF /\ HasPayload(@[i]) /\ @[i].last <= job.view.d
                      /\ ~Pinned(s, i)
                   THEN [@[i] EXCEPT !.punched = TRUE] ELSE @[i]]]
  /\ job' = [job EXCEPT !.kind = "unlink"]
  /\ UNCHANGED <<stub, highest, manifest, guest, mode, failed, frontiers,
                 memory, plans, promised, crashes>>

\* mutant: inflight identities are forgotten
RemovableLive(s) == LastOf(s) <= job.view.d /\ s # current /\ s < highest

Removable(s) ==
  /\ LastOf(s) <= job.view.d
  /\ s # current /\ s < highest
  /\ job.oldest = 0 \/ LastOf(s) < job.oldest
  /\ ReadersOf(s) = {}

UnlinkSegment(s) ==
  /\ job.kind = "unlink" /\ NextSegment(s)
  /\ disk' = IF Removable(s) THEN [t \in DOMAIN disk \ {s} |-> disk[t]]
                             ELSE disk
  /\ job' = [job EXCEPT !.kind = "punch", !.todo = @ \ {s}]
  /\ UNCHANGED <<stub, highest, manifest, guest, mode, failed, frontiers,
                 memory, plans, promised, crashes>>

ApplyReclamation ==
  /\ Healthy /\ job.kind = "punch" /\ job.todo = {}
  /\ segs' = segs \cap DOMAIN disk
  /\ job' = Idle
  /\ UNCHANGED <<media, guest, mode, failed, frontiers, index, base, current,
                 cursor, plans, promised, crashes>>

-----------------------------------------------------------------------------
(* Reads                                                                   *)

\* Capture the newest staged mapping, pinning its batch, or the base view.
ReadPlan(r, b) ==
  /\ Healthy /\ mode = "serving" /\ ~plans[r].on
  /\ LET n == index[b]
         staged == n # 0 /\ ~history[n].zero
     IN  \E s \in IF staged THEN {p[1] : p \in Places(segs, n)} ELSE {0} :
           plans' = [plans EXCEPT ![r] =
             [on |-> TRUE, block |-> b, upto |-> published,
              seq |-> IF staged THEN n ELSE 0, seg |-> s,
              value |-> IF n = 0 THEN base.map[b] ELSE Zero]]
  /\ UNCHANGED <<media, guest, mode, failed, frontiers, memory, job, promised,
                 crashes>>

ReadDone(r) ==
  /\ mode = "serving" /\ plans[r].on
  /\ plans' = [plans EXCEPT ![r] = NoPlan]
  /\ UNCHANGED <<media, guest, mode, failed, frontiers, memory, job, promised,
                 crashes>>

-----------------------------------------------------------------------------
(* Crashes                                                                 *)

Unsynced(power) ==
  {p \in (DOMAIN disk) \X (1..Capacity) :
     /\ p[2] <= Len(disk[p[1]].batches)
     /\ disk[p[1]].batches[p[2]].st \in
          IF power THEN {"issued", "written"} ELSE {"issued"}}

\* After the crash a batch is intact or bad; after a power loss what is intact
\* is on the platter.
Settle(bt, lost, power) ==
  [bt EXCEPT !.st = CASE lost -> "bad"
                      [] ~lost /\ power /\ @ # "bad" -> "synced"
                      [] ~lost /\ ~power /\ @ = "issued" -> "written"
                      [] OTHER -> @]

\* The daemon dies, or (power) the whole host.  The carrier survives only the
\* former, and is of no use once it was marked FAILED.
Crash(power, lost, gone) ==
  /\ crashes < MaxCrashes
  /\ power \/ mode # "down"
  /\ lost \subseteq Unsynced(power)
  /\ gone \subseteq stub /\ (power \/ gone = {})
  /\ disk' = [s \in DOMAIN disk |->
                [disk[s] EXCEPT !.batches =
                   [i \in DOMAIN @ |-> Settle(@[i], <<s, i>> \in lost, power)]]]
  /\ stub' = stub \ gone
  /\ highest' = IF job.kind = "creating" /\ gone = {} THEN highest + 1
                                                      ELSE highest
  /\ LET kept == attach # 0 /\ ~power /\ ~failed
     IN  /\ attach' = IF kept THEN attach ELSE 0
         /\ live' = IF kept THEN live ELSE {}
         /\ acked' = IF kept THEN acked ELSE 0
  /\ mode' = "down" /\ failed' = FALSE
  /\ published' = 0 /\ issued' = 0 /\ durable' = 0
  /\ fenced' = FALSE /\ cohort' = NoCohort
  /\ index' = [b \in Blocks |-> 0] /\ base' = EmptyView
  /\ segs' = {} /\ current' = 0 /\ cursor' = NoCursor
  /\ job' = Idle /\ plans' = [r \in Readers |-> NoPlan]
  /\ crashes' = crashes + 1
  /\ UNCHANGED <<manifest, history, promised>>

-----------------------------------------------------------------------------
(* Recovery: read-only inspection, repair, then fresh or live              *)

\* Inspection accepts a batch whose header and needed payload verify.
Accepts(bt) ==
  /\ bt.st # "bad"
  /\ bt.last > manifest.d /\ HasPayload(bt) => ~bt.punched

Rejects(s) == \E i \in DOMAIN disk[s].batches : ~Accepts(disk[s].batches[i])

\* Number of batches of file s accepted before the first rejected one.
Goods(s) ==
  {k \in 0..Len(disk[s].batches) :
     /\ \A i \in 1..k : Accepts(disk[s].batches[i])
     /\ k < Len(disk[s].batches) => ~Accepts(disk[s].batches[k + 1])}
Good(s) == Greatest(Goods(s))

\* Files up to and including the first rejected one that has a header.
Kept ==
  {s \in DOMAIN disk :
     /\ \A t \in stub : s < t
     /\ \A t \in DOMAIN disk : t < s => ~Rejects(t)}

Newest == Greatest(Kept)
Prefix == PrefixAt(Newest, Good(Newest))

\* Inspection fits its intervals: two nodes per replayed descriptor.
NodesFit ==
  LET h == Recorded(Kept, manifest.d, Prefix)
  IN  \A s \in Kept : \A i \in 1..Good(s) :
        LET bt == disk[s].batches[i]
        IN  bt.last > manifest.d /\ ~IsFence(bt) =>
              Cardinality({b \in Blocks :
                             LastTouch(h, manifest.d, bt.last - Len(bt.data), b)
                               # 0}) + 2 * Len(bt.data) <= Intervals

\* Log::inspect_in and replay_one raise no error.
InspectOk ==
  /\ \E s \in Kept : /\ \A t \in DOMAIN disk \cup stub : s <= t
                     /\ disk[s].preceding <= manifest.d
  /\ \A s, t \in Kept : Adjacent(Kept, s, t) =>
       /\ disk[t].preceding = LastOf(s)
       /\ disk[s].epoch <= disk[t].epoch
  /\ Prefix >= manifest.d
  /\ \A s \in Kept : \A i \in 1..Good(s) :
       LET bt == disk[s].batches[i]
       IN  ~(~IsFence(bt) /\ First(bt) <= manifest.d /\ manifest.d < bt.last)
  /\ NodesFit

\* Recovery::prepare_live and verify_identities raise no error.
LiveOk ==
  /\ acked <= Prefix
  /\ attach = disk[Newest].epoch
  /\ Prefix <= Len(history)
  /\ (Prefix + 1)..Len(history) \subseteq live
  /\ \A n \in live : n <= Prefix =>
       \E p \in Places(Kept, n) :
         p[2] <= Good(p[1]) /\ At(disk[p[1]].batches[p[2]], n) = history[n]

Inspect ==
  /\ mode = "down" /\ InspectOk
  /\ Newest \in Kept /\ Good(Newest) \in Goods(Newest)
  /\ attach # 0 => LiveOk
  /\ mode' = "repair"
  /\ published' = Prefix /\ issued' = Prefix
  /\ index' = [b \in Blocks |->
                 LastTouch(Recorded(Kept, manifest.d, Prefix), manifest.d,
                           Prefix, b)]
  /\ base' = manifest
  /\ segs' = Kept /\ current' = Newest
  /\ LET at == {s \in Kept : \E i \in 1..Good(s) :
                               PrefixAt(s, i) = manifest.d}
     IN  cursor' = IF at = {} THEN NoCursor
                   ELSE [seg |-> Greatest(at), seq |-> manifest.d]
  /\ UNCHANGED <<media, guest, failed, durable, fenced, cohort, job, plans,
                 promised, crashes>>

\* Rejected files are repaired oldest first, each step synced.
Doomed ==
  {s \in DOMAIN disk : s > current \/ (s = current /\ Rejects(s))} \cup stub

RepairFile(s) ==
  /\ mode = "repair"
  /\ s \in Doomed /\ \A t \in Doomed : s <= t
  /\ IF s = current
       THEN disk' = [disk EXCEPT ![s].batches = Synced(SubSeq(@, 1, Good(s)))]
       ELSE disk' = [t \in DOMAIN disk \ {s} |-> disk[t]]
  /\ stub' = stub \ {s}
  /\ UNCHANGED <<highest, manifest, guest, mode, failed, frontiers, memory,
                 job, plans, promised, crashes>>

Truncate(h, k) == IF k < Len(h) THEN SubSeq(h, 1, k) ELSE h

\* Every retained file is synced.  A cold start forgets what did not survive.
StartRecovered ==
  /\ mode = "repair" /\ Doomed = {}
  /\ disk' = [s \in DOMAIN disk |->
                [disk[s] EXCEPT !.batches = Synced(@)]]
  /\ mode' = IF attach = 0 THEN "fresh" ELSE "live"
  /\ history' = IF attach = 0 THEN Truncate(history, published) ELSE history
  /\ UNCHANGED <<stub, highest, manifest, live, acked, attach, failed,
                 frontiers, memory, job, plans, promised, crashes>>

\* Replay is complete and the recovery fence is durable.
FinishRecovery ==
  /\ Healthy /\ mode \in {"live", "fence"} /\ job = Idle
  /\ issued = Len(history) /\ published = issued /\ CoversFlush(published)
  /\ mode' = "serving"
  /\ UNCHANGED <<media, guest, failed, frontiers, memory, job, plans, promised,
                 crashes>>

-----------------------------------------------------------------------------
Init ==
  /\ disk = [s \in {1} |-> [epoch |-> 1, preceding |-> 0, batches |-> <<>>]]
  /\ stub = {} /\ highest = 1 /\ manifest = EmptyView
  /\ history = <<>> /\ live = {} /\ acked = 0 /\ attach = 0
  /\ mode = "serving" /\ failed = FALSE
  /\ published = 0 /\ issued = 0 /\ durable = 0
  /\ fenced = FALSE /\ cohort = NoCohort
  /\ index = [b \in Blocks |-> 0] /\ base = EmptyView
  /\ segs = {1} /\ current = 1 /\ cursor = NoCursor
  /\ job = Idle /\ plans = [r \in Readers |-> NoPlan]
  /\ promised = 0 /\ crashes = 0

AppendStep ==
  \/ \E n \in 1..MaxMutations : PrepareAppend(n)
  \/ \E i \in 1..Capacity : WriteComplete(i) \/ PublishAppend(i)
  \/ PrepareFence \/ SyncData \/ CompleteSync

GuestStep ==
  \/ \E b \in Blocks, zero \in Kinds : Admit(b, zero)
  \/ \E n \in live : Retire(n)
  \/ Attach
  \/ \E r \in Readers : ReadDone(r) \/ \E b \in Blocks : ReadPlan(r, b)

WorkerStep ==
  \/ \E fresh \in BOOLEAN : PrepareRotation(fresh)
  \/ CancelRotation \/ BeginCreate \/ FinishCreate \/ InstallRotation
  \/ SelectCompaction \/ LoadCompaction \/ LoadError \/ DeferCompaction
  \/ PublishManifest \/ PublishCompaction
  \/ SelectReclamation \/ ApplyReclamation
  \/ \E s \in job.todo : PunchSegment(s) \/ UnlinkSegment(s)

RecoveryStep ==
  \/ Inspect \/ StartRecovered \/ FinishRecovery
  \/ mode = "repair" /\ \E s \in Doomed : RepairFile(s)

CrashStep ==
  \E power \in BOOLEAN : \E lost \in SUBSET Unsynced(power) :
    \E gone \in SUBSET stub : Crash(power, lost, gone)

Next ==
  AppendStep \/ GuestStep \/ WorkerStep \/ RecoveryStep \/ Fail \/ CrashStep

Spec == Init /\ [][Next]_vars

-----------------------------------------------------------------------------
(* Properties                                                              *)

Mutation == [block : Blocks, zero : BOOLEAN, epoch : Nat]
ValueType == Nat \X Nat
BatchType ==
  [last : Nat, data : Seq(Mutation),
   st : {"issued", "written", "synced", "bad"}, punched : BOOLEAN]
SegmentType == [epoch : Nat, preceding : Nat, batches : Seq(BatchType)]
ViewType == [d : Nat, map : [Blocks -> ValueType]]
CursorType == [seg : Nat, seq : Nat]
JobType ==
  [kind : {"idle", "prepared", "creating", "created", "selected", "loaded",
           "output", "punch", "unlink"},
   fresh : BOOLEAN, through : Nat, view : ViewType, cursor : CursorType,
   oldest : Nat, todo : SUBSET Nat]
PlanType ==
  [on : BOOLEAN, block : Blocks \cup {0}, upto : Nat, seq : Nat, seg : Nat,
   value : ValueType]

DiskOK ==
  /\ DOMAIN disk \subseteq Nat /\ disk \in [DOMAIN disk -> SegmentType]
  /\ stub \subseteq Nat /\ highest \in Nat /\ manifest \in ViewType

GuestOK ==
  /\ history \in Seq(Mutation) /\ live \subseteq Nat
  /\ acked \in Nat /\ attach \in Nat
  /\ plans \in [Readers -> PlanType]

LogOK ==
  /\ mode \in {"serving", "down", "repair", "live", "fresh", "fence"}
  /\ failed \in BOOLEAN
  /\ published \in Nat /\ issued \in Nat /\ durable \in Nat
  /\ fenced \in BOOLEAN /\ cohort \in Nat \cup {NoCohort}
  /\ index \in [Blocks -> Nat] /\ base \in ViewType
  /\ segs \subseteq Nat /\ current \in Nat /\ cursor \in CursorType
  /\ promised \in Nat /\ crashes \in Nat

\* The segment being appended to exists, also the one about to be installed;
\* the worker starts after recovery.
CurrentOK ==
  /\ mode # "down" => current \in DOMAIN disk
  /\ job.kind = "created" => highest \in DOMAIN disk
  /\ mode \in {"down", "repair"} => job = Idle

\* Every variable has the shape the log's structs give it, and the segment
\* being appended to exists.
TypeOK == DiskOK /\ GuestOK /\ LogOK /\ job \in JobType /\ CurrentOK

\* While serving D <= E <= P <= issued, also with a manifest commit
\* on disk that publish_compaction has not installed yet.
FrontierOrder ==
  mode = "serving" =>
    /\ base.d <= manifest.d /\ manifest.d <= durable
    /\ durable <= published /\ published <= issued

\* The index over the base view is exactly the published image, whatever
\* compaction, reclamation and recovery did, and every staged payload it maps
\* is still readable in a retained segment.
ViewExact ==
  mode \notin {"down", "repair"} =>
    \A b \in Blocks :
      LET n == index[b]
      IN  /\ Content(published)[b] = IF n = 0 THEN base.map[b]
                                     ELSE Value(n, history[n])
          /\ n # 0 /\ ~history[n].zero =>
               \E p \in Places(segs, n) :
                 /\ ~disk[p[1]].batches[p[2]].punched
                 /\ At(disk[p[1]].batches[p[2]], n) = history[n]

\* A captured read returns the image as published at its capture: its payload
\* is neither punched, unlinked nor replaced before the read completes.
ReadsSeeSnapshot ==
  \A r \in Readers : plans[r].on =>
    LET plan == plans[r]
        expect == Content(plan.upto)[plan.block]
    IN  IF plan.seq = 0 THEN plan.value = expect
        ELSE \E p \in Places({plan.seg}, plan.seq) :
               /\ ~disk[p[1]].batches[p[2]].punched
               /\ Value(plan.seq, At(disk[p[1]].batches[p[2]], plan.seq))
                    = expect

\* What a FLUSH reported durable is recovered after any crash, with the
\* contents it had.
FlushedSurvives ==
  mode = "down" =>
    /\ Kept # {} /\ Prefix >= promised
    /\ manifest.map = Content(manifest.d)
    /\ \A n \in (manifest.d + 1)..Prefix : Stored(Kept, n) = history[n]

\* Inspection never refuses the files a crash at any instant leaves behind.
RecoveryOpens == mode = "down" => InspectOk

\* A carrier that survives a daemon crash is always accepted by live recovery:
\* every acknowledged mutation is recovered, every missing one has an owner,
\* and the identity of every inflight mutation is still on disk.
LiveRecoverable == mode = "down" /\ attach # 0 => LiveOk

\* A crash loses nothing a guest was promised: flushed data is recovered with
\* its contents, and a retained carrier is accepted (Log::inspect_in,
\* Recovery::prepare_live).
CrashLosesNothing == FlushedSurvives /\ LiveRecoverable

\* The scan of a selected compaction meets no gap and no punched payload.
CompactionReadable ==
  job.kind = "selected" /\ ~failed => ~ScanError /\ Cuts # {} /\ Readable(Cut)

Abstract == INSTANCE DurableImage WITH
  Mutations <- [block : Blocks, zero : Kinds, epoch : Nat \ {0}],
  log <- history,
  pub <- IF mode = "serving" THEN published ELSE 0,
  dur <- promised,
  up <- mode = "serving",
  held <- attach # 0

\* The log, its worker, crashes and both recoveries implement the image: reads
\* see a prefix, FLUSH survives every crash, a retained carrier loses nothing.
ImplementsImage == Abstract!ASpec
=============================================================================
