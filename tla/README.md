# Verification of the cas block store

`cas` is a vhost-user block daemon: virtual machines see a disk, the daemon
keeps it as a write-ahead log (staging) over a content-addressed store. This
directory holds TLA+ models of its core, TLC configurations and TLAPS proofs.
Paths below are relative to `src/crates/cas`: `core` is the storage library,
`daemon` the vhost-user process.

## 1. The system

A guest write travels: virtqueue -> frontend -> inflight carrier (gets an
ordinal) -> staging log (batched, written with io_uring, published) -> guest.
A FLUSH adds a fence batch and an `fdatasync`. A background worker rotates
full segments, compacts the durable prefix of the log into chunks and a
manifest commit, and reclaims the log below it. After a crash the next daemon
inspects and repairs the log; when only the daemon died, QEMU still holds the
carrier and the unpublished writes are replayed from it. One process serves
all images of a catalog: each image has a frontend thread, a service thread for
its socket and an io_uring reactor thread; all share one background owner, the
caches, the admission scheduler and a gate that fails them together.

Three numbers order everything (`docs/storage-design.md`): `P`, the published
prefix of the mutations; `E`, the prefix a FLUSH made durable; `D`, the prefix
the manifest holds. `D <= E <= P` while serving.

### Components

| component | source | state | operations | what is hard |
|---|---|---|---|---|
| Staging log | `core/src/append/*` | segment files, `P`, `E`, issued, index, base view, cursor | append, publish, flush, rotate, compact, reclaim, read, recover | completion order; crashes in every step; reads against reclamation; repair interrupted by a crash |
| Interval index | `core/src/append/index.rs` | ordered intervals in a fixed node table | publish, retain, lookup | splitting at both ends, capacity |
| Tickets, staging directory | `core/src/segments.rs` | highest ticket, file names | create, remove, recover | name durable before content; shared by images |
| Background worker | `daemon/src/local/host/worker.rs` | one transaction at a time | rotate, compact, reclaim, collect, snapshot | transaction order; space refusals; fairness |
| Inflight carrier | `daemon/src/inflight*` | shared memory with QEMU: counters, ring cursors, one slot per descriptor | discover, admit, publish, complete, fail, reconcile | death between any two stores, also during repair; 16 bit cursors |
| Frontend | `daemon/src/backend/*` | discovered requests, waiting entries with tickets, admitted requests | discover, poll, admit, refuse, complete | reads overtaking blocked writes; tickets gone stale; several queues |
| IO reactor | `daemon/src/local.rs`, `daemon/src/local/{window,reactor}*` | submission window, command mailbox, slots, pending owners, rings | admit, pack, dispatch, publish, fence, pause, attach, cancel, drop | completions out of order; a wait that nothing ends; owners of buffers the kernel still uses; the error paths |
| Lifecycle and session | `daemon/src/{service,host_service}.rs`, `daemon/src/backend/*`, `daemon/src/local/host/recovery*` | service thread per image, recovery thread, supervisor, deadline | connect, negotiate, collect carriers, repair, activate, drain, cancel | images that recover together or not at all; peers that leave, change or reboot at any step |
| Chunk store | `core/src/store/*` | chunk segments, table | put, get, collect | torn tails, collection against readers |
| Manifest | `core/src/manifest/*` | appended transactions, copy-on-write tree, pins | commit, pin, snapshot, reclaim | torn commits, pages shared with pinned views |
| Host admission | `daemon/src/local/host/{fair,admission}.rs`, `daemon/src/local/pools.rs` | heads and deficit per image, the turn, credits, pause | ticket, turn, commit, release, pause | releases racing refusals, lost wakes, byte fairness |
| Shared host | `daemon/src/local/host/*` | images, capacity, quiescence | select, collect, snapshot | fairness, collection needs every image quiet |
| Budgets and space | `core/src/budget*`, `core/src/space*` | leases, reservations, quota | reserve, commit, release | counters at their limits, release on every error path |
| Cache | `core/src/cache/*` | entries, fills | lookup, fill, evict | several fills of one key |
| Scheduler, deadlines | `core/src/scheduler.rs`, `daemon/src/deadline.rs` | queues, timers | pick, expire | a timeout racing its answer |
| Catalog | `core/src/catalog*` | image roots | publish, reopen | crash between publication steps |

Components interact by calls under the image's sequencer lock (frontend ->
log), by one-slot mailboxes between each reactor and the one background owner of
the host, by command channels and eventfds (frontend -> reactor), by shared
memory that outlives the process (daemon <-> QEMU) and by files that outlive the
host.
`PROJECT.json` lists all components, also the ones that are not modelled, and
the hazards with the line where each one bites.

## 2. Modules

| module | role |
|---|---|
| `AppendLog` | staging log of one image, its background worker, crashes, cold and live recovery |
| `DurableImage` | abstract specification: what an image promises its guest |
| `MCAppendLog` | instances for TLC, `NeverStuck` |
| `LogProofs` | machine-checked proofs about `AppendLog`: types, frontiers, files and crashes, what reads see and the refinement |
| `Inflight` | the carrier shared with QEMU, store by store |
| `ChunkStore` | chunk files of the host: insertion, readers, copying collection, crashes, recovery |
| `Manifest` | the manifest file of an image and its snapshot: transactions, pinned views, page reclamation, crashes, recovery |
| `Frontend` | admission of guest requests on a shared host: frontiers, byte-fair scheduler, credits, WAL room, pause |
| `MCFrontend` | the guests of its instances |
| `Reactor` | queue thread, WAL window and io_uring reactor of one image, with the faults they handle |
| `Exchange` | the mailbox protocol between the background owner and the reactors of all images: turns, quiescing, collection, snapshots |
| `Fetch` | reads of stored blocks by several images: verified cache, single-flight registry, bulk scheduler |
| `Session` | a host process from start to end: recovery of all images, connections, services, supervisor, crashes |
| `SessionProofs`, `StoreProofs`, `ManifestProofs`, `FetchProofs`, `FrontendProofs`, `ExchangeProofs`, `ReactorProofs` | machine-checked proofs about `Session`, `ChunkStore`, `Manifest`, `Fetch`, `Frontend`, `Exchange` and `Reactor` |

The modules meet in a few named facts. `AppendLog` assumes an atomic manifest
commit (`Manifest!PublishedSurvives`) and an owner for every unpublished
mutation (`Inflight!OrdinalsOwned`). `Reactor` sees worker and collector only
as the exchanges of its port, which `Exchange` models from both sides, and
`Exchange` takes from `Reactor` that a healthy image acknowledges a pause
(`EverythingReturns`). `Session` counts mutations where `AppendLog` and
`Inflight` model how they are stored.

### AppendLog

State corresponds to the code field by field: `disk` maps tickets to segment
files (header epoch, preceding sequence, batches with a durability status),
`stub` are names whose header never became durable, `highest` is
`Tickets.highest`, `manifest` the selected commit; `published`, `issued`,
`durable`, `fenced`, `cohort`, `index`, `base`, `segs`, `current`, `cursor`
are the members of `Log`; `job` is the transaction of the image's one
background owner; `plans` are captured reads. `history`, `live`, `acked` and
`attach` are what the guest and the carrier remember.

Data is abstracted: a mutation covers one block, its payload is its identity
(sequence number, epoch), a batch on disk is intact or bad. The geometry is
kept: every size is counted in 4 KiB blocks, so that segments fill up, quotas
bind, and the fence slot at the end of a segment matters.

An action is one critical section under the sequencer, or one durable step
outside it. Thus a flush is `PrepareFence`, `WriteComplete`, `SyncData`,
`CompleteSync`; a compaction `SelectCompaction`, `LoadCompaction`,
`PublishManifest`, `PublishCompaction`; and appends, reads, failures and
crashes fall between them. `Crash` distinguishes the death of the daemon
(written data stays in the page cache, the carrier survives) from the loss of
the host (any unsynced batch may be gone, and so is the carrier).
Recovery is `Inspect` (read only), `RepairFile` per rejected file,
`StartRecovered`, then either a fresh epoch or the replay of the carrier.

The manifest is one atomic durable commit here; `Manifest` shows what that
rests on.

### DurableImage

Five variables: the accepted mutations, the published and the durable prefix,
whether the image is served, and whether the guest holds its carrier. Only
without the carrier may mutations be forgotten, and never below what a FLUSH
reported. `ImplementsImage` says that `AppendLog` is this: `log` is the
history, `pub` is `P` while the image serves and 0 otherwise, `dur` the greatest
`E` ever reported. An admission is `Accept`, a publication `Publish`, a cohort
that reports more `Flush`; a carrier handed out or taken back is `Exchange`, a
crash `Stop`, a cold start that drops a tail `Forget`, the end of recovery
`Resume`. Every other step, in particular all of compaction and reclamation, is
a stutter.

### Inflight

Every operation checks its conditions and then fixes a list of Release
stores, `todo`; `Store` performs one, `Crash` may come between any two. Repair
(`Reconcile`) is a list of stores of its own and can be interrupted as well.
The ring cursors wrap at `Wrap` (2^16 in the code). The guest's rings, which
the vendored virtio crates handle, are modelled from how the daemon uses them.
The operations exclude each other, as they do under the completion gate.

`AppendLog` takes from the carrier that every unpublished mutation has an owner
(`LiveOk`); `Inflight` shows it of the carrier (`OrdinalsOwned`).

### ChunkStore

`disk` maps a ticket to the batches of its chunk file; `segs`, `sealed`,
`index`, `marked`, `failed` and `collecting` are `State` and its index,
`highest` the ticket counter shared with the staging logs (`others`). `roots`
is what the manifests of images and snapshots refer to, `readers` the views and
file pins of guest reads. The one background owner runs either an output
(`Insert`, `BeginCreate`, `FinishCreate`, `WriteBatch`, `SyncBatch`,
`PublishBatch`, then `Commit` of the manifest) or a collection
(`BeginCollection`, `Mark`, `FinishMarking`, per victim `StartVictim`,
`CopyBatch` and the same output steps, `TrimGreatest` or `UnlinkVictim` and
`ForgetVictim`, then `FinishCollection`).

A chunk is its hash, a batch a set of hashes, an address a segment and a batch;
a file counts blocks, so that batches fit or need a new file. An unlink is
durable only after the directory is synced: until then a crash may bring the
file back (`unlinked`). Syncing a new file makes its name durable, as on XFS,
the file system the deployment prescribes.

### Manifest

A file is a sequence of pages. A transaction is written behind the committed end
in one write: some tree pages, then the COMMIT page (`BeginPublish`), synced
and taken over by the owner (`FinishPublish`), and only later handed to the log
(`InstallBase`), so that reads go on capturing the older view in between. The
tree editor is abstracted to the pages of the old tree that the new one keeps,
any subset, and a number of new pages. A page knows which transaction wrote it:
the code cannot see that, the properties compare it, and so a tree completed by
pages of another transaction counts as damage.

`BeginReclaim`, `Punch`, `FinishReclaim` are `reclaim_pages` of an image or of a
snapshot, a hole at a time. `BeginSnapshot`, `SyncSnapshot`, `PublishSnapshot`
are `Owner::snapshot` from the reflink to the catalog entry. `Crash` keeps or
loses every unsynced page and every unsynced hole separately. `Inspect` is the
backward scan of `select` with the verification of the snapshot, `Recover` the
cut and the sync. The catalog is one atomic entry; the image is served again
when both files are recovered.

`PublishedSurvives` is what `AppendLog` assumes of its manifest commit: after
any crash, the published transaction or the one being written, never less and
never a mixture.

### Frontend

`frontier`, `orders` are `Frontier`; `slots` are the `Waiting` entries of the
queue heads and of the read candidates, by the discovery order of the request;
`fair` is `fair::State`, `wal` the admission window, `host` the status of the
host's gate. `pending` are the requests that hold a permit, `packed` those of
the open append batch, `done` those whose completion is in the mailbox.
`wake` is the eventfd of a frontend.

A frontend is one thread; `pass` is its place in `Backend::process`. Its steps
are the pieces between shared locks: `StartPass` (retire completions, discover
the first queue), `NextQueue`, `EndPass` (submit), and for a candidate `GiveUp`
(drop a stale ticket), `Poll` (ticket and turn), then `Admit`, or `Deny`
(reservation fails) and `Refuse` (turn dropped). `Deny` and `Refuse` are apart
because a release may fall between them, which `released_during_turn` is for.
`Complete` is the reactor, `MayRotate`, `Rotate`, `Reopen` the rotation, which
tells the scheduler before it opens the window. `Pause`, `Begin`, `Resume` are
`Quiescence`.

`choose` is a loop that changes the deficit, the cursor and `replenish`;
`Choose` is its closed form: `Served` are the iterations at which it can stop,
`Searched` what the iterations before left.

A ticket is named by its slot and the order of its request in place of a global
counter; as in the code it is found in its queue by position. The several budgets of a pool are one credit per request; append
credits, index pressure and the pressure of staging and physical space are
left out, as reasons to wait that behave like the credits and the room.
Requests touch one block. Pauses and attachments of one image are in `Reactor`,
changes of queues and memory in `Session`.

### Reactor

`front` is `Local` (the open batch, the admitted mutations, the pause or
attachment the queue thread waits for), `mailbox` the command channel, `win` is
`Window.state`, `port` is `Port`, `health` the completion gate, `re` the
`Reactor` with its queue of commands, its pending owners, its fence and its
phase. `kernel` are the tokens whose buffers the kernel may still touch, `cqes`
the completions it posted, `wake` the two eventfds. Of the log only frontiers
and geometry are kept. `answer` collects every completion a request gets.

The queue thread is `Mutate`, `Enqueue`, `Seal`, `Barrier`, `Resume`, `Close`;
a pass of the reactor is cut where another thread can step in between:
`TakeCommand` for each command of the mailbox, `Receive`, `PollEvent`,
`PollTurn`, `PublishAppend`, `Finish`, one `Dispatch...` per command,
`StartRead`, `SubmitBulk`, then sleep. Failure is `Reject`; an error the reactor
cannot attribute is `Stop`, which closes the mailbox, `TakeCommand` until that
is empty, `RejectClosed`, and `Drop`, which waits for every CQE of the kernel.
`Complete`, `Grant`, `WorkerIO`, `Hold` stand for kernel, scheduler, worker and
collector; `FailGate`, `BarrierTimeout`, failed CQEs and refused barriers are
the faults.

The sleep is where this code is hardest: the reactor waits without a timeout
when `Active` finds nothing to do, so anything it forgets is forgotten for good.
`EverythingReturns` is that no request, pause, attachment or quiescence is.

What the model shows besides the properties:

* A READ answered in the same pass that meets a queued Pause would leave the
  Pause without a wake; it cannot happen, since `begin_change` drains the image
  before it pauses.
* `finish_ready` drops the FLUSH waiters of a syncing fence unanswered when the
  gate has failed meanwhile. `lost` names them; the frontend is failing, so the
  guest sees the carrier's FAILED flag and not a success.
* A Pause whose sender has timed out makes `reject_queued` return at the failed
  reply, and queued reads behind it are dropped unanswered, again into `lost`.

### Exchange

`img` is the port of an image with what it uses of its reactor and log;
`events` and `replies` are the two one-slot mailboxes of an endpoint, `ready` the
queue of the owner, `host` the admission state, the gate and the administrative
claim, `owner` the phase of the owner, the exchange it waits for and the
generation every endpoint has acknowledged. `manifest` and `snaps` are the cuts
that are durable.

The reactor side is `Enter`, `Leave`, `Fence`, `Queue`, `Rotate`, `Poll`,
`Acknowledge`, `Exit`, `Disconnect`; the owner side `TakeReady`, `Receive` with
one operator per reply (`Compacts`, `Reclaims`, `Rotates`, `Defers`), and for an
operation `DrainReady`, `Quiesce`, `Begin`, `CompactNext`, `Collect` or
`Snapshot`, `Resume`, `Unwind`.

The code fails the whole host on any error after `begin`, on purpose: the
owner cannot know what it left behind. This includes an image that leaves
between its acknowledgement and a quiescent compaction, a snapshot whose
compaction is merely deferred, and an operation the space governor refuses or
whose deadline passes (`OperationErrs`), for a snapshot also after its catalog
entry is durable. A snapshot checks its image once, before its first compaction
(`owner.checked`); what happens to the image later reaches it through the
exchanges. A `cancel_ready` that times out leaves a stale
reply which a later exchange misreads, and one failed image makes every later
collection end in an error. `excused` marks the injected faults and these
cases; without it `ExchangeSound` allows no failure at all.

### Fetch

`rd` is the state machine of a `Read`, `reg` the registry of fetches in
progress, `lru` the cache, `image` the failure and the unsubmitted bulk reads of
an image, `sched` the state of `Scheduler` and the condition variable of the
background owner. The stages of a read are its actions: `Get` (cache), `Copy`,
`Lookup` (lead or wait), `Peek` (the cache again, once leading), `Advance`
(header, payload, verification, fill), `Publish`, `FailRead`, `Reject`. A leader
leaves the registry first and tells its waiters in a second critical section
(`Publish`), so a new fetch of the same block may begin in between. `Expire` is
the deadline of the background owner, whose error fails the image it works for
or, in a quiesced operation, the host. A block's bytes are the
name of their content or `"bad"`, and verification compares them with the hash.
A buffer has an identity, since one evicted while a reader copies from it still
counts against the capacity.

Failures travel: when the image of a leader fails, the leader is dropped, the
waiters of other images are interrupted, they report shared IO and the host
fails, against what the documentation says (section 4). `FailureContained` is
the part that holds: an image that leads no fetch, though its reads wait for
those of others, fails alone; its cancelled wait must not be taken for a failed
fetch. A waiter has no deadline of its own; it relies on the leader's. A lost
wake of demand reads would be repaired by the reactor's 50 ms timer, one of the
background owner by nothing, so `ReadsReturn` asks for it.

### Session

`disk` is what outlives the host (epoch and length of each log), `guest` what
outlives the process (the carrier of each image), `img` the service thread, the
backend and the session of an image, `rec` the recovery thread, `sup` the
supervisor, `due` the deadline.

`Start` chooses cold or retained recovery. Cold, every image gets a new epoch
before a socket exists. Retained, the recovery thread collects the carriers
(`Collect`), prepares (`Prepare`), replays and fences every image (`Repair`)
and only then attaches, sends and notifies (`AttachAll`, `Send`, `Notify`),
while the services connect their guests, negotiate (`Get`, `Set`) and change
memory and queues (`Begin`, `End`). `Process` and `Finish` activate an image;
`Leave`, `Drain`, `Shut`, `Cancel`, `DropControls`, `ShutDown` take it down.
`Error` is a connection that ends in an error, which fails its backend and marks
the carrier FAILED; `Interrupted` is a read that waits for a fetch led by an
image that failed, and fails the host (section 4). An active guest may ask for
a new carrier: `Replace` makes the new epoch durable, `Export` hands out its
carrier, and a crash or an error between the two leaves the guest with a carrier
of the epoch before, which `Set` refuses.
`Crash` kills the process at any step, `Reboot` a guest.

What the model shows besides the properties:

* A frontend that leaves cleanly before activation stops the host only at the
  60 s deadline, and one missing frontend at the deadline marks every carrier
  FAILED.
* A service that fails after its own activation but before the recovery thread
  is seen to have finished stops every endpoint; later it stops the others only
  through `Interrupted`.
* An activation nobody took fails the gate only at shutdown.

## 3. Runs

| run | checks | shows |
|---|---|---|
| `log_serve` | `FrontierOrder`, `ViewExact`, `ReadsSeeSnapshot` | three writes over three segments with a read open across rotation, compaction, reclamation and a crash |
| `log_recover` | `RecoveryOpens`, `CrashLosesNothing`, `NeverStuck`, `ImplementsImage` | WRITE and ZERO, two crashes at any instant, the second also inside the recovery from the first; refinement of the abstract image |
| `reader_recovery` | `RecoveryOpens` | expected violation, see Findings |
| `inflight` | `CrashAccepted`, `OwnedOnce`, `OrdinalsOwned`, `Answered` | two queues, rejected admissions, wrapping cursors, a crash between any two stores, also inside a repair; every request is answered under fairness |
| `store` | `RootsKept`, `ReadsStable`, `NoFalseAlarm`, `StoreServes` | outputs and collections with a reader's view and pin open across them, staging logs taking tickets in between, two crashes at any instant; progress under fairness |
| `manifest` | `PublishedSurvives`, `ViewsExact`, `ManifestOpens` | two transactions of up to two tree pages, a read, a snapshot, reclamation of both files and two crashes, in any order; progress under fairness |
| `frontend` | `TurnsOwned`, `AdmittedInOrder`, `WakesKept`, `OvertakeBounded`, `RequestsAdmitted` | two images with one shared credit per pool: reads past blocked writes, a full segment, conflicts between queues, flushes, a pause; progress under fairness |
| `frontend_overlap` | `RequestsAdmitted` | expected violation, see Findings |
| `reactor` | `WindowAccounted`, `AnswersHonest`, `NeverStops`, `KernelOwned`, `AttachmentFresh`, `EverythingReturns` | two requests, pauses, attachments, a rotation, a collection and one fault anywhere: nothing leaks, no success is a lie, no check fails without a fault, no buffer is freed under the kernel, and the reactor never sleeps on work |
| `exchange` | `ExchangeSound`, `OperationAlone`, `SnapshotCut`, `OwnerReturns` | two images, a mutation, a rotation, an administrative request and a fault, a refusal or a departure anywhere in the exchange |
| `fetch` | `BytesVerified`, `FetchedOnce`, `FailureContained`, `ReadsReturn` | two images read the same blocks through a cache of one, with background IO and a corrupt chunk, a failing image or a passed deadline |
| `session` | `RepairTogether`, `AppliedOnce`, `Resolves` | two images, two processes, a write in flight, and a crash, a departing or rebooting guest, a failing connection, a replaced carrier or a forbidden change at any step |

### Bounds

Constants named `Max...` bound counters, and `Faults` the kinds of injected
fault, at most one in a behaviour (`MaxFaults` in `Session`); no other guard is
added to the code's.

* `AppendLog`: one block, since the index keeps one entry per block and its
  blocks influence each other only through the node capacity; overwriting is
  what needs two mutations of one block. A segment of five or six blocks holds
  one or two batches and the fence, so two or three writes force a rotation.
  Three tickets give a middle segment, the least for which a gap can arise.
  The quota of `log_serve` is one block short of three segments, so the third is
  created only when reclamation has made room; batches of two are packed in
  `log_recover`.
  Recovery allocates beyond `MaxTickets`, or the bound would stop it. Two
  crashes are the least that interrupt a recovery.
* `Inflight`: two queues of one descriptor each, so that ordinals of one order
  are spread over two rings and repair has to sort them; `Wrap` of three wraps
  within three requests. With one head per queue `last_head` has one value; the
  four properties were also checked for one queue of two descriptors with three
  requests and for two queues of two with two.
* `ChunkStore`: two hashes, two roots and files of four blocks, in which a
  segment with a dead chunk has to be copied; `MaxTickets` bounds the staging
  logs only.
* `Manifest`: two transactions of two pages are the least for a torn tree
  whose pages a second transaction overwrites only in part, and two crashes
  the least that interrupt the repair of such a file.
* `Frontend`: the guests are four fixed programs for two images (`Mixed`), each
  with the requests one behaviour needs: an independent read behind a blocked
  write, two writes that do not fit a segment, a write and a read of its block
  on two queues, a flush. One credit per pool makes the images compete, requests
  of one and of two bytes with a quantum of two leave a deficit over. None of
  `Mixed` has a read that is held back ahead of another read; `Overlap` has,
  and is the finding.
* `Reactor`: two requests of any kind, a segment of six blocks and a window of
  the same size, so that a second write has to wait for a rotation; two barriers
  for a pause and an attachment in either order; one collection or deferred
  rotation.
* `Exchange`: two images, so that one is quiet while the other still works; one
  mutation, one rotation and one administrative request at any moment.
* `Fetch`: one read per image, two hashes and one cache block: leader and
  waiter, eviction under a reader, and a second block whose fetch follows.
* `Session`: two images of which one also sets up a second queue, two
  processes, so that a recovery is interrupted and repeated, and one write.

Deadlock is not checked: a bounded guest stops posting, a failed image stays
failed until the process ends, and the crash bound leaves nothing to do after
the last one.

### Fairness

Guests and operators owe nothing, and faults are never forced.

* `AppendLog` states no fairness. `NeverStuck` says by `ENABLED` that a flush in
  progress and a recovery always have a next step.
* `Inflight`: weak fairness of the daemon's steps. `Answered` leaves out a
  failed image, which the code makes terminal.
* `ChunkStore`, `Manifest`: the worker finishes the transaction it began, and
  recovery, a sequential program, runs on.
* `Frontend`: the event loop of a frontend runs while it has an event or its
  100 ms retry timer is armed, IO completes, a wanted rotation happens and a
  pause ends.
* `Reactor`: weak fairness of the reactor thread; strong fairness of what is
  around it (kernel, worker, end of a collection, grants of the scheduler,
  sealing by the queue thread, timers). Strong, because those are modelled only
  between two passes of the reactor, which come and go while it runs.
* `Exchange`: the owner and the reactors are threads.
* `Fetch`: reads step, queued reads are submitted, and the background owner
  runs once its condition variable is signalled.
* `Session`: recovery thread, supervisor, services and backends run. The
  deadline need not pass: `Resolves` asks for an outcome only once it has, or
  once recovery is complete.

## 4. Findings

Reclamation (`core/src/append/reclaim.rs:211-218`) decides segment by segment
and keeps one that a read pins, but goes on to the younger ones. With three
covered segments and a read on the oldest it removes the middle one.

* A later compaction scan without a usable cursor meets the hole and fails the
  image ("compaction segment gap", `core/src/append/compaction.rs:200-203`).
* `reader_recovery`: after a crash with the hole on disk, inspection refuses
  the files ("inconsistent staging segment chain",
  `core/src/append/recovery.rs:107-114`), and flushed data cannot be opened.

Without readers (`log_recover`) the property holds: the current and the newest
segment stay, and removal goes upward.

`frontend_overlap`: the candidate loop stops at a read that waits
(`daemon/src/backend/frontier.rs:257-260`). Let a queue hold `W(b1)`, `R1(b1)`,
`R2(b2)`, with `W` refused for want of capacity. `R1` conflicts with `W`, so
`R2` is the read candidate and takes a ticket. When `W` is admitted, `R1` is the
head and asks for a turn; the scheduler picks the older ready ticket, that of
`R2`. `R1` waits, the loop stops and `R2` is not polled, in this pass or any
later one. The scheduler chooses `R2` for ever and wakes its frontend each time:
`R1`, `R2` and the other images stay unadmitted until the queue is reset.
`daemon/src/local/host/fair.rs:2-3` says that a refused head "rejoins behind the
other heads of its image, so retrying it cannot displace a later eligible read",
which does not help a read that is no longer asked; the test
`shared_fairness_moves_a_waiting_read_to_the_queue_head_without_a_stale_ticket`
has one read only.

A third one has no run of its own; the passing runs reach it. The failure of one
image stops the host when that image leads a fetch another one waits for. Its
reactor rejects its reads; the drop of the `Leader` finishes the fetch as
`Interrupted` (`core/src/cache/fills.rs:255-261`); the waiting read of the other
image ends in `fail_read`, where `shared_io()` holds, and `port.fail_shared`
fails the host gate (`daemon/src/local/reactor.rs:967-978`), upon which
`run_services` cancels every endpoint. `docs/casctl.md:76` says: "An image socket
failure after activation ends that image; shared failures and incomplete retained
recovery still stop all endpoints." The comment at `reactor.rs:467-468`, that a
failed image "returns its own error, without poisoning the shared fetch or its
leader", is true of a waiter that fails and not of a leader. In `fetch` these are
the steps `FailImage` (with `used.fault = "leader"`), `Reject`, `Publish` of the
dropped leader, `Complete` and `FailRead` of the waiter; in `session` `Error`
followed by `Interrupted`. `FailureContained` fails when its fault `"image"` is
read to include `"leader"`. What is lost is service: the carriers are marked
FAILED, and what a FLUSH reported is in the logs.

## 5. Proofs

Assumed are only the named assumptions on the constants of each module: finite
sets of blocks, images and reads where the code has tables, natural bounds, a
log segment of at least four blocks within the quota, a batch limit within the
compaction limit, a chunk file that holds a batch. All sets and bounds are
otherwise arbitrary, so the theorems speak of every number of images, blocks,
readers, segments and crashes.

Each proof has the same shape: an inductive invariant, a lemma per action, and a
temporal step. TLC checked every inductive invariant as an invariant of the
module's run before it was proved (`LogInv` and `ViewInv` on the instances of
`log_serve`, `log_recover` and `reader_recovery`).

| theorem | statement | inductive invariant |
|---|---|---|
| `LogProofs!TypeCorrect` | types, and the segment appended to exists | `TypeOK` |
| `LogProofs!FrontiersOrdered` | `FrontierOrder` | `FrontierInv` |
| `LogProofs!CrashesLoseNothing` | `CrashLosesNothing` | `LogInv` |
| `LogProofs!ViewsExact`, `ReadsAreSnapshots` | `ViewExact`, `ReadsSeeSnapshot` | `LogInv`, `ViewInv` |
| `LogProofs!LogImplementsImage` | the refinement `ImplementsImage` | `LogInv`, `EpochInv` |
| `SessionProofs!RepairedTogether` | `RepairTogether` | `SessionInv` |
| `SessionProofs!AppliedExactlyOnce` | `AppliedOnce` | `SessionInv`, `HealthInv` |
| `StoreProofs!RootsNeverLost`, `PinsHold`, `ChecksNeverFail` | `RootsKept`, `ReadsStable`, `NoFalseAlarm` | `StoreInv`, `AlarmInv` |
| `ManifestProofs!PublicationsSurvive`, `ViewsNeverChange` | `PublishedSurvives`, `ViewsExact` | `ManifestInv` |
| `FetchProofs!OnlyVerifiedBytes`, `OneLeaderFetches` | `BytesVerified`, `FetchedOnce` | `FetchInv` |
| `FetchProofs!FailuresContained` | `FailureContained` | `FetchInv`, `ContainInv` |
| `FrontendProofs!AdmissionOrdered`, `TurnsSafe`, `FairnessBounded` | `AdmittedInOrder`, `TurnsOwned`, `OvertakeBounded` | `FrontendInv` |
| `ExchangeProofs!OperationAloneHolds` | `OperationAlone` | `ExchangeInv` |
| `ExchangeProofs!SnapshotCutHolds` | the action property `SnapshotCut` | `ExchangeInv`, `CutInv` |
| `ExchangeProofs!ExchangeSoundHolds` | `ExchangeSound` | `ExchangeInv`, `CleanInv` |
| `ReactorProofs!KernelAlwaysOwned`, `AnswersAlwaysHonest` | `KernelOwned`, `AnswersHonest` | `Inv`: `KernelInv`, `AnswersInv` |

Why the invariants need strengthening:

* `FrontierInv`. A compaction cuts at a batch end and a recovery takes its
  prefix from files, so it adds `FilesInv` (batches end in the order of their
  position, none of the current segment above `issued`, none of the accepted
  prefix above the recovered `P`), `OrderInv` (the frontiers in every mode) and
  `JobInv` (what each open compaction captured).
* `LogInv`. What a crash may lose depends on what every earlier step left in the
  files, so the invariant describes the files in every mode. `DiskInv`: each
  file continues the history at its header's preceding sequence, batch by batch,
  and carries its exact mutations; only the newest has batches that are not
  synced; a punched payload is below `D`; every mutation above `D` or in flight
  is covered by some file. `NamesInv` and `CurrentInv` place the current
  segment, the one a rotation has created and names without a header.
  `RepairInv` says what repair will keep, `StatusInv` which batches are written,
  synced or fenced behind `E` and `P`. `AnchorInv`: what a FLUSH reported is
  synced in the newest file or precedes it. `CarrierInv` ties the carrier to
  files and frontiers, `MapInv` makes every view the image at its `D`, and
  `ReclaimInv` keeps an open reclamation from what is in flight. None of the
  parts is inductive alone: a reclamation is safe because of the view, the view
  because of the files, the files because of the frontiers. `Intervals` and the
  gap of section 4 do not matter to it: a gap below `D` loses nothing that the
  manifest does not hold.
* `ViewInv`. `IndexInv` says the index is the newest mutation of each block
  above `D`; `PlanInv` says a plan names the newest mutation of its block at
  capture and that a batch of the segment it pins still holds it.
* `EpochInv`. A writer epoch is never 0, the mark of "no carrier".
* `SessionInv`. `RecInv` says what each stage of the recovery thread has
  established (all carriers collected, which images are fenced, which activations
  sent); `Opening`, `Served` and `Applied` tie the state of each image's service
  to it and to the counts in its log and its carrier.
* `HealthInv`. An image that holds a carrier and has not failed holds one of its
  log's epoch that nothing has marked, except between the two steps of a
  replacement. A carrier outlives the process that marked it, so this has to
  follow a carrier from the failure of one process through `Set` of the next.
* `StoreInv`. `RootsKept` speaks of addresses in memory, which a crash forgets,
  so `SafeInv` says every root has a position every crash preserves: a batch
  whose file is synced up to it. `TicketInv` keeps a ticket from being assigned
  twice although unlinked names may return; `SegmentInv`, `IndexInv` and
  `SweepInv` say how far an output or a collection has come and that the copies
  precede the unlink. `AlarmInv` adds the sizes the checks compare.
* `ManifestInv`. `PromiseInv` says the last returned view can lose no page to a
  crash, `TailInv` that behind it the file has at most one COMMIT, of the next
  generation and over pages of the promised tree; `JobInv`, `SnapInv` and
  `UseInv` say which pages each open step and each pinned view relies on.
* `FetchInv`. Each stage of a read fixes what it knows of its block, the
  registry names exactly the leaders, and a block being fetched is not resident.
* `ContainInv`. While no fault but the failure of such an image has happened,
  no leader is dropped and no wait is interrupted, a payload that came back is
  the one asked for, and a failed image has no read in a turn and none that
  leads.
* `FrontendInv`. `OrderInv`: orders grow along a queue, differ between queues
  and stay below the next one. `AdmitInv` is `AdmittedInOrder` by places; an
  admission keeps it because of `TurnInv`, what a frontend in a turn has
  established of its candidate. `SlotInv` says which request a slot may name:
  the head slot only the head, the read slot another one or one that has become
  the head since. `TicketInv`: every ticket is backed by a slot with a data
  request of its size, every such slot is covered by a ticket, and no two
  tickets have one order. `GrantInv`: the turn in progress is that of the one
  frontend in a turn, the cursor is at its image, the visit is not to be
  replenished and its head is paid. `ShareInv` counts, for each image with a
  ready head, the visits to other images the bytes passed so far may have taken
  and what the visit under way may still spend; `Choose` moves the cursor and
  adds deficits within it, a commit turns deficit into bytes passed, a refusal
  starts the next visit.
* `ExchangeInv`. `OwnerInv` says which event the owner may await in which phase,
  `PauseInv` that the one administrative claim closes admission and empties the
  ready queue, `QuiescentInv` that an acknowledgement counts for the pause under
  way and until its image is resumed. `PortInv` says what an image that has not
  failed knows: an event in its slot is the one awaited or a deferral the owner
  gave up on, a reply answers the event awaited or is the late answer to a
  deferral, an image asked and not yet answered is still awaited, and once it
  counts as quiescent its slots hold nothing but the exchange with it. That a
  late answer to a deferral can be found by a later exchange is what makes the
  clauses necessary: a `Quiesce` may be answered for the owner by an older
  `Applied`, which fails the host and never counts as an acknowledgement. The
  clause on `published` keeps the manifest one compaction ahead of the log only
  while that event is under way, which a snapshot excludes. The steps of the
  owner first drop the exchange and then send or give up, so every part is an
  operator of replies, queue, owner and manifests, and the lemmas about sending,
  passing and failing are stated once for the state between the two. The
  invariant holds with faults and without: nothing in it mentions `excused`.
* `CutInv`. A snapshot checks the health of its image once and then compacts,
  so the cut must hold of an image that fails or leaves meanwhile: an image that
  acknowledged this pause stays settled, with nothing issued that is not durable,
  whatever becomes of it, and a checked snapshot is of such an image.
* `CleanInv` is what holds until a fault is injected or an operation loses its
  image; `ExchangeSound` needs it because an exchange fails by itself only if a
  port meets an event out of sequence, a full slot or a full queue, and each of
  those is several steps away from the owner's mistake. Per image: an event in
  its slot is the one awaited and its reply slot is then empty; a reply is one
  the event awaited may be answered with, of this generation; an image the owner
  goes on with waits for it (`Engaged`), has no other turn queued, and has not
  left; an image that acknowledged, or that a `Resume` is on its way to, still
  holds that acknowledgement; an image with a queued turn waits for it, unless a
  `Quiesce` cancelled it, which only the phases `Loose` allow. With one turn of
  an image in the queue (`OneTurn`) and one administrative request
  (`PauseInv`), an injection into the images and the request shows that the
  queue of capacity `Room` is never full (`QueueFits`). What an image may do
  alone changes its own port only (`CleanOne`); the owner's steps either go on
  (`MovesClean`) or send to an image that can answer (`SendClean`, `Serves`).
* `KernelInv`. `InKernel`: a token the kernel holds has an owner that is not
  ready, and so has a token whose CQE is posted, which the kernel no longer
  holds; so a CQE is never of an unknown or a finished owner. `Queued`: what
  waits for the bulk scheduler is owned, queued once and unknown to the kernel,
  so rejecting it frees nothing in use. `Completed`: `finish_ready` works on
  completed owners. `OrderedAppends` and `AppendsApart` place the appends to be
  published among the owners; `Failure` says that a failed image has a failed
  gate and that a dropped reactor has nothing left in the bulk queue.
* `AnswersInv`. A request is answered once because it has one owner: the open
  batch, a command in the mailbox, a queued command, a queued read or a pending
  entry (`OwnedOnce`), and an owned request is unanswered (`OwnedUnanswered`).
  A success is true for reasons that reach back to admission. `Carried`: a batch
  has consecutive ordinals and the open one ends at the last admitted.
  `Supported`: while the image lives, the mutation before a batch and the
  boundary of a FLUSH are issued or in a batch ahead in the queue, over the
  mailbox, the command queue and the open batch; without it a FLUSH could meet a
  fence that stops short of its boundary. `PendingTrue` says what completing an
  owner will promise, `Frontier` that appends are published in the order they
  were issued and that the one fence pending is the log's cohort, `CohortOwned`
  and `OneBarrier` that neither a fence nor a barrier's command is orphaned.
  The steps of the queue thread seal, grow, pack, post or refuse; these are
  proved once over the batch, the ordinals, the requests, the answers and the
  mailbox (`ClientInv`), and each step is put together from them. Every other
  step is first reduced to what it does to the owners (`Pops`, `Joins`,
  `Issues`, `Passes`, `Marks`, `Rejects`, `Drops`), so that each of these has
  one proof for all the actions that do it.

The proof of `FairnessBounded` is why its bound has the factor `Behind`, the
number of tickets from the first ready one on. One round of visits for each
image is not enough: an older and larger head of the image, refused before, is
made ready again ahead of the one the cursor stands at, the deficit no longer
pays the first ready head, and the image loses the visit. That can happen once
for each of its older heads, since a refused one goes to the end.

Only model-checked:

* liveness, and `NeverStuck`, which uses `ENABLED`: outside what TLAPS proves;
* `RecoveryOpens`: it does not hold in general (section 4), the instance of
  `log_recover` shows where it does. `CrashesLoseNothing` is about what the
  files hold, whether or not the chain check of inspection accepts them;
* `CrashAccepted`, `OwnedOnce` and `OrdinalsOwned` of the carrier: a repair is a
  list of stores computed by folding over the slots, and what a fold computes
  needs induction over data;
* `WakesKept` of the frontend: who is woken depends on the credits all images
  hold together, a fold over the images;
* `WindowAccounted`, `NeverStops` and the action property `AttachmentFresh` of
  the reactor: they weigh the window and the geometry it read against the log,
  and that argument was not attempted.

## 6. Not modelled

* Byte formats and checksums (a batch is intact or bad), system calls,
  telemetry, read traces, command lines and test harnesses: they change no state
  the properties are about.
* The space governor and the memory budgets: ledgers of leases released by
  `Drop`. Their refusals are modelled where they change control (a deferred
  rotation, a denied admission, a refused collection or snapshot), their
  arithmetic is not.
* The catalog is one atomic entry in `Manifest` and a fixed set of images in
  `Session`. The serial staging store is an older path the host does not use.
* The node table of the interval index and the tree editor of the manifest are
  a function of blocks and a set of kept pages here; both are pure algorithms.
* `reset_queue` of the carrier: QEMU frees the carrier when a device is reset,
  and a pause followed by a resume rewrites the values that are there, so a
  crash between its two stores is not a state that reaches a recovery.
* `Manifest::clone_snapshot` has no caller outside the tests. The synchronous
  `Worker` of `daemon/src/local.rs` executes one command at a time in place of
  the reactor; the host runs the reactor.
* Negotiation of features, failures of telemetry and the standalone daemon for a
  single image.
* `Session` reboots only guests whose carrier the host does not hold; one that
  reboots under a served image meets the negotiation `Replace` models.

## 7. Plan

Proofs next, each after TLC has agreed to its strengthening: `WindowAccounted`,
`NeverStops` and `AttachmentFresh` of the reactor.

Models that would add most:

1. Composition of `AppendLog` and `Inflight`: the carrier's slots in place of
   `live`, `acked` and `attach`.
2. `IntervalIndex`: the ordered node table against the function `index` of
   `AppendLog`, and the tree editor against a map from blocks to chunks.
3. Space governor and budgets: conservation of leases on every error path.
