------------------------------ MODULE Reactor ------------------------------
(***************************************************************************)
(* One image's IO path on a shared host: the queue thread that admits      *)
(* requests and packs WRITEs (crates/cas/daemon/src/local.rs), the WAL     *)
(* window that reserves their framing (local/window.rs), and the io_uring  *)
(* reactor thread that owns every accepted request until it is answered    *)
(* (local/reactor.rs, local/reactor/slots.rs).  The background worker and  *)
(* the collector appear only as what the image's port exchanges with them; *)
(* module Exchange models that protocol itself.                            *)
(*                                                                         *)
(* The reactor's loop is split where another thread can act between two of *)
(* its steps: one action per phase, per published append, per finished IO  *)
(* and per dispatched command.  Sizes are in 4 KiB blocks.                 *)
(***************************************************************************)
EXTENDS Integers, Sequences, FiniteSets, SequencesExt

CONSTANTS
  Capacity,     \* Config.segment_bytes, in blocks
  Intervals,    \* Limits.intervals of the log's index
  PackLimit,    \* MAX_DESCRIPTORS: WRITEs one batch may hold
  Slots,        \* IO slots of the reactor
  Kinds,        \* kinds of request the guest issues
  MaxRequests,  \* bound: requests the guest issues
  MaxBarriers,  \* bound: pauses and attachments the frontend asks for
  MaxHolds,     \* bound: collections that quiesce the image and rotations
                \* deferred for want of space, together
  Faults        \* injected faults, at most one per behaviour

ASSUME ReactorConstants ==
  /\ Capacity \in Nat /\ Capacity >= 5 /\ Intervals \in Nat /\ Intervals >= 2
  /\ Kinds \subseteq {"write", "zero", "read", "flush"}
  /\ PackLimit \in Nat \ {0} /\ Slots \in Nat \ {0}
  /\ MaxRequests \in Nat /\ MaxBarriers \in Nat /\ MaxHolds \in Nat
  /\ Faults \subseteq {"io", "gate", "timeout", "barrier"}

VARIABLES
  front,    \* Local: open batch, admitted mutations, sender, pause state
  reqs,     \* requests accepted so far, with their kind and boundary
  answer,   \* completions delivered for each request
  mailbox,  \* commands sent and not yet received
  log,      \* what the reactor uses of the log
  win,      \* Window.state
  port,     \* Port: requested rotation, background turn, quiescence
  health,   \* the shared completion gate has failed
  re,       \* Reactor
  kernel,   \* tokens the kernel may still read or write buffers for
  cqes,     \* completions posted and not reaped
  wake,     \* input_wake or kernel_wake is readable
  lost,     \* history: requests whose owner was dropped unanswered
  faulted   \* history: a fault was injected

vars == <<front, reqs, answer, mailbox, log, win, port, health, re, kernel,
          cqes, wake, lost, faulted>>
client == <<front, reqs, mailbox>>

Ids == 1..MaxRequests
NoCohort == -1

-----------------------------------------------------------------------------
(* Records                                                                 *)

\* Command::Append, Io, Pause, NewAttachment, Resume.
Command(op, ids, boundary) ==
  [op |-> op, ids |-> ids, boundary |-> boundary, rotated |-> FALSE]

\* Pending: an owner of one append, fence or read.  "last" is the envelope's
\* last mutation, "left" the further IO a read needs once this one completes.
Work(op, ids, last) ==
  [op |-> op, ids |-> ids, last |-> last, syncing |-> FALSE, left |-> 0,
   dependency |-> FALSE, ready |-> FALSE, cancelled |-> FALSE]

\* Written::payload_bytes: only a WRITE carries a payload, of one block.
Payloads(ids) == Cardinality({i \in ids : reqs[i].kind = "write"})
Framing(ids) == Cardinality(ids) + Payloads(ids)
BatchBlocks(ids) == 1 + Payloads(ids)

\* Log::position.
Position(l) ==
  [seg |-> l.seg, end |-> l.end, issued |-> l.issued,
   fenced |-> IF l.cohort = NoCohort THEN l.durable ELSE l.cohort,
   initial |-> ~l.fenced /\ l.cohort = NoCohort]

\* Log::append_capacity: each pending descriptor may split one interval.
AppendCapacity(l) ==
  LET free == (Intervals - (l.published - l.compacted)) \div 2
      used == l.issued - l.published
  IN  IF free > used THEN free - used ELSE 0

\* Mutants: a FLUSH needs only publication; the segment's first fence is
\* taken for granted.
CoversPublished(l, boundary) == l.fenced /\ l.published >= boundary
CoversUnfenced(l, boundary) == l.durable >= boundary
CoversFlush(l, boundary) == l.fenced /\ l.durable >= boundary

\* Mutant: a mutation not yet submitted reserves no fence of its own.
UsedUnfenced(w) ==
  w.point.end + w.reserved + (w.point.issued - w.point.fenced)
    + (IF w.point.initial THEN 1 ELSE 0)
\* State::used: each unfenced or unsubmitted mutation may need its own fence.
WindowUsed(w) ==
  w.point.end + w.reserved
    + (w.point.issued - w.point.fenced) + w.unsubmitted
    + (IF w.point.initial THEN 1 ELSE 0)

Bounded(w) == WindowUsed(w) <= Capacity /\ w.unsubmitted <= w.capacity

\* State::require and State::at.
Require(w, valid) == [w EXCEPT !.failed = @ \/ ~valid]
AtPoint(w) == w.point = Position(log)

\* The requests that queued commands own, and those of their batches.
IdsOf(commands) == UNION {ToSet(commands[i].ids) : i \in DOMAIN commands}
BatchIds(commands) ==
  UNION {ToSet(commands[i].ids) :
           i \in {j \in DOMAIN commands : commands[j].op = "append"}}

\* Slot::drop, or consumption, for the mutations of a batch.
Spend(w, ids) ==
  [w EXCEPT !.reserved = @ - Framing(ids), !.unsubmitted = @ - Cardinality(ids)]
\* Mutant: a rejected batch keeps its slots.
RefundNothing(w, commands) == w
Refund(w, commands) == Spend(w, BatchIds(commands))

Answer(a, ids, result) ==
  [i \in Ids |-> IF i \in ids THEN Append(a[i], result) ELSE a[i]]

Answered(id) == answer[id] # <<>>

\* The mailbox, the ring and the port's channel are read once per pass, so a
\* step that only feeds them is taken while the reactor is between passes.
\* Window and gate are read in the middle of a pass: steps on them are not.
BetweenPasses == re.pc \in {"wait", "drop", "gone"}

\* The mailbox's receiver is closed: Reactor::stop, or the thread has ended.
Closed == re.pc \in {"close", "drop", "gone"}

-----------------------------------------------------------------------------
(* The queue thread                                                        *)

\* Local::send: Disconnected returns every request of the command at once.  A
\* refusal by the window notifies the reactor as well.
Send(commands, w) ==
  /\ wake' = (wake \/ commands # <<>> \/ w.wanted # win.wanted
                   \/ w.pressure # win.pressure)
  /\ IF Closed
       THEN /\ answer' = Answer(answer, IdsOf(commands), "err")
            /\ win' = Refund(w, commands)
            /\ UNCHANGED mailbox
       ELSE mailbox' = mailbox \o commands /\ win' = w /\ UNCHANGED answer

\* Local::seal: the open batch, when it holds anything.
Sealed(batch) == IF batch = <<>> THEN <<>> ELSE <<Command("append", batch, 0)>>

CanSubmit ==
  /\ front.open /\ ~front.paused /\ front.barrier = "none"
  /\ Len(reqs) < MaxRequests /\ port.hold = "open"

\* Window::reserve: the reservation a mutation would make, and why it is
\* refused: a rotation is wanted, the index is full, or the segment is.
Reservation(w, kind) ==
  [w EXCEPT !.reserved = @ + (IF kind = "write" THEN 2 ELSE 1),
            !.unsubmitted = @ + 1]
Refused(w, kind) ==
  w.wanted \/ w.unsubmitted >= w.capacity
    \/ WindowUsed(Reservation(w, kind)) > Capacity
Refusal(w) ==
  IF w.wanted THEN w
  ELSE IF w.unsubmitted >= w.capacity THEN [w EXCEPT !.pressure = TRUE]
  ELSE [w EXCEPT !.wanted = TRUE]

\* Local::admit and Local::pack for a WRITE or ZERO: a refusal hands over the
\* open batch; otherwise the mutation joins it, or starts one when it is full.
Mutate(kind) ==
  /\ CanSubmit /\ ~win.failed
  /\ \/ /\ Refused(win, kind)
        /\ Send(Sealed(front.packing), Refusal(win))
        /\ front' = [front EXCEPT !.packing = <<>>]
        /\ UNCHANGED reqs
     \/ /\ ~Refused(win, kind)
        /\ LET id == Len(reqs) + 1
               full == Len(front.packing) = PackLimit
           IN  /\ reqs' = Append(reqs, [kind |-> kind,
                                        boundary |-> front.admitted + 1])
               /\ front' = [front EXCEPT
                    !.admitted = @ + 1,
                    !.packing = IF full THEN <<id>> ELSE Append(@, id)]
               /\ Send(IF full THEN Sealed(front.packing) ELSE <<>>,
                       Reservation(win, kind))
  /\ UNCHANGED <<log, port, health, re, kernel, cqes, lost, faulted>>

\* Local::admit and Local::enqueue for a READ or FLUSH: the batch is sealed
\* first, so the request follows every mutation below its boundary.
Enqueue(kind) ==
  /\ CanSubmit /\ BetweenPasses
  /\ reqs' = Append(reqs, [kind |-> kind, boundary |-> front.admitted])
  /\ front' = [front EXCEPT !.packing = <<>>]
  /\ Send(Append(Sealed(front.packing),
                 Command(kind, <<Len(reqs) + 1>>, front.admitted)), win)
  /\ UNCHANGED <<log, port, health, re, kernel, cqes, lost, faulted>>

\* The queue thread hands over its batch at the end of a pass.
Seal ==
  /\ BetweenPasses /\ front.open /\ front.packing # <<>> /\ front.barrier = "none"
  /\ front' = [front EXCEPT !.packing = <<>>]
  /\ Send(Sealed(front.packing), win)
  /\ UNCHANGED <<reqs, log, port, health, re, kernel, cqes, lost, faulted>>

\* Local::pause and Local::new_attachment up to their wait for the reactor;
\* begin_change pauses once every request it accepted is answered, and a send
\* to a closed reactor fails at once.
Barrier(op) ==
  /\ BetweenPasses /\ front.open /\ front.barrier = "none"
  /\ front.barriers < MaxBarriers
  /\ IF op = "pause" THEN ~front.paused /\ \A i \in DOMAIN reqs : Answered(i)
     ELSE front.paused
  /\ front' = [front EXCEPT
       !.packing = <<>>, !.barriers = @ + 1,
       !.barrier = IF Closed THEN "failed" ELSE op]
  /\ Send(Append(Sealed(front.packing), Command(op, <<>>, 0)), win)
  /\ UNCHANGED <<reqs, log, port, health, re, kernel, cqes, lost, faulted>>

\* Local::barrier gives up: the reply's receiver is dropped with the command
\* still queued, and the caller fails the image (backend/lifecycle.rs).
BarrierTimeout ==
  /\ "barrier" \in Faults /\ ~faulted /\ front.barrier \in {"pause", "attach"}
  /\ front' = [front EXCEPT !.barrier = "abandoned"]
  /\ faulted' = TRUE
  /\ UNCHANGED <<reqs, answer, mailbox, log, win, port, health, re, kernel,
                 cqes, wake, lost>>

\* Local::resume.
Resume ==
  /\ BetweenPasses /\ front.open /\ front.paused /\ front.barrier = "none"
  /\ front' = [front EXCEPT !.paused = FALSE]
  /\ Send(<<Command("resume", <<>>, 0)>>, win)
  /\ UNCHANGED <<reqs, log, port, health, re, kernel, cqes, lost, faulted>>

\* Local::close: seal, then drop the sender.
Close ==
  /\ BetweenPasses /\ front.open /\ front.barrier \notin {"pause", "attach"}
  /\ front' = [front EXCEPT !.open = FALSE, !.packing = <<>>]
  /\ Send(Sealed(front.packing), win)
  /\ UNCHANGED <<reqs, log, port, health, re, kernel, cqes, lost, faulted>>

-----------------------------------------------------------------------------
(* The kernel, the background worker and the collector                     *)

\* A CQE: the whole transfer, or an error or short count.  PollRemove makes
\* a cancelled dependency's own CQE arrive.
Complete(token, ok) ==
  /\ token \in kernel /\ BetweenPasses
  /\ ok \/ ("io" \in Faults /\ ~faulted)
  /\ kernel' = kernel \ {token}
  /\ cqes' = cqes \cup {[token |-> token, ok |-> ok]}
  /\ faulted' = (faulted \/ ~ok)
  /\ wake' = TRUE
  /\ UNCHANGED <<front, reqs, answer, mailbox, log, win, port, health, re, lost>>

\* Another owner of the host gate fails it: the worker, the collector, the
\* frontend, or another image's shared read.
FailGate ==
  /\ "gate" \in Faults /\ ~faulted /\ ~health
  /\ health' = TRUE /\ faulted' = TRUE
  /\ UNCHANGED <<front, reqs, answer, mailbox, log, win, port, re, kernel,
                 cqes, wake, lost>>

\* The worker takes this image's queued turn and sends Allocate or Select.
Grant ==
  /\ BetweenPasses
  /\ port.job \in {"rotate", "compact"} /\ ~health /\ port.hold = "open"
  /\ port' = [port EXCEPT !.job = IF @ = "rotate" THEN "allocate" ELSE "select"]
  /\ wake' = TRUE
  /\ UNCHANGED <<front, reqs, answer, mailbox, log, win, health, re, kernel,
                 cqes, lost, faulted>>

\* The worker's IO for a granted turn: a created segment, a published root,
\* or a deferral when physical space is short.
WorkerIO ==
  /\ BetweenPasses /\ port.job \in {"prepared", "selected"} /\ ~health
  /\ \/ port' = [port EXCEPT !.job = IF @ = "prepared" THEN "rotated"
                                     ELSE "published"]
     \/ /\ port.holds < MaxHolds
        /\ port' = [port EXCEPT !.job = "deferred", !.holds = @ + 1]
  /\ wake' = TRUE
  /\ UNCHANGED <<front, reqs, answer, mailbox, log, win, health, re, kernel,
                 cqes, lost, faulted>>

\* The collector pauses admission, waits for accepted requests, cancels the
\* unstarted turn (Deferred) and asks this image to quiesce; later it resumes.
Hold ==
  /\ BetweenPasses /\ (port.holds < MaxHolds \/ port.hold # "open")
  /\ \/ /\ port.hold = "open"
        /\ port' = [port EXCEPT !.hold = "paused", !.holds = @ + 1]
     \/ /\ port.hold = "paused" /\ \A i \in DOMAIN reqs : Answered(i)
        /\ port.job \in {"rotate", "compact"}
        /\ port' = [port EXCEPT !.job = "deferred"]
     \/ /\ port.hold = "paused" /\ \A i \in DOMAIN reqs : Answered(i)
        /\ port.job = "idle"
        /\ port' = IF re.pc = "gone" THEN [port EXCEPT !.hold = "open"]
                   ELSE [port EXCEPT !.hold = "asked", !.job = "quiesce"]
     \/ /\ port.hold = "asked"
        /\ re.pc = "gone" \/ port.quiescence = "acked"
        /\ port' = IF re.pc = "gone" THEN [port EXCEPT !.hold = "open"]
                   ELSE [port EXCEPT !.hold = "resuming", !.job = "resume"]
     \/ /\ port.hold = "resuming" /\ re.pc = "gone"
        /\ port' = [port EXCEPT !.hold = "open"]
  /\ wake' = TRUE
  /\ UNCHANGED <<front, reqs, answer, mailbox, log, win, health, re, kernel,
                 cqes, lost, faulted>>

-----------------------------------------------------------------------------
(* The reactor's owners                                                    *)

\* Reactor::fail and Port::abort.
Failing(q) == [q EXCEPT !.failed = TRUE, !.appends = <<>>]
Aborted(p) == [p EXCEPT !.active = FALSE, !.rotation = "none"]

Without(f, t) == [k \in DOMAIN f \ {t} |-> f[k]]

\* Slots::next: the first token from "next_token" whose slot is free.
FreeTokens ==
  {t \in re.token .. (re.token + Slots - 1) :
     \A k \in DOMAIN re.pending : k % Slots # t % Slots}
Bulk(work) == work.op = "append" \/ (work.op = "read" /\ ~work.dependency)

\* Reactor::enqueue and push: own the work under a fresh token, then queue it
\* for the host scheduler (bulk) or hand it to the kernel; with no slot left
\* the image fails and the work is rejected.
Own(q, work) ==
  IF FreeTokens = {}
    THEN /\ re' = Failing(q) /\ health' = TRUE
         /\ answer' = Answer(answer, ToSet(work.ids), "err")
         /\ UNCHANGED kernel
    ELSE LET t == CHOOSE k \in FreeTokens : \A j \in FreeTokens : k <= j
         IN  /\ re' = [q EXCEPT
                  !.token = t + 1,
                  !.pending = [k \in DOMAIN q.pending \cup {t} |->
                                 IF k = t THEN work ELSE q.pending[k]],
                  !.bulk = IF Bulk(work) THEN Append(@, t) ELSE @,
                  !.appends = IF work.op = "append" THEN Append(@, t) ELSE @,
                  !.cohort = IF work.op = "fence" THEN t ELSE @]
             /\ kernel' = IF Bulk(work) THEN kernel ELSE kernel \cup {t}
             /\ UNCHANGED <<answer, health>>

\* Port::rotate: remember the kind, stop window admission, queue a turn.
Rotating(p, kind) ==
  [p EXCEPT !.rotation = kind,
            !.active = @ \/ p.hold = "open",
            !.job = IF ~p.active /\ p.hold = "open" THEN "rotate" ELSE @]

\* Port::cancel_future_rollover.
CancelRollover(p) ==
  IF p.rotation = "roll" /\ ~log.rotating THEN [p EXCEPT !.rotation = "none"]
  ELSE p

\* Reactor::start_fence and Window::fence: fence the issued prefix for the
\* waiters, or rotate first when the segment has no room for it.
StartFence(q, waiters) ==
  IF log.cohort # NoCohort \/ log.rotating \/ ~AtPoint(win)
    THEN /\ re' = [q EXCEPT !.pc = "stop"]
         /\ lost' = lost \cup ToSet(waiters)
         /\ UNCHANGED <<answer, health, kernel, log, win, port>>
  ELSE IF log.end + 1 > Capacity
    THEN /\ re' = [q EXCEPT !.commands = [i \in DOMAIN waiters |->
                       Command("flush", <<waiters[i]>>,
                               reqs[waiters[i]].boundary)] \o @]
         /\ port' = Rotating(port, "roll")
         /\ win' = [win EXCEPT !.wanted = TRUE]
         /\ UNCHANGED <<answer, health, kernel, log, lost>>
  ELSE LET fenced == [log EXCEPT !.end = @ + 1, !.cohort = log.issued]
           moved == [win EXCEPT !.point = Position(fenced)]
       IN  /\ log' = fenced
           /\ win' = Require(moved, Bounded(moved))
           /\ IF win'.failed
                THEN /\ re' = [q EXCEPT !.pc = "stop"]
                     /\ lost' = lost \cup ToSet(waiters)
                     /\ UNCHANGED <<answer, health, kernel>>
                ELSE /\ Own(q, Work("fence", waiters, log.issued))
                     /\ UNCHANGED lost
           /\ UNCHANGED port

-----------------------------------------------------------------------------
(* The reactor's loop: Reactor::run                                        *)

At(phase) == re.pc = phase

\* Phases with nothing to do are passed over; finish_ready samples the
\* completed tokens once, on entry.
AfterFinish(q) == [q EXCEPT !.pc = IF q.failed THEN "reject" ELSE "dispatch"]
AfterBreak(q) == [q EXCEPT !.pc = IF q.failed THEN "reject" ELSE "reads"]
EnterFinish(q) ==
  LET done == {t \in DOMAIN q.pending : q.pending[t].ready}
  IN  IF done = {} THEN AfterFinish(q)
      ELSE [q EXCEPT !.pc = "finish", !.todo = done]

\* Mutant: a deferred rotation does not keep the reactor awake.
ActiveOwners(q, p) ==
  \/ DOMAIN q.pending # {}
  \/ ~q.held /\ log.issued > log.durable
\* Reactor::wait: what bounds the coming sleep to 50 ms.
Active(q, p) ==
  \/ p.active \/ p.rotation # "none" \/ log.durable > log.compacted
  \/ DOMAIN q.pending # {} \/ win.wanted \/ win.pressure
  \/ ~q.held /\ log.issued > log.durable

\* The end of a pass: leave once the sender is gone and nothing is owned,
\* else sleep; what changes from now on wakes the reactor only by notifying it.
EndPass(q, p) ==
  [q EXCEPT
     !.pc = IF /\ q.closed /\ q.pending = <<>> /\ q.commands = <<>>
               /\ q.reads = <<>> /\ ~p.active /\ p.rotation = "none"
              THEN "gone" ELSE "wait",
     !.timed = Active(q, p)]
ToSubmit(q, p) ==
  IF q.bulk = <<>> THEN EndPass(q, p) ELSE [q EXCEPT !.pc = "submit"]
Stopping(q) == [q EXCEPT !.pc = "stop"]

\* A pass begins when the reactor is woken or its sleep times out; Reactor::wait
\* consumes the notifications, so a later one ends the next sleep at once.
Awake == At("wait") /\ (wake \/ re.timed)

\* Reactor::receive for one command: READs overtake, a Pause ends the intake
\* unless the image failed; stop drains the closed mailbox the same way.
TakeCommand ==
  /\ Awake \/ re.pc \in {"receive", "close"}
  /\ mailbox # <<>>
  /\ LET c == Head(mailbox)
         q == [re EXCEPT !.pc = IF @ = "close" THEN "close"
                                ELSE IF c.op = "pause" /\ ~re.failed THEN "reap"
                                ELSE "receive"]
     IN  re' = IF c.op = "read" THEN [q EXCEPT !.reads = Append(@, c)]
               ELSE [q EXCEPT !.commands = Append(@, c)]
  /\ mailbox' = Tail(mailbox)
  /\ wake' = (wake /\ ~At("wait"))
  /\ UNCHANGED <<front, reqs, answer, log, win, port, health, kernel, cqes,
                 lost, faulted>>

\* The intake is over: the mailbox is empty, and disconnected once the sender
\* is gone, or a Pause ended it.
Received ==
  IF At("reap") THEN re ELSE [re EXCEPT !.closed = @ \/ ~front.open]

\* Reactor::reap and complete_cqe: a CQE of no current owner is an error; a
\* cancelled dependency's result is ignored.
Reaped(q) ==
  [q EXCEPT !.pending = [t \in DOMAIN q.pending |->
     [q.pending[t] EXCEPT !.ready = @ \/ \E c \in cqes : c.token = t]]]
UnknownCqe ==
  \E c \in cqes : c.token \notin DOMAIN re.pending \/ re.pending[c.token].ready
FailedCqe ==
  \E c \in cqes : /\ ~c.ok /\ c.token \in DOMAIN re.pending
                  /\ ~re.pending[c.token].cancelled

\* run's deadlines: a transfer in the kernel, or a terminal drain, for 30 s.
Overdue(q) ==
  q.closed \/ \E t \in kernel : ~q.pending[t].dependency

\* The rest of a pass's head: reap, the gate and the deadlines.
Receive ==
  /\ At("reap") \/ ((Awake \/ At("receive")) /\ mailbox = <<>>)
  /\ wake' = (wake /\ ~At("wait"))
  /\ \E late \in {FALSE} \cup {x \in {TRUE} : /\ "timeout" \in Faults
                                               /\ ~faulted /\ ~health
                                               /\ Overdue(Received)} :
       LET q == Reaped(Received)
           dead == re.failed \/ FailedCqe \/ health \/ late
       IN  /\ re' = IF UnknownCqe THEN Stopping(q)
                    ELSE IF dead THEN EnterFinish(Failing(q))
                    ELSE [q EXCEPT !.pc = "poll"]
           /\ health' = dead
           /\ port' = IF dead THEN Aborted(port) ELSE port
           /\ faulted' = (faulted \/ late)
  /\ cqes' = {}
  /\ UNCHANGED <<front, reqs, answer, mailbox, log, win, kernel, lost>>

Events == {"allocate", "select", "rotated", "published", "deferred", "quiesce",
           "resume"}

\* Log::drained.
Drained(l) ==
  /\ ~l.rotating /\ l.cohort = NoCohort
  /\ l.issued = l.published /\ l.durable = l.published

\* Port::poll on one event of the worker or the collector.
PollEvent ==
  /\ At("poll") /\ port.job \in Events
  /\ LET idle == [port EXCEPT !.job = "idle", !.active = FALSE]
     IN  \/ /\ health
            /\ port' = [port EXCEPT !.active = FALSE]
            /\ re' = Stopping(re)
            /\ UNCHANGED <<log, win>>
         \/ /\ ~health /\ port.job = "allocate"
            /\ \/ /\ port.rotation = "none"
                  /\ port' = idle /\ UNCHANGED <<log, win, re>>
               \/ /\ port.rotation # "none"
                  /\ win' = Require(win, AtPoint(win) /\ win.wanted
                                           /\ win.unsubmitted = 0)
                  /\ \/ /\ ~win'.failed /\ port.holds < MaxHolds
                        /\ port' = [idle EXCEPT !.holds = @ + 1]
                        /\ UNCHANGED <<log, re>>
                     \/ /\ ~win'.failed /\ Drained(log)
                        /\ port' = [port EXCEPT !.job = "prepared"]
                        /\ log' = [log EXCEPT !.rotating = TRUE]
                        /\ UNCHANGED re
                     \/ /\ win'.failed \/ ~Drained(log)
                        /\ re' = Stopping(re)
                        /\ UNCHANGED <<log, port>>
         \/ /\ ~health /\ port.job = "select"
            /\ port' = IF log.durable > log.compacted
                         THEN [port EXCEPT !.job = "selected",
                                           !.through = log.durable]
                         ELSE idle
            /\ UNCHANGED <<log, win, re>>
         \/ /\ ~health /\ port.job = "rotated"
            /\ log' = [log EXCEPT !.seg = @ + 1, !.end = 1, !.fenced = FALSE,
                                  !.rotating = FALSE]
            /\ port' = [idle EXCEPT !.rotation = "none"]
            /\ UNCHANGED <<win, re>>
         \/ /\ ~health /\ port.job = "published"
            /\ log' = [log EXCEPT !.compacted = port.through]
            /\ port' = idle /\ UNCHANGED <<win, re>>
         \/ /\ ~health /\ port.job = "deferred"
            /\ log' = [log EXCEPT !.rotating = FALSE]
            /\ port' = idle /\ UNCHANGED <<win, re>>
         \/ /\ ~health /\ port.job = "quiesce"
            /\ port' = IF port.rotation = "fresh"
                         THEN [port EXCEPT !.hold = "open", !.job = "idle"]
                         ELSE [CancelRollover(idle) EXCEPT
                                 !.quiescence = "asked"]
            /\ UNCHANGED <<log, win, re>>
         \/ /\ ~health /\ port.job = "resume"
            /\ port' = [port EXCEPT !.quiescence = "none", !.hold = "open",
                                    !.job = "idle"]
            /\ UNCHANGED <<log, win, re>>
  /\ UNCHANGED <<front, reqs, answer, mailbox, health, kernel, cqes, wake,
                 lost, faulted>>

\* The rest of Port::poll (queue the next turn) and Window::installed.  A
\* rotation the owner deferred is retried later; a compaction may go first.
PollTurn ==
  /\ At("poll") /\ port.job \notin Events
  /\ LET p == IF re.closed THEN CancelRollover(port) ELSE port
         free == ~p.active /\ p.quiescence = "none" /\ p.hold = "open"
         turns == {"none"}
                  \cup {t \in {"rotate"} : free /\ p.rotation # "none"}
                  \cup {t \in {"compact"} : /\ free /\ ~re.held /\ ~re.closed
                                            /\ log.durable > log.compacted}
         here == Position(log)
         successor == /\ win.wanted /\ win.unsubmitted = 0
                      /\ here.seg > win.point.seg /\ here.end = 1
                      /\ here.issued = win.point.issued
                      /\ here.fenced = here.issued /\ here.initial
         fresh == [win EXCEPT !.point = here, !.wanted = FALSE,
                              !.capacity = AppendCapacity(log)]
     IN  /\ \E turn \in turns :
              port' = IF turn = "none" THEN p
                      ELSE [p EXCEPT !.job = turn, !.active = TRUE]
         /\ win' = IF here.seg = win.point.seg THEN Require(win, AtPoint(win))
                   ELSE Require(fresh, successor /\ Bounded(fresh))
         /\ re' = [re EXCEPT !.pc = IF win'.failed THEN "stop" ELSE "publish"]
  /\ UNCHANGED <<front, reqs, answer, mailbox, log, health, kernel, cqes,
                 wake, lost, faulted>>

\* Reactor::publish for the oldest append, under the completion gate, and
\* finish_append's success for every WRITE of the batch.
Publishable ==
  /\ re.appends # <<>> /\ ~health
  /\ re.pending[Head(re.appends)].ready
PublishAppend ==
  /\ At("publish") /\ Publishable
  /\ LET t == Head(re.appends) IN
       /\ log' = [log EXCEPT !.published = re.pending[t].last]
       /\ answer' = Answer(answer, ToSet(re.pending[t].ids), "ok")
       /\ re' = [re EXCEPT !.appends = Tail(@), !.pending = Without(@, t)]
  /\ UNCHANGED <<front, reqs, mailbox, win, port, health, kernel, cqes, wake,
                 lost, faulted>>

\* publish has nothing further; Window::refresh; finish_ready collects tokens.
Published ==
  /\ At("publish") /\ ~Publishable
  /\ LET sampled == [win EXCEPT !.capacity = AppendCapacity(log)]
     IN  win' = [Require(sampled, AtPoint(win) /\ Bounded(sampled)) EXCEPT
                   !.pressure = @ /\ win.unsubmitted >= sampled.capacity]
  /\ re' = IF win'.failed THEN Stopping(re) ELSE EnterFinish(re)
  /\ UNCHANGED <<front, reqs, answer, mailbox, log, port, health, kernel, cqes,
                 wake, lost, faulted>>

\* fail_read and fail_io: a read whose plan or bytes do not verify fails the
\* image (and, for a shared chunk, the host).
FailRead(q, ids) ==
  /\ "io" \in Faults /\ ~faulted
  /\ faulted' = TRUE /\ health' = TRUE /\ port' = Aborted(port)
  /\ re' = Failing(q) /\ answer' = Answer(answer, ToSet(ids), "err")

\* finish_ready for the least completed token: rejected once failed, a read
\* advanced or answered, a fence written, synced or still waiting.
Finish ==
  /\ At("finish") /\ re.todo # {}
  /\ LET t == CHOOSE k \in re.todo : \A j \in re.todo : k <= j
         w == re.pending[t]
         skip == IF re.todo = {t} THEN AfterFinish([re EXCEPT !.todo = {}])
                 ELSE [re EXCEPT !.todo = @ \ {t}]
         gone == [skip EXCEPT !.pending = Without(@, t)]
         Again(v) == [skip EXCEPT !.pending[t] = v]
     IN  \/ /\ re.failed
            /\ re' = [gone EXCEPT !.cohort = IF w.op = "fence" THEN 0 ELSE @]
            /\ answer' = Answer(answer, ToSet(w.ids), "err")
            /\ UNCHANGED <<log, kernel, lost, port, health, faulted>>
         \/ /\ ~re.failed /\ w.op = "append"
            /\ re' = skip
            /\ UNCHANGED <<answer, log, kernel, lost, port, health, faulted>>
         \/ /\ ~re.failed /\ w.op = "read"
            /\ FailRead([gone EXCEPT !.pc = IF @ = "dispatch" THEN "reject" ELSE @],
                        w.ids)
            /\ UNCHANGED <<log, kernel, lost>>
         \/ /\ ~re.failed /\ w.op = "read" /\ w.left = 0
            /\ re' = gone /\ answer' = Answer(answer, ToSet(w.ids), "ok")
            /\ UNCHANGED <<log, kernel, lost, port, health, faulted>>
         \/ /\ ~re.failed /\ w.op = "read" /\ w.left > 0
            /\ re' = [Again([w EXCEPT !.left = @ - 1, !.ready = FALSE]) EXCEPT
                        !.bulk = Append(@, t)]
            /\ UNCHANGED <<answer, log, kernel, lost, port, health, faulted>>
         \/ /\ ~re.failed /\ w.op = "fence" /\ w.syncing /\ health
            /\ re' = [gone EXCEPT !.pc = "stop"]
            /\ lost' = lost \cup ToSet(w.ids)
            /\ UNCHANGED <<answer, log, kernel, port, health, faulted>>
         \/ /\ ~re.failed /\ w.op = "fence" /\ w.syncing /\ ~health
            /\ log' = [log EXCEPT !.durable = w.last, !.fenced = TRUE,
                                  !.cohort = NoCohort]
            /\ re' = [gone EXCEPT !.cohort = 0]
            /\ answer' = Answer(answer, ToSet(w.ids), "ok")
            /\ UNCHANGED <<kernel, lost, port, health, faulted>>
         \/ /\ ~re.failed /\ w.op = "fence" /\ ~w.syncing
            /\ IF log.published = w.last
                 THEN /\ re' = Again([w EXCEPT !.syncing = TRUE, !.ready = FALSE])
                      /\ kernel' = kernel \cup {t}
                 ELSE re' = skip /\ UNCHANGED kernel
            /\ UNCHANGED <<answer, log, lost, port, health, faulted>>
  /\ UNCHANGED <<front, reqs, mailbox, win, cqes, wake>>

\* dispatch while the collector holds the image: fence the published prefix,
\* then acknowledge; later commands stay queued.
Quiescing ==
  /\ At("dispatch") /\ port.quiescence # "none"
  /\ IF DOMAIN re.pending # {} \/ re.reads # <<>> \/ re.appends # <<>>
       THEN /\ re' = ToSubmit(re, port)
            /\ UNCHANGED <<answer, health, kernel, log, win, port, lost>>
     ELSE IF ~CoversFlush(log, log.published)
       THEN StartFence([re EXCEPT !.pc = "submit"], <<>>)
       ELSE /\ port' = [port EXCEPT !.quiescence = "acked"]
            /\ re' = ToSubmit(re, port)
            /\ UNCHANGED <<answer, health, kernel, log, win, lost>>
  /\ UNCHANGED <<front, reqs, mailbox, cqes, wake, faulted>>

Dispatching(op) ==
  /\ At("dispatch") /\ port.quiescence = "none"
  /\ re.commands # <<>> /\ Head(re.commands).op = op
Popped == [re EXCEPT !.commands = Tail(@)]
Break(q) == AfterBreak(q)

\* A FLUSH: already covered, blocked by a rotation or a later boundary, one
\* more waiter of the open cohort, or the first of a new one.
DispatchFlush ==
  /\ Dispatching("flush")
  /\ LET c == Head(re.commands) IN
     \/ /\ CoversFlush(log, c.boundary)
        /\ re' = Popped /\ answer' = Answer(answer, ToSet(c.ids), "ok")
        /\ UNCHANGED <<health, kernel, log, win, port, lost>>
     \/ /\ ~CoversFlush(log, c.boundary)
        /\ \/ port.rotation # "none"
           \/ /\ ~re.held /\ re.cohort # 0
              /\ c.boundary > re.pending[re.cohort].last
        /\ re' = Break(re)
        /\ UNCHANGED <<answer, health, kernel, log, win, port, lost>>
     \/ /\ ~CoversFlush(log, c.boundary) /\ port.rotation = "none" /\ re.held
        /\ re' = Stopping(re)
        /\ UNCHANGED <<answer, health, kernel, log, win, port, lost>>
     \/ /\ ~CoversFlush(log, c.boundary) /\ port.rotation = "none" /\ ~re.held
        /\ re.cohort # 0 /\ c.boundary <= re.pending[re.cohort].last
        /\ re' = [Popped EXCEPT !.pending[re.cohort].ids = @ \o c.ids]
        /\ UNCHANGED <<answer, health, kernel, log, win, port, lost>>
     \/ /\ ~CoversFlush(log, c.boundary) /\ port.rotation = "none" /\ ~re.held
        /\ re.cohort = 0
        /\ StartFence(Popped, c.ids)
  /\ UNCHANGED <<front, reqs, mailbox, cqes, wake, faulted>>

\* An append: waits for the open cohort or a rotation, else Window::append
\* spends its slots and the batch is owned by the kernel path.
DispatchAppend ==
  /\ Dispatching("append")
  /\ LET c == Head(re.commands)
         n == Len(c.ids)
         issued == [log EXCEPT !.issued = @ + n, !.end = @ + BatchBlocks(ToSet(c.ids))]
         spent == [Spend(win, ToSet(c.ids)) EXCEPT !.point = Position(issued),
                                             !.capacity = AppendCapacity(issued)]
     IN  \/ /\ \/ port.rotation # "none"
               \/ ~re.held /\ (log.cohort # NoCohort \/ log.rotating)
            /\ re' = Break(re)
            /\ UNCHANGED <<answer, health, kernel, log, win>>
         \/ /\ port.rotation = "none"
            /\ re.held \/ (log.cohort = NoCohort /\ ~log.rotating)
            /\ IF \/ re.held \/ n > AppendCapacity(log) \/ ~AtPoint(win)
                  \/ log.end + BatchBlocks(ToSet(c.ids)) + 1 > Capacity
                 THEN /\ re' = Stopping(re)
                      /\ UNCHANGED <<answer, health, kernel, log, win>>
                 ELSE /\ log' = issued
                      /\ win' = Require(spent, Bounded(spent))
                      /\ Own(Popped, Work("append", c.ids, issued.issued))
  /\ UNCHANGED <<front, reqs, mailbox, port, cqes, wake, lost, faulted>>

\* Pause waits for every owner and background turn; the reply to a caller
\* that gave up is an error.
DispatchPause ==
  /\ Dispatching("pause")
  /\ port' = CancelRollover(port)
  /\ IF \/ port'.rotation # "none" \/ port.active
        \/ DOMAIN re.pending # {} \/ re.reads # <<>>
       THEN re' = Break(re) /\ UNCHANGED front
       ELSE IF front.barrier = "abandoned"
              THEN re' = Stopping([Popped EXCEPT !.held = TRUE])
                   /\ UNCHANGED front
              ELSE /\ re' = Break([Popped EXCEPT !.held = TRUE])
                   /\ front' = [front EXCEPT
                        !.barrier = IF health THEN "failed" ELSE "none",
                        !.paused = ~health]
  /\ UNCHANGED <<reqs, answer, mailbox, log, win, health, kernel, cqes, wake,
                 lost, faulted>>

DispatchResume ==
  /\ Dispatching("resume")
  /\ re' = IF port.rotation # "none" THEN Break(re)
           ELSE [Popped EXCEPT !.held = FALSE]
  /\ UNCHANGED <<front, reqs, answer, mailbox, log, win, port, health, kernel,
                 cqes, wake, lost, faulted>>

\* NewAttachment: fence the published prefix, rotate to a fresh segment, fence
\* that, and only then reply.
DispatchAttach ==
  /\ Dispatching("attach")
  /\ IF port.rotation # "none"
       \/ (re.held /\ (DOMAIN re.pending # {} \/ re.reads # <<>>))
       THEN /\ re' = Break(re)
            /\ UNCHANGED <<front, answer, health, kernel, log, win, port, lost>>
     ELSE IF ~re.held
       THEN /\ re' = Stopping(re)
            /\ UNCHANGED <<front, answer, health, kernel, log, win, port, lost>>
     ELSE IF ~CoversFlush(log, log.published)
       THEN StartFence(Break(re), <<>>) /\ UNCHANGED front
     ELSE IF ~Head(re.commands).rotated
       THEN /\ re' = [Break(re) EXCEPT !.commands[1].rotated = TRUE]
            /\ port' = Rotating(port, "fresh")
            /\ win' = [win EXCEPT !.wanted = TRUE]
            /\ UNCHANGED <<front, answer, health, kernel, log, lost>>
     ELSE /\ IF front.barrier = "abandoned"
               THEN re' = Stopping(Popped) /\ UNCHANGED front
               ELSE /\ re' = Popped
                    /\ front' = [front EXCEPT
                         !.barrier = IF health THEN "failed" ELSE "none",
                         !.admitted = IF health THEN @ ELSE log.published]
          /\ UNCHANGED <<answer, health, kernel, log, win, port, lost>>
  /\ UNCHANGED <<reqs, mailbox, cqes, wake, faulted>>

DispatchNone ==
  /\ At("dispatch") /\ port.quiescence = "none" /\ re.commands = <<>>
  /\ re' = Break(re)
  /\ UNCHANGED <<front, reqs, answer, mailbox, log, win, port, health, kernel,
                 cqes, wake, lost, faulted>>

\* start_read: answered at once, owned through two transfers, or waiting for
\* another image's fetch of the same chunk.
ReadReady ==
  re.reads # <<>> /\ Head(re.reads).boundary <= log.published /\ ~re.failed
StartRead ==
  /\ At("reads") /\ ReadReady
  /\ LET c == Head(re.reads)
         rest == [re EXCEPT !.reads = Tail(@)]
     IN  \/ /\ re' = rest /\ answer' = Answer(answer, ToSet(c.ids), "ok")
            /\ UNCHANGED <<health, kernel, port, faulted>>
         \/ FailRead([rest EXCEPT !.pc = "reject"], c.ids) /\ UNCHANGED kernel
         \/ /\ \E dep \in BOOLEAN :
                 Own(rest, [Work("read", c.ids, c.boundary) EXCEPT
                              !.left = IF dep THEN 0 ELSE 1,
                              !.dependency = dep])
            /\ UNCHANGED <<port, faulted>>
  /\ UNCHANGED <<front, reqs, mailbox, log, win, cqes, wake, lost>>

\* The end of dispatch: sync_for_compaction, drain_window and the idle sync
\* start at most one fence; a drained window rotates.
DispatchTail ==
  /\ At("reads") /\ ~ReadReady /\ ~re.failed
  /\ LET quiet == ~re.closed /\ ~re.held /\ re.cohort = 0
                    /\ port.rotation = "none"
         unsynced == log.issued > log.durable
         draining == /\ quiet /\ (win.wanted \/ win.pressure)
                     /\ win.unsubmitted = 0 /\ log.issued = log.published
         next == [re EXCEPT !.pc = "submit"]
     IN  \/ /\ quiet /\ unsynced \* pressure, one second, or 50 ms idle
            /\ StartFence(next, <<>>)
         \/ /\ ~(quiet /\ win.pressure /\ unsynced)
            /\ IF draining /\ log.durable # log.published
                 THEN StartFence(next, <<>>)
               ELSE IF draining /\ win.wanted
                 THEN /\ port' = Rotating(port, "roll")
                      /\ re' = next
                      /\ UNCHANGED <<answer, health, kernel, log, win, lost>>
               ELSE /\ re' = ToSubmit(re, port)
                    /\ UNCHANGED <<answer, health, kernel, log, win, port, lost>>
  /\ UNCHANGED <<front, reqs, mailbox, cqes, wake, faulted>>

\* Reactor::submit_bulk: the host scheduler grants the oldest queued transfer.
SubmitBulk ==
  /\ At("submit") /\ ~re.failed /\ re.bulk # <<>>
  /\ re' = [re EXCEPT !.bulk = Tail(@)]
  /\ kernel' = kernel \cup {Head(re.bulk)}
  /\ UNCHANGED <<front, reqs, answer, mailbox, log, win, port, health, cqes,
                 wake, lost, faulted>>

Submitted ==
  /\ At("submit")
  /\ re' = IF re.failed THEN [re EXCEPT !.pc = "reject"] ELSE EndPass(re, port)
  /\ UNCHANGED <<front, reqs, answer, mailbox, log, win, port, health, kernel,
                 cqes, wake, lost, faulted>>

\* The reply of a pause or a rotated attachment has no receiver any more.
Unheard(c) ==
  /\ front.barrier = "abandoned"
  /\ c.op = "pause" \/ (c.op = "attach" /\ c.rotated)

\* reject_queued: queued bulk owners, commands (Worker::execute on a failed
\* image) and reads are answered with errors, up to a reply nobody hears.
\* "fatal" is that error; the rest of q stays queued.
RejectQueued(q) ==
  LET cut == SelectInSeq(q.commands, Unheard)
      run == IF cut = 0 THEN q.commands ELSE SubSeq(q.commands, 1, cut)
      queued == UNION {ToSet(q.pending[t].ids) : t \in ToSet(q.bulk)}
      unread == IF cut = 0 THEN IdsOf(q.reads) ELSE {}
  IN  /\ answer' = Answer(answer, queued \cup IdsOf(run) \cup unread, "err")
      /\ win' = Refund(win, run)
      /\ front' = [front EXCEPT !.barrier =
           IF /\ @ \in {"pause", "attach"}
              /\ \E i \in DOMAIN run : run[i].op \in {"pause", "attach"}
             THEN "failed" ELSE @]
      /\ LET left == [q EXCEPT
                !.bulk = <<>>,
                !.pending = [t \in DOMAIN q.pending \ ToSet(q.bulk) |->
                               q.pending[t]],
                !.commands = IF cut = 0 THEN <<>>
                             ELSE SubSeq(q.commands, cut + 1, Len(q.commands)),
                !.reads = IF cut = 0 THEN <<>> ELSE q.reads]
         IN  re' = IF At("close") THEN [left EXCEPT !.pc = "drop"]
                   ELSE IF cut # 0 THEN Stopping(left)
                   ELSE EndPass(left, Aborted(port))

\* Mutant: a cancelled dependency is dropped at once.
CancelledAtOnce(pending) ==
  [t \in {k \in DOMAIN pending : ~(k \in kernel /\ pending[k].dependency)} |->
     pending[t]]
\* cancel_dependencies: PollRemove for each dependency still in the kernel.
Cancelled(pending) ==
  [t \in DOMAIN pending |->
     IF t \in kernel /\ pending[t].dependency
       THEN [pending[t] EXCEPT !.cancelled = TRUE] ELSE pending[t]]

\* The failed image's pass: nothing queued survives it, unless a reply fails.
Reject ==
  /\ At("reject")
  /\ RejectQueued([re EXCEPT !.pending = Cancelled(re.pending)])
  /\ UNCHANGED <<reqs, mailbox, log, port, health, kernel, cqes, wake, lost,
                 faulted>>

\* Reactor::stop: fail and close the mailbox.
Stop ==
  /\ At("stop")
  /\ re' = [Failing(re) EXCEPT !.pc = "close"]
  /\ health' = TRUE /\ port' = Aborted(port)
  /\ UNCHANGED <<front, reqs, answer, mailbox, log, win, kernel, cqes, wake,
                 lost, faulted>>

\* The rest of stop: reject what the mailbox still held.  What a second
\* unheard reply leaves queued is dropped with the reactor.
RejectClosed ==
  /\ At("close") /\ mailbox = <<>>
  /\ RejectQueued([re EXCEPT !.pending = Cancelled(re.pending)])
  /\ UNCHANGED <<reqs, mailbox, log, port, health, kernel, cqes, wake, lost,
                 faulted>>

\* Reactor::drop: wait for the kernel, then reject every completed owner.
Drop ==
  /\ At("drop") /\ kernel \cap DOMAIN re.pending = {}
  /\ lost' = lost \cup IdsOf(re.commands) \cup IdsOf(re.reads)
  /\ answer' = [i \in Ids |->
       IF \E t \in DOMAIN re.pending : i \in ToSet(re.pending[t].ids)
         THEN Append(answer[i], "err") ELSE answer[i]]
  /\ re' = [re EXCEPT !.pc = "gone", !.pending = <<>>, !.commands = <<>>,
                                     !.reads = <<>>, !.cohort = 0]
  /\ cqes' = {}
  /\ win' = Refund(win, re.commands)
  /\ UNCHANGED <<front, reqs, mailbox, log, port, health, kernel, wake,
                 faulted>>

-----------------------------------------------------------------------------
InitLog ==
  [seg |-> 1, end |-> 2, issued |-> 0, published |-> 0, durable |-> 0,
   fenced |-> TRUE, cohort |-> NoCohort, rotating |-> FALSE, compacted |-> 0]

\* Local::start and Reactor::new on a log whose attachment fence is synced.
Init ==
  /\ front = [packing |-> <<>>, admitted |-> 0, open |-> TRUE, paused |-> FALSE,
              barrier |-> "none", barriers |-> 0]
  /\ reqs = <<>> /\ answer = [i \in Ids |-> <<>>] /\ mailbox = <<>>
  /\ log = InitLog
  /\ win = [reserved |-> 0, unsubmitted |-> 0, wanted |-> FALSE,
            pressure |-> FALSE, failed |-> FALSE, point |-> Position(InitLog),
            capacity |-> AppendCapacity(InitLog)]
  /\ port = [rotation |-> "none", active |-> FALSE, job |-> "idle",
             through |-> 0, quiescence |-> "none", hold |-> "open", holds |-> 0]
  /\ health = FALSE
  /\ re = [pc |-> "wait", commands |-> <<>>, reads |-> <<>>,
           pending |-> <<>>, appends |-> <<>>, bulk |-> <<>>, todo |-> {},
           token |-> 1, cohort |-> 0, failed |-> FALSE, closed |-> FALSE,
           held |-> FALSE, timed |-> FALSE]
  /\ kernel = {} /\ cqes = {} /\ wake = FALSE /\ lost = {} /\ faulted = FALSE

Client ==
  \/ \E kind \in Kinds \cap {"write", "zero"} : Mutate(kind)
  \/ \E kind \in Kinds \cap {"read", "flush"} : Enqueue(kind)
  \/ \E op \in {"pause", "attach"} : Barrier(op)
  \/ Resume \/ Close

Loop ==
  \/ TakeCommand \/ Receive \/ PollEvent \/ PollTurn \/ PublishAppend
  \/ Published \/ Finish \/ Quiescing
  \/ DispatchFlush \/ DispatchAppend \/ DispatchPause \/ DispatchResume
  \/ DispatchAttach \/ DispatchNone \/ StartRead \/ DispatchTail
  \/ SubmitBulk \/ Submitted \/ Reject \/ Stop \/ RejectClosed \/ Drop

Next ==
  \/ Client \/ Seal \/ BarrierTimeout
  \/ \E t \in kernel, ok \in BOOLEAN : Complete(t, ok)
  \/ FailGate \/ Grant \/ WorkerIO \/ Hold
  \/ Loop

Spec == Init /\ [][Next]_vars

\* The reactor thread keeps running.  Around it the kernel completes every
\* transfer, the worker finishes its turns, the collector ends the collection
\* it began, the host scheduler grants queued transfers, the queue thread
\* seals its batch and the timers that hold back a background turn expire.
\* Each of these happens a bounded number of times, so one condition on all of
\* them is as strong as one on each; it is strong fairness because
\* BetweenPasses recurs.
Around ==
  \/ \E t \in kernel : Complete(t, TRUE)
  \/ Grant \/ WorkerIO \/ Seal \/ SubmitBulk
  \/ port.hold # "open" /\ Hold
  \/ ~port.active /\ PollTurn /\ port'.active
FairSpec == Spec /\ WF_vars(Loop) /\ SF_vars(Around)

-----------------------------------------------------------------------------
(* Properties                                                              *)

\* The window's counters are exactly the framing of the mutations admitted and
\* not yet issued: the open batch, the mailbox and the reactor's queue.  A slot
\* leaked or returned twice on any error path shows here (window.rs State).
WindowAccounted ==
  LET waiting == ToSet(front.packing) \cup BatchIds(mailbox)
                 \cup BatchIds(re.commands)
  IN  /\ win.unsubmitted = Cardinality(waiting)
      /\ win.reserved = Framing(waiting)
      /\ win.unsubmitted >= 0 /\ WindowUsed(win) <= Capacity

\* A request is answered at most once, and a success tells the truth: a FLUSH
\* is answered once its boundary is durable, a READ or WRITE once every
\* mutation up to its boundary is published (dispatch, publish, finish_ready).
AnswersHonest ==
  \A i \in DOMAIN reqs :
    /\ Len(answer[i]) <= 1
    /\ answer[i] = <<"ok">> =>
         IF reqs[i].kind = "flush" THEN log.durable >= reqs[i].boundary
         ELSE log.published >= reqs[i].boundary

\* Without an injected fault no check of the reactor fails: admission left room
\* for every fence and append, the window agrees with the log, a rotation finds
\* the log drained and each CQE has its owner (the Err returns of dispatch,
\* start_fence, Port::poll, Window and complete_cqe).
NeverStops == At("stop") => faulted

\* "No owner is removed until its CQE": whatever the kernel may still touch is
\* owned by a pending entry that has not been completed (push_now, Drop).
KernelOwned ==
  \A t \in kernel : t \in DOMAIN re.pending /\ ~re.pending[t].ready

\* new_attachment returns only with the image on a fresh segment holding
\* nothing but its own synced fence, every earlier mutation durable.
AttachmentFresh ==
  [][front.barrier = "attach" /\ front'.barrier = "none" =>
       log.fenced /\ log.durable = log.issued /\ log.end = 2]_vars

\* Every accepted request is eventually answered (or its fence was dropped
\* after the gate failed, see "lost"), a pause or attachment the queue thread
\* waits for eventually returns, and a healthy image eventually acknowledges
\* the collector: Reactor::wait never sleeps on the last thing to be done.
EverythingReturns ==
  []<>/\ \A i \in DOMAIN reqs : Answered(i) \/ i \in lost
      /\ front.barrier \notin {"pause", "attach"}
      /\ health \/ port.quiescence # "asked"

=============================================================================
