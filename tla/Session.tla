------------------------------ MODULE Session ------------------------------
(***************************************************************************)
(* The life of a host process: every image of the catalog is recovered     *)
(* before any is served.  Cold recovery starts a new epoch per image       *)
(* before a socket exists; retained recovery first collects the carriers   *)
(* of all running guests, then repairs, fences and activates them together *)
(* (crates/cas/daemon/src/local/host/recovery.rs, recovery/frontend.rs,    *)
(* recovery/live.rs, backend/recovery.rs).  One service thread per image   *)
(* owns the socket (service.rs), a supervisor joins them                   *)
(* (host_service.rs).  The process may die at any step; guests and their   *)
(* carriers outlive it.                                                    *)
(***************************************************************************)
EXTENDS Integers, FiniteSets

CONSTANTS
  Images,      \* images of the catalog, 1..n in canonical order
  Wide,        \* images whose guest sets up a second queue, not yet in use
  MaxStarts,   \* bound: host processes
  MaxWrites,   \* bound: guest writes
  MaxFaults,   \* bound: faults in a behaviour
  Faults       \* subset of {"crash", "leave", "error", "reboot", "change"}

ASSUME SessionConstants ==
  /\ IsFiniteSet(Images) /\ Images # {} /\ Images = 1..Cardinality(Images)
  /\ Wide \subseteq Images
  /\ {MaxStarts, MaxWrites, MaxFaults} \subseteq Nat
  /\ Faults \subseteq {"crash", "leave", "error", "reboot", "change"}

VARIABLES
  disk,     \* per image: epoch of the log, mutations it holds
  guest,    \* per image: the carrier its guest holds, or None
  img,      \* per image: service thread, backend and session
  rec,      \* the recovery thread
  gate,     \* HostGate.failure
  sup,      \* the supervisor
  due,      \* the recovery deadline has passed
  used      \* history: starts, writes, faults

vars == <<disk, guest, img, rec, gate, sup, due, used>>

\* A carrier: its epoch, FAILED, published prefix P, highest issued mutation,
\* the mutations answered to the guest, the queues initialised.
None == [epoch |-> 0]
Fresh(i) ==
  [epoch |-> disk[i].epoch, failed |-> FALSE, pub |-> disk[i].log,
   issued |-> disk[i].log, answered |-> disk[i].log, init |-> {}]

\* "out" is the Activated value waiting in the endpoint's mailbox, "limit" the
\* recovery deadline armed, "saved" the memory map the replay was validated on.
Unstarted ==
  [svc |-> "off", canceled |-> FALSE, failed |-> FALSE, broken |-> FALSE,
   phase |-> "AwaitingFd", storage |-> "opening", out |-> FALSE, attached |-> FALSE,
   event |-> FALSE, change |-> <<>>, limit |-> TRUE, mem |-> 0, saved |-> 0,
   queues |-> {}, frozen |-> {}]

\* A recovery thread before it starts: "seen" is what the inspection found, "left" the mutations still to replay.
Idle == [mode |-> "none", stage |-> "none", seen |-> [i \in Images |-> 0], got |-> {},
         inputs |-> {}, left |-> [i \in Images |-> 0], next |-> 1, fenced |-> {},
         sent |-> {}]

-----------------------------------------------------------------------------
(* Failure                                                                 *)

\* Gate::lock: a failed host fails the image with the first lock taken.
Broken(i) == img[i].broken \/ gate

\* Backend::fail: the gate, and with it the carrier it holds, fails; the
\* connection is shut down.  A failed backend refuses every message and event,
\* so what they would read is forgotten.
Holds(im) == im.phase # "AwaitingFd"
BackendFailed(im) ==
  [im EXCEPT !.failed = TRUE, !.broken = TRUE, !.event = FALSE, !.change = <<>>,
             !.mem = 0, !.saved = 0, !.queues = {}, !.frozen = {}]
CarrierFailed(i, im) ==
  IF Holds(im) /\ guest[i] # None THEN [guest[i] EXCEPT !.failed = TRUE]
                                  ELSE guest[i]
Fail(i) ==
  /\ img' = [img EXCEPT ![i] = BackendFailed(@)]
  /\ guest' = [guest EXCEPT ![i] = CarrierFailed(i, img[i])]
  /\ UNCHANGED <<disk, rec, gate, sup, due, used>>

-----------------------------------------------------------------------------
(* Starting and ending                                                     *)

Down == [stage |-> "down", canceled |-> FALSE]

\* The process has ended: only disks and guests remain.
Gone ==
  /\ img' = [i \in Images |-> Unstarted] /\ rec' = Idle /\ sup' = Down
  /\ gate' = FALSE /\ due' = FALSE

\* Inspection::scan: the roots are locked and read, nothing is repaired.
Scanned == disk
\* RetainedHost::start: an opening per image, each served at once.
Openings == [i \in Images |-> [Unstarted EXCEPT !.svc = "listen"]]

\* host_service::run: inspection, then cold recovery before any socket exists, or
\* a recovery thread that waits for the frontends of its openings.
Start(mode) ==
  /\ sup.stage = "down" /\ used.starts < MaxStarts
  /\ used' = [used EXCEPT !.starts = @ + 1]
  /\ rec' = [Idle EXCEPT !.mode = mode, !.seen = Scanned,
                         !.stage = IF mode = "cold" THEN "repair" ELSE "collect"]
  /\ img' = IF mode = "cold" THEN [i \in Images |-> Unstarted] ELSE Openings
  /\ sup' = [Down EXCEPT !.stage = IF mode = "cold" THEN "recover" ELSE "serve"]
  /\ gate' = FALSE /\ due' = FALSE
  /\ UNCHANGED <<disk, guest>>

\* Deadline: 60 s from the start; an image is bound by it until it has recovered.
Overdue(im) == due /\ im.limit
Expire ==
  /\ sup.stage # "down" /\ ~due /\ due' = TRUE
  /\ UNCHANGED <<disk, guest, img, rec, gate, sup, used>>

\* Deadline::run of a cold recovery: the caller gives up, the process ends.
ColdExpires ==
  /\ sup.stage = "recover" /\ due
  /\ Gone /\ UNCHANGED <<disk, guest, used>>

\* Backend::cold_attachment: GET may export a carrier of the new epoch.
ColdAttachment(im) ==
  [im EXCEPT !.svc = "listen", !.storage = "local", !.attached = TRUE]
\* Recovered::into_host, then Host::attach_cold and a service per image.
ColdServes ==
  /\ sup.stage = "recover" /\ rec.stage = "attach" /\ ~due
  /\ sup' = [sup EXCEPT !.stage = "serve"]
  /\ rec' = [rec EXCEPT !.stage = "ok"]
  /\ img' = [i \in Images |-> ColdAttachment(img[i])]
  /\ UNCHANGED <<disk, guest, gate, due, used>>

-----------------------------------------------------------------------------
(* The recovery thread                                                     *)

Notified ==
  [i \in Images |-> [img[i] EXCEPT !.event = ~img[i].failed /\ img[i].svc # "ended"]]

\* Failure, and the error path of the thread: the gate fails, every frontend is
\* notified.
RecoveryFails ==
  /\ rec' = [Idle EXCEPT !.mode = rec.mode, !.seen = rec.seen, !.stage = "failed"]
  /\ gate' = TRUE
  /\ img' = Notified
  /\ UNCHANGED <<disk, guest, sup, due, used>>

\* frontend::recover: one validated input of every image.
Collect(i) ==
  /\ rec.stage = "collect" /\ ~due /\ ~gate /\ i \in rec.inputs
  /\ rec' = [rec EXCEPT !.inputs = @ \ {i}, !.got = @ \cup {i}]
  /\ UNCHANGED <<disk, guest, img, gate, sup, due, used>>

\* Inspection::require and Checked::prepare_live over the complete set: the log
\* reaches the carrier's P, the epochs agree, and the entries the carrier
\* retains are the tail the log lacks.
Prepared(i) ==
  /\ guest[i] # None /\ rec.seen[i].log >= guest[i].pub
  /\ guest[i].epoch = rec.seen[i].epoch /\ rec.seen[i].log <= guest[i].issued
  /\ guest[i].answered <= rec.seen[i].log
\* Mutant: mutations the log already holds are replayed as well.
RemainingAll(i) == guest[i].issued - guest[i].answered
\* LivePlan.remaining: the retained mutations past the log's prefix.
Remaining(i) == guest[i].issued - rec.seen[i].log
Prepare ==
  /\ rec.stage = "collect" /\ ~due /\ ~gate /\ rec.got = Images
  /\ \A i \in Images : Prepared(i)
  /\ rec' = [rec EXCEPT !.stage = "repair",
                         !.left = [i \in Images |-> Remaining(i)]]
  /\ UNCHANGED <<disk, guest, img, gate, sup, due, used>>

\* Checked::recover_cold of an image: a new epoch, fenced.
ColdFence(i) ==
  /\ rec.mode = "cold"
  /\ disk' = [disk EXCEPT ![i].epoch = @ + 1]
  /\ rec' = [rec EXCEPT !.next = @ + 1, !.fenced = @ \cup {i}]
  /\ UNCHANGED guest
\* replay_next: the bytes gathered from the guest's memory are appended and
\* published to its carrier.
ReplayNext(i) ==
  /\ rec.mode = "retained" /\ rec.left[i] > 0
  /\ disk' = [disk EXCEPT ![i].log = @ + 1]
  /\ guest' = [guest EXCEPT ![i].pub = disk[i].log + 1]
  /\ rec' = [rec EXCEPT !.left[i] = @ - 1]
\* Prepared::recover of an image ends with its recovery fence.
LiveFence(i) ==
  /\ rec.mode = "retained" /\ rec.left[i] = 0
  /\ guest' = [guest EXCEPT ![i].pub = disk[i].log]
  /\ rec' = [rec EXCEPT !.next = @ + 1, !.fenced = @ \cup {i}]
  /\ UNCHANGED disk
\* stabilize, one image after the other.  A retained replay checks the deadline
\* and the image's gate at every publication.
Repair ==
  LET i == rec.next IN
    /\ rec.stage = "repair" /\ i \in Images
    /\ rec.mode = "retained" => ~due /\ ~Broken(i)
    /\ ColdFence(i) \/ ReplayNext(i) \/ LiveFence(i)
    /\ UNCHANGED <<img, gate, sup, due, used>>
\* Recovered: the whole graph is durable, into_host may take it.
RepairDone ==
  /\ rec.stage = "repair" /\ rec.next > Cardinality(Images)
  /\ rec' = [rec EXCEPT !.stage = "attach"]
  /\ UNCHANGED <<disk, guest, img, gate, sup, due, used>>

\* Gates::validate.
Unbroken == \A i \in Images : ~Broken(i)
\* Host::build_owned, and Host::local of every image.
AttachAll ==
  /\ rec.stage = "attach" /\ rec.mode = "retained" /\ ~due /\ Unbroken
  /\ rec' = [rec EXCEPT !.stage = "send"]
  /\ img' = [i \in Images |-> [img[i] EXCEPT !.attached = TRUE]]
  /\ UNCHANGED <<disk, guest, gate, sup, due, used>>

\* The deadline is checked once before the first value is sent.
Send ==
  /\ rec.stage = "send" /\ (rec.sent = {} => ~due) /\ sup.stage = "serve"
  /\ LET i == CHOOSE i \in Images \ rec.sent : \A j \in Images \ rec.sent : i <= j IN
       /\ rec' = [rec EXCEPT !.sent = @ \cup {i},
                    !.stage = IF Images \ rec.sent = {i} THEN "notify" ELSE @]
       /\ img' = [img EXCEPT ![i].out = TRUE]
  /\ UNCHANGED <<disk, guest, gate, sup, due, used>>

\* The thread notifies every frontend and ends with the host.
Notify ==
  /\ rec.stage = "notify"
  /\ rec' = [rec EXCEPT !.stage = "ok"] /\ img' = Notified
  /\ UNCHANGED <<disk, guest, gate, sup, due, used>>

\* Every check above that fails ends the thread.
RecoveryRefused ==
  /\ rec.mode = "retained" /\ sup.stage # "down"
  /\ \/ rec.stage = "collect"
          /\ (due \/ gate \/ (rec.got = Images /\ \E i \in Images : ~Prepared(i)))
     \/ rec.stage = "repair" /\ rec.next \in Images /\ (due \/ Broken(rec.next))
     \/ rec.stage = "attach" /\ (due \/ ~Unbroken)
     \/ rec.stage = "send" /\ ((rec.sent = {} /\ due) \/ sup.stage = "drop")
  /\ RecoveryFails

-----------------------------------------------------------------------------
(* Service threads                                                         *)

\* Service::connection waits for a frontend, its cancellation or the deadline.
Accept(i) ==
  /\ img[i].svc = "listen" /\ ~img[i].canceled /\ ~Overdue(img[i])
  /\ img' = [img EXCEPT ![i].svc = "accepted"]
  /\ UNCHANGED <<disk, guest, rec, gate, sup, due, used>>
Closing(i) ==
  /\ img' = [img EXCEPT ![i] = BackendFailed([@ EXCEPT !.svc = "closing"])]
  /\ guest' = [guest EXCEPT ![i] = CarrierFailed(i, img[i])]
  /\ UNCHANGED <<disk, rec, gate, sup, due, used>>
Refuse(i) ==
  /\ img[i].svc = "listen" /\ (img[i].canceled \/ Overdue(img[i]))
  /\ Closing(i)

\* Under the backend's lock: a failure recorded since, or the shutdown handle
\* that a later failure uses.
Connect(i) ==
  /\ img[i].svc = "accepted"
  /\ IF img[i].failed
       THEN Closing(i)
       ELSE /\ img' = [img EXCEPT ![i].svc = "connected"]
            /\ UNCHANGED <<disk, guest, rec, gate, sup, due, used>>

\* The connection ends: the frontend leaves, or the backend shuts it down.
Shut(i) ==
  /\ img[i].svc = "connected" /\ img[i].failed
  /\ img' = [img EXCEPT ![i].svc = "closing"]
  /\ UNCHANGED <<disk, guest, rec, gate, sup, due, used>>
Leave(i) ==
  /\ img[i].svc = "connected" /\ img[i].change = <<>>
  /\ \/ img[i].phase = "Active" /\ UNCHANGED used
     \/ /\ "leave" \in Faults /\ used.faults < MaxFaults
        /\ used' = [used EXCEPT !.faults = @ + 1]
  /\ img' = [img EXCEPT ![i].svc = "closing"]
  /\ UNCHANGED <<disk, guest, rec, gate, sup, due>>
\* The connection ends in an error, which serve makes the backend's.
Error(i) ==
  /\ img[i].svc = "connected" /\ img[i].change = <<>>
  /\ "error" \in Faults /\ used.faults < MaxFaults
  /\ used' = [used EXCEPT !.faults = @ + 1]
  /\ img' = [img EXCEPT ![i] = BackendFailed([@ EXCEPT !.svc = "closing"])]
  /\ guest' = [guest EXCEPT ![i] = CarrierFailed(i, img[i])]
  /\ UNCHANGED <<disk, rec, gate, sup, due>>

\* A read of image i waits for a fetch that image j leads: the reads of a failed
\* image are rejected and end the fetch, and fail_read makes the interrupted wait
\* a failure of image i and of the host.  A carrier is replaced only with no read
\* in flight.
Interrupted(i) ==
  /\ img[i].svc \in {"connected", "closing"} /\ img[i].phase = "Active" /\ ~Broken(i)
  /\ \E j \in Images \ {i} :
       /\ img[j].svc \in {"connected", "closing"} /\ img[j].phase = "Active"
       /\ img[j].broken /\ guest[j].epoch = disk[j].epoch
  /\ gate' = TRUE
  /\ img' = [img EXCEPT ![i].broken = TRUE, ![i].event = img[i].svc = "connected"]
  /\ guest' = [guest EXCEPT ![i] = CarrierFailed(i, img[i])]
  /\ UNCHANGED <<disk, rec, sup, due, used>>

\* What Service::serve reports when its thread ends; an image that was attached
\* has left the host.
Ended(im) ==
  [Unstarted EXCEPT !.svc = "ended", !.failed = im.failed, !.broken = im.broken,
     !.phase = im.phase, !.out = im.out, !.storage = im.storage,
     !.attached = im.attached /\ im.storage # "local"]
\* drain closes the reactor of the image once its accepted writes are appended.
Drain(i) ==
  /\ img[i].svc = "closing"
  /\ img[i].phase = "Active" => Broken(i) \/ guest[i].issued = disk[i].log
  /\ img' = [img EXCEPT ![i] = Ended(@)]
  /\ UNCHANGED <<disk, guest, rec, gate, sup, due, used>>

-----------------------------------------------------------------------------
(* Negotiation                                                             *)

\* A message the backend handles between begin_change and end_change.
Talks(i) == img[i].svc = "connected" /\ ~img[i].failed /\ img[i].change = <<>>

\* Backend::create_attachment (GET), for a guest without a carrier: it needs a
\* cold recovery of the same epoch; a retained opening refuses.
Get(i) ==
  /\ Talks(i) /\ img[i].phase = "AwaitingFd" /\ guest[i] = None
  /\ IF img[i].storage = "local"
       THEN /\ guest' = [guest EXCEPT ![i] = Fresh(i)]
            /\ img' = [img EXCEPT ![i].phase = "Fresh"]
            /\ UNCHANGED <<disk, rec, gate, sup, due, used>>
       ELSE Fail(i)

\* The barrier of a replacement runs, with the backend locked.
Attaching(i) == img[i].change # <<>> /\ img[i].change[1] = "epoch"
\* GET of an active guest, drained: Local::new_attachment makes a new epoch durable
\* and fences it.
Replace(i) ==
  /\ Talks(i) /\ img[i].phase = "Active" /\ ~Broken(i)
  /\ "change" \in Faults /\ used.faults < MaxFaults
  /\ used' = [used EXCEPT !.faults = @ + 1]
  /\ guest[i].answered = guest[i].issued
  /\ disk' = [disk EXCEPT ![i].epoch = @ + 1]
  /\ img' = [img EXCEPT ![i].change = <<"epoch", 0>>]
  /\ UNCHANGED <<guest, rec, gate, sup, due>>
\* Only then is a carrier of that epoch exported; an error in between fails the
\* backend, and the guest keeps a carrier of the epoch before.
Export(i) ==
  /\ img[i].svc = "connected" /\ ~img[i].failed /\ Attaching(i)
  /\ \/ /\ guest' = [guest EXCEPT ![i] = Fresh(i)]
        /\ img' = [img EXCEPT ![i].phase = "Fresh", ![i].queues = {},
                               ![i].change = <<"attach", 0>>]
        /\ UNCHANGED <<disk, rec, gate, sup, due, used>>
     \/ Fail(i)

\* Backend::restore_attachment (SET) and Carrier::attach: only a healthy carrier
\* of the inspected epoch, and only before cold recovery.
Set(i) ==
  /\ Talks(i) /\ img[i].phase = "AwaitingFd" /\ guest[i] # None
  /\ IF img[i].storage = "opening" /\ guest[i].epoch = rec.seen[i].epoch
          /\ ~guest[i].failed
       THEN /\ img' = [img EXCEPT ![i].phase = "Replay"]
            /\ UNCHANGED <<disk, guest, rec, gate, sup, due, used>>
       ELSE Fail(i)

\* A second memory map is a change no guest needs.
Faulty(i, change) == change[1] = "memory" /\ img[i].mem # 0

\* Mutant: any change is permitted while the shared recovery runs.
PermitsAll(i, change) == TRUE
\* Session::permits_change.
PermitsChange(i, change) ==
  \/ img[i].phase # "Waiting"
  \/ change[1] = "queue" /\ change[2] \notin img[i].frozen

\* begin_change, drained: admission pauses, or the change is refused.
Begin(i, change) ==
  /\ Talks(i) /\ Holds(img[i]) /\ (Faulty(i, change) => used.faults < MaxFaults)
  /\ img[i].phase = "Active" => guest[i].answered = guest[i].issued
  /\ change[1] = "queue" => img[i].mem # 0 /\ change[2] \notin img[i].queues
  /\ change[1] = "memory" => img[i].mem = 0 \/ "change" \in Faults
  /\ used' = [used EXCEPT !.faults = @ + IF Faulty(i, change) THEN 1 ELSE 0]
  /\ IF PermitsChange(i, change) /\ ~Overdue(img[i])
       THEN /\ img' = [img EXCEPT ![i].change = change]
            /\ UNCHANGED <<disk, guest, rec, gate, sup, due>>
       ELSE /\ img' = [img EXCEPT ![i] = BackendFailed(@)]
            /\ guest' = [guest EXCEPT ![i] = CarrierFailed(i, img[i])]
            /\ UNCHANGED <<disk, rec, gate, sup, due>>

\* Mutant: an event consumed while paused is not raised again.
RenotifyNever(im) == im.event
\* end_change: a kick or notification may have been consumed meanwhile.
Renotify(im) == im.event \/ (im.mem # 0 /\ im.queues # {})
\* The new map installed, or the queue rebased once its setup is complete.
Configured(im) ==
  [im EXCEPT !.change = <<>>,
     !.mem = IF im.change[1] = "memory" THEN @ + 1 ELSE @,
     !.queues = IF im.change[1] = "queue" THEN @ \cup {im.change[2]} ELSE @]
End(i) ==
  /\ img[i].svc = "connected" /\ ~img[i].failed
  /\ img[i].change # <<>> /\ ~Attaching(i)
  /\ LET im == Configured(img[i])
     IN  img' = [img EXCEPT ![i] = [im EXCEPT !.event = Renotify(im)]]
  /\ UNCHANGED <<disk, guest, rec, gate, sup, due, used>>

-----------------------------------------------------------------------------
(* Events of a connection                                                  *)

Consumed(i) ==
  /\ img' = [img EXCEPT ![i].event = FALSE]
  /\ UNCHANGED <<disk, guest, rec, gate, sup, due, used>>

\* activate_attachment of a fresh carrier.
ActivateFresh(i) ==
  /\ img' = [img EXCEPT ![i].phase = "Active", ![i].limit = FALSE, ![i].event = FALSE]
  /\ guest' = [guest EXCEPT ![i].init = img[i].queues]
  /\ UNCHANGED <<disk, rec, gate, sup, due, used>>

\* activate_attachment of a retained carrier: once every queue it knows is set
\* up the validated requests, with their guest memory, go to the recovery
\* thread (Endpoint::submit) and the queues freeze.
Submit(i) ==
  /\ img' = [img EXCEPT ![i].phase = "Waiting", ![i].frozen = img[i].queues,
                         ![i].saved = img[i].mem, ![i].event = FALSE]
  /\ rec' = [rec EXCEPT !.inputs = @ \cup {i}]
  /\ UNCHANGED <<disk, guest, gate, sup, due, used>>

\* Endpoint::poll.
Activated(i) == img[i].out
\* The loop of finish_attachment: every retained request is answered.
Replied(i) == [guest[i] EXCEPT !.answered = guest[i].issued, !.init = @ \cup img[i].queues]
\* finish_attachment, on the memory the replay was validated with.
Finish(i) ==
  IF img[i].saved # img[i].mem
    THEN Fail(i)
    ELSE /\ img' = [img EXCEPT ![i].phase = "Active", ![i].storage = "local",
                       ![i].out = FALSE, ![i].limit = FALSE, ![i].event = FALSE,
                       ![i].saved = 0, ![i].frozen = {}]
         /\ guest' = [guest EXCEPT ![i] = Replied(i)]
         /\ UNCHANGED <<disk, rec, gate, sup, due, used>>

\* Backend::process.
Handle(i) ==
  IF img[i].change # <<>> THEN Consumed(i)
  ELSE IF Broken(i) \/ img[i].mem = 0 \/ ~Holds(img[i]) THEN Fail(i)
  ELSE CASE img[i].phase = "Waiting" /\ Activated(i) -> Finish(i)
         [] img[i].phase = "Fresh" -> ActivateFresh(i)
         [] img[i].phase = "Replay" /\ guest[i].init \subseteq img[i].queues
              -> Submit(i)
         [] OTHER -> Consumed(i)

\* handle_event: of the completion event, or of a guest's kick.
Process(i) ==
  /\ img[i].svc = "connected" /\ ~img[i].failed /\ ~Attaching(i) /\ img[i].event
  /\ Handle(i)
Kick(i) ==
  /\ img[i].svc = "connected" /\ ~img[i].failed /\ ~Attaching(i)
  /\ img[i].queues # {}
  /\ Handle(i)

\* The deadline timer of a connection that has not recovered.
Timer(i) ==
  /\ img[i].svc = "connected" /\ ~img[i].failed /\ Overdue(img[i])
  /\ Fail(i)

\* A guest write: accepted into the carrier, appended, published and answered.
Write(i) ==
  /\ Talks(i) /\ img[i].phase = "Active" /\ ~Broken(i) /\ img[i].queues # {}
  /\ guest[i].answered = guest[i].issued /\ used.writes < MaxWrites
  /\ guest' = [guest EXCEPT ![i].issued = @ + 1]
  /\ used' = [used EXCEPT !.writes = @ + 1]
  /\ UNCHANGED <<disk, img, rec, gate, sup, due>>
Append(i) ==
  /\ img[i].svc \in {"connected", "closing"} /\ img[i].phase = "Active" /\ ~Broken(i)
  /\ disk[i].log < guest[i].issued
  /\ disk' = [disk EXCEPT ![i].log = @ + 1]
  /\ UNCHANGED <<guest, img, rec, gate, sup, due, used>>
Answer(i) ==
  /\ img[i].svc = "connected" /\ ~img[i].failed /\ ~Broken(i)
  /\ img[i].phase = "Active"
  /\ guest[i].answered < guest[i].issued /\ disk[i].log = guest[i].issued
  /\ guest' = [guest EXCEPT ![i].answered = disk[i].log, ![i].pub = disk[i].log]
  /\ UNCHANGED <<disk, img, rec, gate, sup, due, used>>

-----------------------------------------------------------------------------
(* The supervisor                                                          *)

\* A joined service's error.
Failed(i) == img[i].svc = "ended" /\ img[i].failed

\* run_services: the gate, the recovery thread's error, and, until that thread
\* has ended, any service's error.
Shared ==
  \/ gate \/ rec.stage = "failed"
  \/ rec.stage # "ok" /\ \E i \in Images : Failed(i)

\* Runtime::fail, then Control::cancel of every image, each with its backend's lock.
Cancel ==
  /\ sup.stage = "serve" /\ ~sup.canceled /\ Shared
  /\ \A i \in Images : ~Attaching(i)
  /\ sup' = [sup EXCEPT !.canceled = TRUE] /\ gate' = TRUE
  /\ img' = [i \in Images |-> BackendFailed([img[i] EXCEPT !.canceled = TRUE])]
  /\ guest' = [i \in Images |-> CarrierFailed(i, img[i])]
  /\ UNCHANGED <<disk, rec, due, used>>

\* Endpoint::drop.
Abandoned(i) == rec.mode = "retained" /\ img[i].storage = "opening"

\* Every service joined: dropping the controls drops the backends, and with them
\* an activation nobody took.
DropControls ==
  /\ sup.stage = "serve" /\ \A i \in Images : img[i].svc = "ended"
  /\ Shared => sup.canceled
  /\ sup' = [sup EXCEPT !.stage = "drop"]
  /\ gate' = (gate \/ \E i \in Images : Abandoned(i))
  /\ img' = [i \in Images |-> [img[i] EXCEPT !.out = FALSE,
                                             !.attached = @ /\ ~img[i].out]]
  /\ UNCHANGED <<disk, guest, rec, due, used>>

\* Host::shutdown refuses while an image is attached.
Detached == \A i \in Images : ~img[i].attached
\* The loop at the end of run: RetainedHost::host, then Host::shutdown.
ShutDown ==
  /\ sup.stage = "drop" /\ rec.stage \in {"ok", "failed"}
  /\ gate \/ rec.stage = "failed" \/ Detached
  /\ Gone /\ UNCHANGED <<disk, guest, used>>

-----------------------------------------------------------------------------
(* Environment                                                             *)

Crash ==
  /\ sup.stage # "down"
  /\ "crash" \in Faults /\ used.faults < MaxFaults
  /\ used' = [used EXCEPT !.faults = @ + 1]
  /\ Gone /\ UNCHANGED <<disk, guest>>

\* A guest that restarts forgets its carrier; the host notices at the next
\* negotiation, so only guests it does not hold are restarted.
Reboot(i) ==
  /\ "reboot" \in Faults /\ used.faults < MaxFaults /\ guest[i] # None
  /\ img[i].svc \in {"off", "listen", "ended"}
  /\ sup.stage # "down" => ~Holds(img[i])
  /\ guest' = [guest EXCEPT ![i] = None]
  /\ used' = [used EXCEPT !.faults = @ + 1]
  /\ UNCHANGED <<disk, img, rec, gate, sup, due>>

-----------------------------------------------------------------------------
\* Guests run on carriers of epoch 1, the first with a write in flight that the
\* log lacks and the second with one it holds.
Init ==
  /\ disk = [i \in Images |-> [epoch |-> 1, log |-> IF i = 1 THEN 0 ELSE 1]]
  /\ guest = [i \in Images |-> [epoch |-> 1, failed |-> FALSE, pub |-> 0,
                 issued |-> 1, answered |-> 0, init |-> {1}]]
  /\ img = [i \in Images |-> Unstarted] /\ rec = Idle
  /\ gate = FALSE /\ due = FALSE
  /\ sup = Down
  /\ used = [starts |-> 0, writes |-> 0, faults |-> 0]

Changes(i) ==
  {<<"memory", 0>>, <<"queue", 1>>} \cup {<<"queue", q>> : q \in {2 : j \in Wide \cap {i}}}

Service(i) == Refuse(i) \/ Connect(i) \/ Shut(i) \/ Drain(i)
Backend(i) == Export(i) \/ End(i) \/ Process(i) \/ Timer(i) \/ Append(i) \/ Answer(i)
Guest(i) ==
  \/ Accept(i) \/ Leave(i) \/ Error(i) \/ Get(i) \/ Set(i) \/ Replace(i) \/ Write(i)
  \/ Kick(i) \/ Reboot(i) \/ \E change \in Changes(i) : Begin(i, change)
Recovery ==
  \/ \E i \in Images : Collect(i)
  \/ Prepare \/ Repair \/ RepairDone \/ AttachAll \/ Send \/ Notify
  \/ RecoveryRefused \/ ColdExpires \/ ColdServes
Supervisor == Cancel \/ DropControls \/ ShutDown

Next ==
  \/ \E mode \in {"cold", "retained"} : Start(mode)
  \/ Expire \/ Crash \/ Recovery \/ Supervisor
  \/ \E i \in Images : Service(i) \/ Backend(i) \/ Guest(i) \/ Interrupted(i)

Spec == Init /\ [][Next]_vars

\* Threads of the process run; guests, operators and clocks owe nothing.
FairSpec ==
  /\ Spec
  /\ WF_vars(Recovery) /\ WF_vars(Supervisor)
  /\ \A i \in Images : WF_vars(Service(i)) /\ WF_vars(Backend(i))

-----------------------------------------------------------------------------
(* Properties                                                              *)

\* A replacement has stopped admission before its epoch begins.
Serving(i) ==
  img[i].phase = "Active" /\ img[i].svc = "connected" /\ ~Broken(i) /\ ~Attaching(i)

\* No image is repaired before every guest's requests are validated, replayed
\* bytes come from the memory and queues the guest still runs on, and no image
\* is served or answered before the last one is fenced.
RepairTogether ==
  /\ rec.mode = "retained" /\ rec.stage \notin {"collect", "failed"} =>
       /\ rec.got = Images
       /\ \A i \in Images : img[i].phase = "Waiting" =>
            img[i].mem = img[i].saved /\ img[i].frozen \subseteq img[i].queues
  /\ (\E i \in Images : Serving(i)) => rec.fenced = Images

\* Every write of a guest is in the log once, whatever the host's restarts
\* replayed, and was there before the guest saw it answered; a guest is served
\* only on a carrier of the log's own epoch that no failure has marked, in this
\* process or in an earlier one.
AppliedOnce ==
  \A i \in Images :
    /\ Serving(i) => guest[i].epoch = disk[i].epoch /\ ~guest[i].failed
    /\ guest[i] # None /\ guest[i].epoch = disk[i].epoch =>
         guest[i].answered <= disk[i].log /\ disk[i].log <= guest[i].issued

\* A canceled host exits, and once the deadline has passed or the recovery
\* thread has activated everyone, no image stays in between: it serves or its
\* service has ended.
Settled ==
  \/ sup.stage = "down"
  \/ /\ sup.stage = "serve" /\ ~sup.canceled
     /\ (due \/ rec.stage = "ok") /\ rec.mode = "retained" =>
          \A i \in Images : img[i].phase \in {"Fresh", "Active"} \/ img[i].svc = "ended"
     /\ \E i \in Images : img[i].svc # "ended"
  \/ sup.stage = "recover" /\ ~due /\ rec.stage # "attach"
Resolves == []<>Settled

=============================================================================
