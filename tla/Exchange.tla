----------------------------- MODULE Exchange ------------------------------
(***************************************************************************)
(* The shared host's background owner and the image reactors that exchange *)
(* events and replies with it (crates/cas/daemon/src/local/host.rs,        *)
(* host/worker.rs, host/collection.rs, host/snapshots.rs,                  *)
(* host/administration.rs, host/admission.rs).                             *)
(*                                                                         *)
(* Each image has one event slot and one reply slot; all images share one  *)
(* ready queue.  The owner compacts and rotates one image at a time, and   *)
(* quiesces all of them to collect or to publish a snapshot.  An image may *)
(* fail, leave or answer late at any point of the exchange.                *)
(***************************************************************************)
EXTENDS Integers, Sequences, FiniteSets

CONSTANTS
  Images,        \* images of the host, 1..n
  MaxMutations,  \* bound: guest mutations, all images together
  MaxRotations,  \* bound: rotations asked for, all images together
  MaxAdmin,      \* bound: collections and snapshots asked for
  Faults         \* injected faults, at most one per behaviour

ASSUME ExchangeConstants ==
  /\ IsFiniteSet(Images) /\ Images # {} /\ Images = 1..Cardinality(Images)
  /\ MaxMutations \in Nat /\ MaxRotations \in Nat /\ MaxAdmin \in Nat
  /\ Faults \subseteq {"image", "timeout", "refusal"}

VARIABLES
  img,       \* Port and what it uses of its reactor and log, per image
  events,    \* Endpoint.output: at most one event per image
  replies,   \* Endpoint.replies: at most one reply per image
  ready,     \* the owner's ready queue
  host,      \* admission, host gate, administrative claim, pressure
  owner,     \* Owner: phase, the exchange it waits for, quiescent endpoints
  manifest,  \* durable cut of each image's published root
  snaps,     \* snapshots published: image and cut
  excused    \* history: an injected fault, or an operation lost its image

vars == <<img, events, replies, ready, host, owner, manifest, snaps, excused>>

Room == Cardinality(Images) + 1   \* capacity of the ready queue
Healthy(i) == ~img[i].failed /\ ~host.gate
Attached(i) == img[i].up \in {"on", "stopped"}
Running(i) == img[i].up = "on" /\ Healthy(i) /\ img[i].turn = "none"
Entered == \E i \in Images : img[i].entries > 0

\* Event and Reply; "for" names the event a reply answers.
Event(op, gen) == [op |-> op, gen |-> gen]
Reply(op, for, gen) == [op |-> op, for |-> for, gen |-> gen]
Closed == <<Event("closed", 0)>>

-----------------------------------------------------------------------------
(* The image's reactor: guest owners, its log and Port                     *)

\* A failed or leaving image: what its port remembered of the exchange is never read again.
Left(p, up) ==
  [p EXCEPT !.up = up, !.entries = 0, !.active = FALSE, !.granted = FALSE,
            !.rotation = "none", !.rotating = FALSE, !.turn = "none", !.gen = 0,
            !.acked = FALSE, !.through = 0, !.retry = FALSE]
Failed(p, up) == [Left(p, up) EXCEPT !.failed = TRUE]

\* Port::abort for a failing reactor: a granted turn or an unanswered Quiesce
\* is told; any other wait is left to the owner's deadline.
Abort(i, up) ==
  /\ img' = [img EXCEPT ![i] = Failed(@, up)]
  /\ replies' = IF /\ replies[i] = <<>>
                   /\ \/ img[i].active /\ img[i].granted
                      \/ img[i].gen # 0 /\ ~img[i].acked
                  THEN [replies EXCEPT ![i] = <<Reply("failed", "abort", 0)>>]
                  ELSE replies

\* Host::local: an image attaches while the host admits.
Attach(i) ==
  /\ img[i].up = "new" /\ ~host.paused /\ ~host.failed
  /\ img' = [img EXCEPT ![i].up = "on"]
  /\ UNCHANGED <<events, replies, ready, host, owner, manifest, snaps, excused>>

\* Admission::enter for a guest mutation, and the drop of its Entry once the
\* mutation is answered.
Enter(i) ==
  /\ img[i].up = "on" /\ Healthy(i) /\ ~host.paused /\ ~host.failed
  /\ img[i].entries = 0 /\ host.left.mutate > 0
  /\ img' = [img EXCEPT ![i].entries = 1]
  /\ host' = [host EXCEPT !.left.mutate = @ - 1]
  /\ UNCHANGED <<events, replies, ready, owner, manifest, snaps, excused>>
Leave(i) ==
  /\ img[i].up = "on" /\ img[i].entries = 1
  /\ img' = [img EXCEPT ![i].entries = 0,
                        ![i].issued = IF Healthy(i) THEN @ + 1 ELSE @]
  /\ UNCHANGED <<events, replies, ready, host, owner, manifest, snaps, excused>>

\* A synced fence of the image's log.
Fence(i) ==
  /\ Running(i) /\ img[i].durable < img[i].issued
  /\ img' = [img EXCEPT ![i].durable = img[i].issued]
  /\ UNCHANGED <<events, replies, ready, host, owner, manifest, snaps, excused>>

\* Port::queue sends after its caller saw admission open; a pause may come in
\* between.  A full queue is an error that ends the reactor.
Queue(i) ==
  /\ img[i].up = "on" /\ img[i].turn # "none"
  /\ IF Len(ready) < Room
       THEN /\ ready' = Append(ready, [op |-> img[i].turn, image |-> i])
            /\ img' = [img EXCEPT ![i] = [@ EXCEPT !.turn = "none",
                          !.active = TRUE, !.granted = FALSE]]
            /\ UNCHANGED replies
       ELSE Abort(i, "stopped") /\ UNCHANGED ready
  /\ UNCHANGED <<events, host, owner, manifest, snaps, excused>>

\* Port::rotate for a drained log.  A kind already asked for is never replaced.
Rotate(i, kind) ==
  /\ Running(i) /\ img[i].rotation = "none"
  /\ host.left.rotate > 0 /\ host' = [host EXCEPT !.left.rotate = @ - 1]
  /\ img[i].gen = 0 /\ img[i].entries = 0 /\ img[i].durable = img[i].issued
  /\ img' = [img EXCEPT ![i].rotation = kind,
                        ![i].turn = IF img[i].active \/ host.paused THEN "none"
                                    ELSE "rotate"]
  /\ UNCHANGED <<events, replies, ready, owner, manifest, snaps, excused>>

\* Port::cancel_future_rollover for a pause or a close.
CancelRollover(i) ==
  /\ Running(i) /\ img[i].rotation = "roll" /\ ~img[i].rotating
  /\ img' = [img EXCEPT ![i].rotation = "none"]
  /\ UNCHANGED <<events, replies, ready, host, owner, manifest, snaps, excused>>

\* The end of Port::poll: a rotation, or a compaction of what is durable or of
\* what reclamation left pinned.  A rotation the owner deferred is not due for
\* a while, and a compaction may then go first.
ChooseTurn(i) ==
  /\ Running(i) /\ ~img[i].active /\ img[i].gen = 0
  /\ ~host.paused /\ events[i] = <<>>
  /\ \E turn \in {"rotate", "compact"} :
       /\ turn = "rotate" => img[i].rotation # "none"
       /\ turn = "compact" => \/ img[i].durable > img[i].compacted /\ ~host.pressured
                              \/ img[i].retry
       /\ img' = [img EXCEPT ![i].turn = turn]
  /\ UNCHANGED <<events, replies, ready, host, owner, manifest, snaps, excused>>

\* Mutant: the acknowledgement does not wait for the fence.
AcknowledgeUnfenced(i) ==
  /\ Running(i) /\ img[i].gen # 0 /\ ~img[i].acked
  /\ img[i].entries = 0 /\ replies[i] = <<>>
  /\ replies' = [replies EXCEPT ![i] = <<Reply("quiesced", "quiesce", img[i].gen)>>]
  /\ img' = [img EXCEPT ![i].acked = TRUE]
  /\ UNCHANGED <<events, ready, host, owner, manifest, snaps, excused>>
\* Reactor::dispatch and Port::acknowledge_quiescence: fenced, nothing owned.
Acknowledge(i) ==
  /\ Running(i) /\ img[i].gen # 0 /\ ~img[i].acked
  /\ img[i].entries = 0 /\ img[i].durable = img[i].issued
  /\ IF replies[i] = <<>>
       THEN /\ replies' = [replies EXCEPT ![i] =
                 <<Reply("quiesced", "quiesce", img[i].gen)>>]
            /\ img' = [img EXCEPT ![i].acked = TRUE]
       ELSE Abort(i, "stopped")
  /\ UNCHANGED <<events, ready, host, owner, manifest, snaps, excused>>

\* Port::poll's answer to one event: the port it leaves and the reply, or no
\* reply (Quiesce), or the error of an event out of sequence.
Deferred(p) == [p EXCEPT !.active = FALSE, !.granted = FALSE]
Answers(p, e) ==
  CASE e.op = "quiesce" ->
         IF p.rotation = "fresh" THEN {<<p, "deferred">>}
         ELSE {<<[Deferred(p) EXCEPT !.gen = e.gen, !.acked = FALSE,
                    !.rotation = IF p.rotating THEN @ ELSE "none"], "later">>}
    [] e.op = "resume" ->
         IF p.gen = e.gen /\ p.acked
           THEN {<<[p EXCEPT !.gen = 0, !.acked = FALSE], "applied">>}
           ELSE {<<p, "error">>}
    [] e.op = "compactq" ->
         IF p.gen # e.gen \/ ~p.acked THEN {<<p, "error">>}
         ELSE IF p.durable > p.compacted
           THEN {<<[p EXCEPT !.active = TRUE, !.granted = TRUE,
                             !.through = p.durable], "selected">>}
           ELSE {<<Deferred(p), "none">>}
    [] e.op = "allocate" ->
         IF p.rotation = "none" THEN {<<Deferred(p), "deferred">>}
         ELSE {<<Deferred(p), "deferred">>,   \* no staging quota
               <<[p EXCEPT !.rotating = TRUE, !.active = TRUE,
                           !.granted = TRUE], "rotation">>}
    [] e.op = "rotated" ->
         {<<[p EXCEPT !.rotating = FALSE, !.rotation = "none",
                      !.active = FALSE], "applied">>}
    [] e.op = "deferred" ->
         {<<[Deferred(p) EXCEPT !.rotating = FALSE], "applied">>}
    [] e.op = "select" ->
         IF p.durable > p.compacted /\ ~host.pressured
           THEN {<<[p EXCEPT !.active = TRUE, !.granted = TRUE,
                             !.through = p.durable], "selected">>}
         ELSE IF p.retry
           THEN {<<[p EXCEPT !.active = TRUE, !.granted = TRUE], "reclaim">>}
         ELSE {<<[p EXCEPT !.active = FALSE, !.granted = TRUE], "none">>}
    [] e.op = "published" ->
         {<<[p EXCEPT !.compacted = p.through], "reclaim">>}
    [] e.op = "reclaimed" ->   \* live carrier entries pin what they name
         {<<[p EXCEPT !.retry = p.entries > 0, !.active = FALSE], "applied">>}
    [] OTHER -> {<<p, "error">>}

\* Port::poll: a failed image stops; an occupied reply slot is an error too.
Poll(i) ==
  /\ img[i].up = "on" /\ ~img[i].failed /\ img[i].turn = "none"
  /\ events[i] # <<>>
  /\ events' = [events EXCEPT ![i] = <<>>]
  /\ \/ /\ host.gate
        /\ img' = [img EXCEPT ![i] = Failed(@, "stopped")]
        /\ replies' = IF replies[i] = <<>>
             THEN [replies EXCEPT ![i] = <<Reply("failed", "abort", 0)>>]
             ELSE replies
     \/ /\ ~host.gate
        /\ \E a \in Answers(img[i], Head(events[i])) :
             IF a[2] = "error" \/ (a[2] # "later" /\ replies[i] # <<>>)
               THEN Abort(i, "stopped")
               ELSE /\ img' = [img EXCEPT ![i] = a[1]]
                    /\ replies' = IF a[2] = "later" THEN replies
                         ELSE [replies EXCEPT ![i] =
                                <<Reply(a[2], Head(events[i]).op, 0)>>]
  /\ UNCHANGED <<ready, host, owner, manifest, snaps, excused>>

\* Port::poll's own deadline for a granted turn fails the host.
Overdue(i) ==
  /\ Running(i) /\ img[i].active /\ img[i].granted
  /\ "timeout" \in Faults /\ ~excused
  /\ host' = [host EXCEPT !.gate = TRUE] /\ excused' = TRUE
  /\ Abort(i, "stopped")
  /\ UNCHANGED <<events, ready, owner, manifest, snaps>>

\* Reactor::fail: a fault of this image's IO, or the host gate noticed.
FailImage(i) ==
  /\ img[i].up = "on" /\ ~img[i].failed /\ img[i].turn = "none"
  /\ host.gate \/ ("image" \in Faults /\ ~excused)
  /\ Abort(i, "on") /\ excused' = TRUE
  /\ UNCHANGED <<events, ready, host, owner, manifest, snaps>>

\* The reactor leaves once its frontend is gone and no turn is pending; a
\* failed one leaves whenever its frontend does.  Leaving between the
\* acknowledgement and a quiescent compaction fails the operation, and with it
\* the host.
Exit(i) ==
  /\ img[i].up = "on" /\ img[i].turn = "none"
  /\ ~Healthy(i) \/ (~img[i].active /\ img[i].rotation = "none"
                       /\ img[i].entries = 0)
  /\ img' = [img EXCEPT ![i] = Left(@, "stopped")]
  /\ excused' = (excused \/ (owner.phase = "compact" /\ owner.image = i))
  /\ UNCHANGED <<events, replies, ready, host, owner, manifest, snaps>>

\* Mutant: the channels close before the image is detached.
DisconnectFirst(i) ==
  /\ \/ /\ img[i].up = "stopped" /\ events[i] # Closed
        /\ events' = [events EXCEPT ![i] = Closed] /\ UNCHANGED img
     \/ /\ img[i].up = "stopped" /\ events[i] = Closed
        /\ img' = [img EXCEPT ![i].up = "off"] /\ UNCHANGED events
  /\ UNCHANGED <<replies, ready, host, owner, manifest, snaps, excused>>
\* Port::drop detaches first; the drop of its fields then closes the channels.
Disconnect(i) ==
  /\ \/ /\ img[i].up = "stopped"
        /\ img' = [img EXCEPT ![i].up = "detached"] /\ UNCHANGED events
     \/ /\ img[i].up = "detached"
        /\ img' = [img EXCEPT ![i].up = "off"]
        /\ events' = [events EXCEPT ![i] = Closed]
  /\ UNCHANGED <<replies, ready, host, owner, manifest, snaps, excused>>

-----------------------------------------------------------------------------
(* The owner: exchanges, turns and quiesced operations                     *)

Waiting == owner.event # "none"
Gen == host.generation
At(phase) == owner.phase = phase /\ ~Waiting
Idle(o) == [o EXCEPT !.phase = "idle", !.event = "none", !.image = 0,
                     !.todo = {}, !.operation = "none", !.target = 0,
                     !.checked = FALSE]

\* pause.fail after the gate: nothing resumes.
HostFailed == [host EXCEPT !.gate = TRUE, !.failed = TRUE, !.paused = TRUE,
                           !.claimed = FALSE]
\* Mutant: admission is not reopened.
ReleasedPaused == [host EXCEPT !.running = FALSE, !.claimed = FALSE]
\* Quiescence::finish, or its drop before begin: admission resumes.
Released == [host EXCEPT !.running = FALSE, !.paused = FALSE, !.claimed = FALSE]

\* What an error means in each phase: a turn fails its image and tells it, an
\* uncertain or running operation fails the host, and before that the images
\* already quiescent are resumed.
Fails(o, i) ==
  \/ /\ o.phase = "turn"
     /\ img' = [img EXCEPT ![i] = Failed(@, img[i].up)]
     /\ events' = IF events[i] = <<>>
                    THEN [events EXCEPT ![i] = <<Event("failed", 0)>>]
                    ELSE events
     /\ owner' = Idle(o) /\ UNCHANGED host
  \/ /\ o.phase \in {"drain", "settle"} \/ (o.phase = "quiesce" /\ ~o.uncertain)
     /\ owner' = [o EXCEPT !.phase = "unnotify", !.event = "none"]
     /\ UNCHANGED <<img, events, host>>
  \/ /\ \/ o.phase \in {"compact", "resume", "unnotify", "unresume"}
        \/ o.phase = "quiesce" /\ o.uncertain
     /\ owner' = Idle(o) /\ host' = HostFailed
     /\ UNCHANGED <<img, events>>

\* Endpoint::exchange up to its wait.
Send(o, i, op) ==
  IF Healthy(i) /\ events[i] = <<>>
    THEN /\ events' = [events EXCEPT ![i] = <<Event(op, Gen)>>]
         /\ owner' = [o EXCEPT !.event = op, !.image = i]
         /\ UNCHANGED <<img, host>>
    ELSE Fails(o, i)

\* cancel_ready and the guards of quiesced and resume_collection: an image
\* that detached is passed over while it is healthy.
Pass(o, i, next) ==
  IF Healthy(i) THEN owner' = next /\ UNCHANGED <<img, events, host>>
  ELSE Fails(o, i)
Cancel(o, i) ==
  IF Attached(i) THEN Send(o, i, "deferred") ELSE Pass(o, i, o)

\* Admission::pause and the checks that precede it.
Start(o, h, op, target) ==
  IF h.failed \/ (op = "snapshot" /\ ~(Attached(target) /\ Healthy(target)))
    THEN owner' = Idle(o) /\ host' = [h EXCEPT !.claimed = FALSE]
    ELSE /\ host' = [h EXCEPT !.generation = @ + 1, !.paused = TRUE]
         /\ owner' = [o EXCEPT !.phase = "drain", !.operation = op,
              !.target = target, !.uncertain = FALSE, !.advanced = TRUE,
              !.checked = FALSE]

\* Host::collect and Host::snapshot claim the one administrative credit.
Request(op, i) ==
  /\ ~host.claimed /\ ~host.closed /\ host.left.admin > 0 /\ Len(ready) < Room
  /\ host' = [host EXCEPT !.claimed = TRUE, !.left.admin = @ - 1]
  /\ ready' = Append(ready, [op |-> op, image |-> i])
  /\ UNCHANGED <<img, events, replies, owner, manifest, snaps, excused>>

\* Physical pressure makes the owner collect by itself.
Pressure ==
  /\ ~host.pressured /\ host.left.admin > 0
  /\ host' = [host EXCEPT !.pressured = TRUE]
  /\ UNCHANGED <<img, events, replies, ready, owner, manifest, snaps, excused>>
AutoCollect ==
  /\ At("idle") /\ host.pressured /\ ~host.claimed /\ host.left.admin > 0
  /\ Start(owner, [host EXCEPT !.claimed = TRUE, !.left.admin = @ - 1], "collect", 0)
  /\ UNCHANGED <<img, events, replies, ready, manifest, snaps, excused>>

\* Owner::run takes the oldest ready entry.
TakeReady ==
  /\ At("idle") /\ ready # <<>> /\ ready' = Tail(ready)
  /\ LET r == Head(ready) IN
     \/ /\ r.op \in {"compact", "rotate"}
        /\ Send([owner EXCEPT !.phase = "turn"], r.image,
                IF r.op = "rotate" THEN "allocate" ELSE "select")
     \/ /\ r.op \in {"collect", "snapshot"}
        /\ Start(owner, host, r.op, r.image)
        /\ UNCHANGED <<img, events>>
  /\ UNCHANGED <<replies, manifest, snaps, excused>>

\* The end of a turn: "advanced" when it published a root.
Done(o, i) ==
  /\ owner' = IF o.phase = "turn" THEN Idle(o)
              ELSE IF o.advanced \/ o.operation = "snapshot"
                THEN [o EXCEPT !.phase = "operate"]
              ELSE [o EXCEPT !.todo = @ \ {i}]
  /\ UNCHANGED <<img, events, host>>

Expected ==
  [select |-> {"selected", "none", "reclaim"}, compactq |-> {"selected", "none"},
   published |-> {"reclaim"}, reclaimed |-> {"applied"},
   allocate |-> {"rotation", "deferred"}, rotated |-> {"applied"},
   deferred |-> {"applied"}, quiesce |-> {"quiesced", "deferred"},
   resume |-> {"applied"}]

\* Endpoint::compact with a selection: load it, write its chunks and publish the
\* root, unless the image failed meanwhile; then D is exchanged.
Compacts(o, i, reply) ==
  /\ reply = "selected"
  /\ IF Healthy(i)
       THEN /\ manifest' = [manifest EXCEPT ![i] = img[i].through]
            /\ Send([o EXCEPT !.advanced = TRUE], i, "published")
       ELSE Fails(o, i) /\ UNCHANGED manifest

\* Endpoint::reclaim: punch and unlink, then report the space.
Reclaims(o, i, reply) ==
  /\ reply = "reclaim" /\ Send(o, i, "reclaimed") /\ UNCHANGED manifest

\* Endpoint::rotate with space and a prepared segment: create and install it.
Rotates(o, i, reply) ==
  /\ reply = "rotation" /\ UNCHANGED manifest
  /\ IF Healthy(i) THEN Send(o, i, "rotated") ELSE Fails(o, i)

\* Endpoint::background and Endpoint::rotate without space: nothing is written
\* and the turn goes back. The reclamation after D asks for none.
Defers(o, i, event, reply) ==
  /\ reply \in {"selected", "rotation"} \/ (event = "select" /\ reply = "reclaim")
  /\ Send(o, i, "deferred") /\ UNCHANGED manifest

\* Endpoint::compact and Endpoint::rotate after an expected reply.
Proceed(o, i, event, reply) ==
  \/ /\ reply \in {"none", "applied"}
        \/ (event = "allocate" /\ reply = "deferred")
     /\ Done(o, i) /\ UNCHANGED manifest
  \/ Compacts(o, i, reply)
  \/ Reclaims(o, i, reply)
  \/ Rotates(o, i, reply)
  \/ Defers(o, i, event, reply)

\* The reply to the exchange under way.
Receive ==
  /\ Waiting /\ replies[owner.image] # <<>>
  /\ LET i == owner.image
         e == owner.event
         r == Head(replies[i])
         o == [owner EXCEPT !.event = "none", !.image = 0]
     IN  /\ replies' = [replies EXCEPT ![i] = <<>>]
         /\ \/ /\ r.op \notin Expected[e] \/ (e = "quiesce" /\ r.op = "quiesced"
                                                /\ r.gen # Gen)
               /\ IF /\ r.op = "failed" /\ o.phase # "turn" /\ ~Attached(i)
                     /\ o.phase # "compact"
                    THEN Pass(o, i, o) ELSE Fails(o, i)
               /\ UNCHANGED manifest
            \/ /\ r.op \in Expected[e] /\ o.phase \in {"turn", "compact"}
               /\ Proceed(o, i, e, r.op)
            \/ /\ r.op = "applied"
               /\ o.phase \in {"drain", "settle", "unnotify", "resume", "unresume"}
               /\ owner' = o /\ UNCHANGED <<img, events, host, manifest>>
            \/ /\ r.op = "quiesced" /\ r.gen = Gen /\ e = "quiesce"
               /\ owner' = [o EXCEPT !.quiescent[i] = Gen, !.uncertain = FALSE]
               /\ UNCHANGED <<img, events, host, manifest>>
            \/ /\ e = "quiesce" /\ r.op = "deferred"
               /\ Fails([o EXCEPT !.uncertain = FALSE], i)
               /\ UNCHANGED manifest
  /\ UNCHANGED <<ready, snaps, excused>>

\* No reply: the channel is closed, or the deadline expires because the
\* reactor failed without answering or (a fault) is late.
Unanswered ==
  /\ Waiting /\ replies[owner.image] = <<>>
  /\ LET i == owner.image
         o == [owner EXCEPT !.event = "none", !.image = 0]
         late == events[i] # Closed /\ ~img[i].failed
     IN  /\ late => "timeout" \in Faults /\ ~excused
         /\ excused' = (excused \/ late)
         /\ IF o.phase \in {"turn", "compact"} \/ Attached(i) THEN Fails(o, i)
            ELSE Pass(o, i, [o EXCEPT !.uncertain = FALSE])
  /\ UNCHANGED <<replies, ready, manifest, snaps>>

\* drain_guests and drain_notifications: queued turns are deferred, or dropped
\* when their image's acknowledgement already cancelled them.
DrainReady ==
  /\ owner.phase \in {"drain", "settle", "unnotify"} /\ ~Waiting
  /\ ready # <<>> /\ ready' = Tail(ready)
  /\ LET i == Head(ready).image IN
       IF owner.quiescent[i] # 0
         THEN UNCHANGED <<img, events, owner, host>>
         ELSE Cancel(owner, i)
  /\ UNCHANGED <<replies, manifest, snaps, excused>>

\* Every guest owner is gone and the queue is empty.
Drained ==
  /\ At("drain") /\ ready = <<>> /\ ~Entered
  /\ owner' = [owner EXCEPT !.phase = "quiesce", !.todo = Images]
  /\ UNCHANGED <<img, events, replies, ready, host, manifest, snaps, excused>>

\* drain_guests' deadline.
DrainExpired ==
  /\ At("drain") /\ Entered /\ "timeout" \in Faults /\ ~excused
  /\ excused' = TRUE /\ Fails(owner, 0)
  /\ UNCHANGED <<replies, ready, manifest, snaps>>

\* quiesced: each attached image in turn, then the late notifications.
Quiesce ==
  /\ At("quiesce")
  /\ IF owner.todo = {}
       THEN /\ owner' = [owner EXCEPT !.phase = "settle"]
            /\ UNCHANGED <<img, events, host>>
       ELSE LET i == CHOOSE k \in owner.todo : \A j \in owner.todo : k <= j
                o == [owner EXCEPT !.todo = @ \ {i}]
            IN  IF Attached(i) /\ Healthy(i)
                  THEN Send([o EXCEPT !.uncertain = TRUE], i, "quiesce")
                  ELSE Pass(o, i, o)
  /\ UNCHANGED <<replies, ready, manifest, snaps, excused>>

\* Mutant: the operation begins without draining late notifications.
BeginEarly ==
  /\ At("settle")
  /\ owner' = [owner EXCEPT !.phase = "operate"]
  /\ host' = [host EXCEPT !.running = TRUE]
  /\ UNCHANGED <<img, events, replies, ready, manifest, snaps, excused>>
\* Quiescence::begin.
Begin ==
  /\ At("settle") /\ ready = <<>>
  /\ owner' = [owner EXCEPT !.phase = "operate"]
  /\ host' = [host EXCEPT !.running = TRUE]
  /\ UNCHANGED <<img, events, replies, ready, manifest, snaps, excused>>

\* A running operation passes its deadline, or the physical governor or the
\* storage it writes refuses it.
OperationErrs ==
  /\ Faults \cap {"timeout", "refusal"} # {} /\ ~excused /\ excused' = TRUE
  /\ owner' = Idle(owner) /\ host' = HostFailed

Resuming(o) ==
  [o EXCEPT !.phase = "resume", !.todo = {i \in Images : o.quiescent[i] = Gen}]

\* collect_paused: sweep under healthy gates, then one quiescent compaction at
\* a time while pressure lasts.
Collect ==
  /\ At("operate") /\ owner.operation = "collect"
  /\ \/ /\ \E i \in Images : ~Healthy(i)
        /\ owner' = Idle(owner) /\ host' = HostFailed
        /\ UNCHANGED excused
     \/ OperationErrs
     \/ /\ UNCHANGED excused /\ \A i \in Images : Healthy(i)
        /\ \E still \in {FALSE, host.pressured} :
             /\ host' = [host EXCEPT !.pressured = still]
             /\ owner' = IF still
                  THEN [owner EXCEPT !.phase = "compact",
                          !.todo = {i \in Images : owner.quiescent[i] = Gen}]
                  ELSE Resuming(owner)
  /\ UNCHANGED <<img, events, replies, ready, manifest, snaps>>

CompactNext ==
  /\ At("compact") /\ owner.operation = "collect"
  /\ IF owner.todo = {}
       THEN owner' = Resuming(owner) /\ UNCHANGED <<img, events, host>>
       ELSE LET i == CHOOSE k \in owner.todo : \A j \in owner.todo : k <= j
            IN  Send([owner EXCEPT !.advanced = FALSE], i, "compactq")
  /\ excused' = (excused \/ \E i \in owner.todo : img[i].up # "on")
  /\ UNCHANGED <<replies, ready, manifest, snaps>>

\* Owner::snapshot: check once that the reactor is still there, compact up to
\* the fenced cut, then publish it.  A compaction that could not advance fails
\* the running operation; an error may also follow the publication.
Snapshot ==
  /\ At("operate") /\ owner.operation = "snapshot"
  /\ LET i == owner.target
         lost == ~owner.checked /\ (owner.quiescent[i] # Gen \/ ~Attached(i))
         cut == [image |-> i, cut |-> manifest[i]]
     IN  \/ /\ lost \/ (manifest[i] < img[i].durable /\ ~owner.advanced)
            /\ owner' = Idle(owner) /\ host' = HostFailed /\ excused' = TRUE
            /\ UNCHANGED <<img, events, snaps>>
         \/ /\ ~lost /\ manifest[i] < img[i].durable /\ owner.advanced
            /\ Send([owner EXCEPT !.phase = "compact", !.advanced = FALSE,
                                  !.checked = TRUE], i, "compactq")
            /\ excused' = (excused \/ img[i].up # "on") /\ UNCHANGED snaps
         \/ /\ ~lost /\ manifest[i] = img[i].durable
            /\ snaps' = snaps \cup {cut} /\ owner' = Resuming(owner)
            /\ UNCHANGED <<img, events, host, excused>>
         \/ /\ OperationErrs /\ UNCHANGED <<img, events>>
            /\ \/ UNCHANGED snaps
               \/ ~lost /\ manifest[i] = img[i].durable /\ snaps' = snaps \cup {cut}
  /\ UNCHANGED <<replies, ready, manifest>>

\* resume_collection, on both paths: each quiescent image in turn.
Resume ==
  /\ owner.phase \in {"resume", "unresume"} /\ ~Waiting
  /\ IF owner.todo = {}
       THEN /\ owner' = Idle(owner) /\ host' = Released
            /\ UNCHANGED <<img, events>>
       ELSE LET i == CHOOSE k \in owner.todo : \A j \in owner.todo : k <= j
                o == [owner EXCEPT !.todo = @ \ {i}, !.quiescent[i] = 0]
            IN  IF Attached(i) \/ ~Healthy(i) THEN Send(o, i, "resume")
                ELSE Pass(o, i, o)
  /\ UNCHANGED <<replies, ready, manifest, snaps, excused>>

\* The error path before begin: notifications first, then resume.
Unwind ==
  /\ At("unnotify") /\ ready = <<>>
  /\ owner' = [Resuming(owner) EXCEPT !.phase = "unresume"]
  /\ UNCHANGED <<img, events, replies, ready, host, manifest, snaps, excused>>

\* Host::shutdown once no image is attached: the rest are dropped with the
\* ready queue, and the owner ends when its senders are gone.
Shutdown ==
  /\ ~host.closed /\ \A i \in Images : ~Attached(i)
  /\ \E i \in Images : img[i].up = "off"
  /\ host' = [host EXCEPT !.closed = TRUE]
  /\ img' = [i \in Images |-> [img[i] EXCEPT !.up = IF @ = "new" THEN "off" ELSE @]]
  /\ events' = [i \in Images |-> IF img[i].up = "new" THEN Closed ELSE events[i]]
  /\ UNCHANGED <<replies, ready, owner, manifest, snaps, excused>>
Ends ==
  /\ At("idle") /\ ready = <<>> /\ host.closed
  /\ \A i \in Images : img[i].up = "off"
  /\ owner' = [owner EXCEPT !.phase = "ended"]
  /\ UNCHANGED <<img, events, replies, ready, host, manifest, snaps, excused>>

-----------------------------------------------------------------------------
Init ==
  /\ img = [i \in Images |->
       [up |-> "new", failed |-> FALSE, entries |-> 0, issued |-> 0,
        durable |-> 0, compacted |-> 0, through |-> 0, active |-> FALSE,
        granted |-> FALSE, rotation |-> "none", turn |-> "none",
        rotating |-> FALSE, retry |-> FALSE, gen |-> 0, acked |-> FALSE]]
  /\ events = [i \in Images |-> <<>>] /\ replies = [i \in Images |-> <<>>]
  /\ ready = <<>>
  /\ host = [generation |-> 0, paused |-> FALSE, running |-> FALSE,
             failed |-> FALSE, gate |-> FALSE, claimed |-> FALSE,
             pressured |-> FALSE, closed |-> FALSE,
             left |-> [admin |-> MaxAdmin, mutate |-> MaxMutations,
                       rotate |-> MaxRotations]]
  /\ owner = [phase |-> "idle", event |-> "none", image |-> 0, todo |-> {},
              operation |-> "none", target |-> 0, uncertain |-> FALSE,
              advanced |-> FALSE, checked |-> FALSE,
              quiescent |-> [i \in Images |-> 0]]
  /\ manifest = [i \in Images |-> 0] /\ snaps = {} /\ excused = FALSE

Environment ==
  \/ \E i \in Images : Attach(i) \/ Enter(i) \/ CancelRollover(i) \/ Exit(i)
                         \/ FailImage(i) \/ Overdue(i)
  \/ \E i \in Images, kind \in {"roll", "fresh"} : Rotate(i, kind)
  \/ Request("collect", 0) \/ \E i \in Images : Request("snapshot", i)
  \/ Pressure \/ DrainExpired \/ Shutdown

Reactor(i) ==
  \/ Leave(i) \/ Fence(i) \/ ChooseTurn(i) \/ Queue(i) \/ Acknowledge(i) \/ Poll(i)
  \/ Disconnect(i)

OwnerStep ==
  \/ AutoCollect \/ TakeReady \/ Receive \/ Unanswered \/ DrainReady \/ Drained
  \/ Quiesce \/ Begin \/ Collect \/ CompactNext \/ Snapshot \/ Resume \/ Unwind
  \/ Ends

Next == Environment \/ OwnerStep \/ \E i \in Images : Reactor(i)

Spec == Init /\ [][Next]_vars

\* Reactors and the owner are threads; nothing else is obliged to act.
FairSpec ==
  /\ Spec /\ WF_vars(OwnerStep)
  /\ \A i \in Images : /\ WF_vars(Leave(i)) /\ WF_vars(Fence(i)) /\ WF_vars(Queue(i))
                         /\ WF_vars(Acknowledge(i)) /\ WF_vars(Poll(i))
                         /\ WF_vars(Disconnect(i))

-----------------------------------------------------------------------------
(* Properties                                                              *)

\* A reply in a slot answers the event the owner is waiting for, or is the
\* abort of a failing image; when it waits for none, only a fault or a leaving
\* image has left one behind.
ReplyMatches ==
  \A i \in Images : replies[i] # <<>> =>
    \/ excused
    \/ /\ Waiting /\ owner.image = i
       /\ Head(replies[i]).for \in {owner.event, "abort"}

\* The protocol never fails an image or the host by itself: no conflicting
\* event, no full queue, no occupied slot, whatever images come and go.
HostSurvives ==
  (host.gate \/ host.failed \/ \E i \in Images : img[i].failed) => excused

\* The mailbox protocol between images and owner: every reply reaches the
\* question it answers and no exchange fails by itself.
ExchangeSound == ReplyMatches /\ HostSurvives

\* A collection or snapshot runs only while no guest owner exists, no turn is
\* queued or granted, and every attached image has acknowledged this pause.
OperationAlone ==
  (host.running /\ owner.phase = "operate" /\ ~host.gate) =>
    /\ ~Entered /\ ready = <<>>
    /\ \A i \in Images : Attached(i) /\ img[i].up # "stopped" /\ Healthy(i) =>
         /\ owner.quiescent[i] = Gen /\ img[i].gen = Gen /\ img[i].acked
         /\ img[i].durable = img[i].issued

\* A published snapshot holds every mutation issued to its image and none that
\* the image's own log has not seen compacted.
SnapshotCut ==
  [][\A s \in snaps' \ snaps :
       /\ s.cut = img[s.image].issued /\ s.cut = manifest[s.image]
       /\ img[s.image].compacted = s.cut /\ img[s.image].entries = 0]_vars

\* The owner always comes back to its queue, or ends, with admission open unless
\* the host failed.
OwnerReturns ==
  []<>((At("idle") \/ At("ended")) /\ (host.paused => host.failed))

=============================================================================
