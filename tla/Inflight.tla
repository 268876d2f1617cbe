------------------------------ MODULE Inflight ------------------------------
(***************************************************************************)
(* The inflight carrier of one attachment (crates/cas/daemon/src/inflight): *)
(* shared memory QEMU retains while the daemon is replaced.  It remembers   *)
(* which guest descriptors the daemon owns, the storage ordinals it gave    *)
(* them and how far they were published and returned to the guest.         *)
(*                                                                         *)
(* An operation checks its conditions and then performs a fixed list of     *)
(* Release stores; the daemon can be killed between any two.  `todo` holds *)
(* the stores still to be performed.  The Relaxed stores before a Release  *)
(* store go to cells no state reached by a crash looks at, so they are part *)
(* of it.  Operations exclude each other: all run under the image's         *)
(* completion gate.                                                        *)
(***************************************************************************)
EXTENDS Integers, Sequences, FiniteSets, SequencesExt

CONSTANTS
  Queues,      \* virtqueues
  QueueSize,   \* descriptors of each queue
  Wrap,        \* modulus of the ring cursors: 2^16 in the code
  Kinds,       \* request kinds: "write" mutates, "flush" and "read" do not
  Outcomes,    \* admission outcomes: TRUE stands for a rejected admission
  MaxPosts,    \* bound: requests the guest makes available
  MaxCrashes   \* bound: daemon crashes

ASSUME InflightAssumption ==
  /\ IsFiniteSet(Queues) /\ Queues \subseteq Nat
  /\ QueueSize \in Nat \ {0} /\ Wrap \in Nat /\ QueueSize < Wrap
  /\ Wrap % QueueSize = 0
  /\ Kinds \subseteq {"write", "flush", "read"} /\ Outcomes \subseteq BOOLEAN
  /\ MaxPosts \in Nat /\ MaxCrashes \in Nat

Heads == 0..(QueueSize - 1)

VARIABLES
  ring,       \* guest: heads in the available ring of each queue
  availIdx,   \* guest: avail.idx of each queue
  usedIdx,    \* guest: used.idx of each queue
  memory,     \* guest: descriptor table, the request each head describes
  header,     \* carrier: discovery, serial, mutation and published counters
  failed,     \* carrier: the FAILED flag
  available,  \* carrier: next available cursor of each queue
  queue,      \* carrier: version, used cursor and last_head of each queue
  desc,       \* carrier: standard inflight flag and counter of each head
  slot,       \* carrier: private identity of each head
  up,         \* the daemon serves, or repairs the carrier
  repairing,  \* reconcile has stores left
  todo,       \* stores of the operation in progress
  posts,      \* history: requests made available so far
  assigned,   \* history: the request each mutation ordinal was given to
  crashes     \* history: daemon crashes so far

guestVars == <<ring, availIdx, usedIdx, memory, posts>>
carrier == <<header, failed, available, queue, desc, slot>>
vars == <<ring, availIdx, usedIdx, memory, header, failed, available, queue,
          desc, slot, up, repairing, todo, posts, assigned, crashes>>

-----------------------------------------------------------------------------
(* Slots and stores                                                        *)

EmptySlot ==
  [state |-> "empty", kind |-> "none", available |-> 0, discovery |-> 0,
   serial |-> 0, mutation |-> 0, boundary |-> 0, rejected |-> FALSE]

Free == [out |-> FALSE, kind |-> "none", id |-> 0]

Mutates(kind, rejected) == kind = "write" /\ ~rejected

RequiredPublication(e) ==
  IF e.rejected THEN 0
  ELSE IF e.kind \in {"read", "flush"} THEN e.boundary ELSE e.mutation

Inc(c) == (c + 1) % Wrap

\* A Release store: to a head's slot or inflight flag, a queue's cursor, a
\* header counter, or the guest's used.idx.
StoreTo(cell, q, h, n) ==
  [cell |-> cell, q |-> q, h |-> h, n |-> n, slot |-> EmptySlot]
SlotStore(q, h, e) ==
  [cell |-> "slot", q |-> q, h |-> h, n |-> 0, slot |-> e]
Counter(cell, q, n) == StoreTo(cell, q, 0, n)

Owned(q, h) == slot[q][h].state # "empty"

Perform(s) ==
  /\ slot' = IF s.cell = "slot" THEN [slot EXCEPT ![s.q][s.h] = s.slot]
                                ELSE slot
  /\ desc' = CASE s.cell = "inflight" ->
                    [desc EXCEPT ![s.q][s.h] = [on |-> TRUE, counter |-> s.n]]
               [] s.cell = "retired" -> [desc EXCEPT ![s.q][s.h].on = FALSE]
               [] OTHER -> desc
  /\ queue' = CASE s.cell = "last" -> [queue EXCEPT ![s.q].last = s.h]
                [] s.cell = "used" -> [queue EXCEPT ![s.q].used = s.n]
                [] OTHER -> queue
  /\ available' = IF s.cell = "available" THEN [available EXCEPT ![s.q] = s.n]
                                          ELSE available
  /\ header' = IF s.cell \in DOMAIN header
                 THEN [header EXCEPT ![s.cell] = s.n] ELSE header
  /\ usedIdx' = IF s.cell = "guest" THEN [usedIdx EXCEPT ![s.q] = Inc(@)]
                                    ELSE usedIdx
  /\ memory' = IF s.cell = "guest" THEN [memory EXCEPT ![s.q][s.h] = Free]
                                   ELSE memory
  /\ assigned' = IF s.cell = "slot" /\ s.slot.state = "prepared"
                       /\ s.slot.mutation # 0
                    THEN assigned
                         \cup {<<s.slot.mutation, memory[s.q][s.h].id>>}
                    ELSE assigned

\* The next store of the operation in progress becomes visible.
Store ==
  /\ todo # <<>>
  /\ Perform(Head(todo))
  /\ todo' = Tail(todo)
  /\ up' = (up \/ Len(todo) = 1)
  /\ repairing' = (repairing /\ Len(todo) > 1)
  /\ UNCHANGED <<ring, availIdx, posts, failed, crashes>>

-----------------------------------------------------------------------------
(* The guest                                                               *)

\* The driver makes a free head available.
Post(q, h, kind) ==
  /\ posts < MaxPosts /\ ~memory[q][h].out
  /\ posts' = posts + 1
  /\ memory' = [memory EXCEPT ![q][h] =
                  [out |-> TRUE, kind |-> kind, id |-> posts + 1]]
  /\ ring' = [ring EXCEPT ![q][availIdx[q] % QueueSize] = h]
  /\ availIdx' = [availIdx EXCEPT ![q] = Inc(@)]
  /\ UNCHANGED <<usedIdx, carrier, up, repairing, todo, assigned, crashes>>

-----------------------------------------------------------------------------
(* Operations of the serving daemon                                        *)

Ready == up /\ todo = <<>>

\* A never-enabled queue takes its cursors from the guest's ring.
InitializeQueue(q) ==
  /\ Ready /\ ~failed /\ queue[q].version = 0
  /\ queue' = [queue EXCEPT ![q].version = 1, ![q].used = usedIdx[q]]
  /\ available' = [available EXCEPT ![q] = 0]
  /\ UNCHANGED <<guestVars, header, failed, desc, slot, up, repairing, todo,
                 assigned, crashes>>

DiscoveryStores(q, h, e) ==
  <<SlotStore(q, h, e),
    Counter("discovery", q, e.discovery),
    Counter("available", q, Inc(e.available))>>

\* Retain the next available descriptor, then advance the saved cursor.
Discover(q) ==
  /\ Ready /\ ~failed /\ queue[q].version = 1
  /\ available[q] # availIdx[q]
  /\ LET h == ring[q][available[q] % QueueSize]
     IN  /\ ~Owned(q, h) /\ ~desc[q][h].on
         /\ todo' = DiscoveryStores(q, h,
                      [slot[q][h] EXCEPT
                         !.state = "discovered", !.kind = memory[q][h].kind,
                         !.available = available[q], !.rejected = FALSE,
                         !.discovery = header.discovery + 1])
  /\ UNCHANGED <<guestVars, carrier, up, repairing, assigned, crashes>>

\* The identity an admission gives a discovered descriptor.
Entry(q, h, rejected) ==
  [slot[q][h] EXCEPT
     !.state = "prepared", !.rejected = rejected,
     !.serial = header.serial + 1, !.boundary = header.mutation,
     !.mutation = IF Mutates(slot[q][h].kind, rejected)
                    THEN header.mutation + 1 ELSE 0]

\* mutant: the counters are advanced before the slot owns them
AdmissionCountersFirst(q, h, e) ==
  <<Counter("serial", q, e.serial), Counter("mutation", q, e.mutation),
    SlotStore(q, h, e), StoreTo("inflight", q, h, e.serial),
    SlotStore(q, h, [e EXCEPT !.state = "active"])>>

AdmissionStores(q, h, e) ==
  <<SlotStore(q, h, e),
    StoreTo("inflight", q, h, e.serial),
    SlotStore(q, h, [e EXCEPT !.state = "active"]),
    Counter("serial", q, e.serial),
    Counter("mutation", q, IF e.mutation < e.boundary THEN e.boundary
                                                      ELSE e.mutation)>>

\* Give a discovered descriptor its operation serial and, when it mutates the
\* image, its mutation ordinal.
Admit(q, h, rejected) ==
  /\ Ready /\ ~failed
  /\ slot[q][h].state = "discovered" /\ ~desc[q][h].on
  /\ todo' = AdmissionStores(q, h, Entry(q, h, rejected))
  /\ UNCHANGED <<guestVars, carrier, up, repairing, assigned, crashes>>

\* The log published the prefix p of the mutations.
Publish(p) ==
  /\ Ready /\ ~failed
  /\ header.published < p /\ p <= header.mutation
  /\ header' = [header EXCEPT !.published = p]
  /\ UNCHANGED <<guestVars, failed, available, queue, desc, slot, up,
                 repairing, todo, assigned, crashes>>

\* mutant: the slot is released first
RetireSlotFirst(q, h, used) ==
  <<SlotStore(q, h, [slot[q][h] EXCEPT !.state = "empty"]),
    StoreTo("retired", q, h, 0), Counter("used", q, used)>>

\* finish_completion
RetireStores(q, h, used) ==
  <<StoreTo("retired", q, h, 0), Counter("used", q, used),
    SlotStore(q, h, [slot[q][h] EXCEPT !.state = "empty"])>>

MayComplete(e) == failed \/ RequiredPublication(e) <= header.published

\* Return a request to the guest: complete, or complete_error once FAILED.
Complete(q, h) ==
  /\ Ready
  /\ slot[q][h].state = "active" /\ usedIdx[q] = queue[q].used
  /\ MayComplete(slot[q][h])
  /\ todo' = <<StoreTo("last", q, h, 0), StoreTo("guest", q, h, 0)>>
               \o RetireStores(q, h, Inc(queue[q].used))
  /\ UNCHANGED <<guestVars, carrier, up, repairing, assigned, crashes>>

\* Writing the guest's ring, or the notification after it, failed: the
\* attachment is poisoned.
PublishUsedFails(seen) ==
  /\ todo # <<>> /\ Head(todo).cell = "guest"
  /\ failed' = TRUE /\ todo' = <<>>
  /\ IF seen THEN LET s == Head(todo)
                  IN  /\ usedIdx' = [usedIdx EXCEPT ![s.q] = Inc(@)]
                      /\ memory' = [memory EXCEPT ![s.q][s.h] = Free]
             ELSE UNCHANGED <<usedIdx, memory>>
  /\ UNCHANGED <<ring, availIdx, posts, header, available, queue, desc, slot,
                 up, repairing, assigned, crashes>>

Fail ==
  /\ Ready /\ ~failed
  /\ failed' = TRUE
  /\ UNCHANGED <<guestVars, header, available, queue, desc, slot, up,
                 repairing, todo, assigned, crashes>>

Crash ==
  /\ crashes < MaxCrashes /\ (up \/ repairing)
  /\ up' = FALSE /\ repairing' = FALSE /\ todo' = <<>>
  /\ crashes' = crashes + 1
  /\ UNCHANGED <<guestVars, carrier, assigned>>
-----------------------------------------------------------------------------
(* Recovery by the next daemon                                             *)

Saved == {at \in Queues \X Heads : Owned(at[1], at[2])}
EntryAt(at) == slot[at[1]][at[2]]

\* What read_slot makes of a record: DISCOVERED owns no counters.
SerialOf(e) == IF e.state = "discovered" THEN 0 ELSE e.serial
MutationOf(e) == IF e.state = "discovered" THEN 0 ELSE e.mutation
BoundaryOf(e) == IF e.state = "discovered" THEN 0 ELSE e.boundary

Distinct(F(_)) ==
  \A a, b \in Saved :
    F(EntryAt(a)) = F(EntryAt(b)) /\ F(EntryAt(a)) # 0 => a = b

\* read_slot and scan accept the record of one owned head.
RecordOk(at) ==
  LET e == EntryAt(at)
      d == desc[at[1]][at[2]]
  IN  /\ queue[at[1]].version = 1
      /\ 0 < e.discovery /\ e.discovery <= header.discovery + 1
      /\ e.state = "discovered" => ~d.on
      /\ e.state # "discovered" =>
           /\ e.serial # 0
           /\ e.mutation = IF Mutates(e.kind, e.rejected) THEN e.boundary + 1
                                                          ELSE 0
      /\ SerialOf(e) <= header.serial + 1
      /\ MutationOf(e) <= header.mutation + 1
      /\ BoundaryOf(e) <= header.mutation
      /\ e.state = "active" /\ ~d.on =>
           RequiredPublication(e) <= header.published
      /\ e.state = "active" \/ d.on => d.counter = SerialOf(e)

\* validate_header: P never passes the last ordinal given out, and a FAILED
\* carrier is refused. Identity and geometry are those of its own creation.
HeaderOk == header.published <= header.mutation /\ ~failed

ScanOk ==
  /\ \A q \in Queues, h \in Heads : ~Owned(q, h) => ~desc[q][h].on
  /\ \A at \in Saved : RecordOk(at)
  /\ Distinct(SerialOf) /\ Distinct(MutationOf)
  /\ Distinct(LAMBDA e : e.discovery)

\* Carrier::attach: the whole mapping is validated before anything is repaired.
AttachOk == HeaderOk /\ ScanOk

\* The guest saw one completion the carrier has not retired.
Interrupted ==
  {q \in Queues : queue[q].version = 1 /\ usedIdx[q] # queue[q].used}

Newest ==
  {at \in Saved :
     /\ EntryAt(at).discovery >= header.discovery
     /\ \A b \in Saved : EntryAt(b).discovery <= EntryAt(at).discovery}

ReconcileOk ==
  /\ \A q \in Queues : queue[q].version = 0 => usedIdx[q] = 0
  /\ \A q \in Interrupted :
       LET e == slot[q][queue[q].last]
       IN  /\ usedIdx[q] = Inc(queue[q].used)
           /\ e.state = "active" /\ RequiredPublication(e) <= header.published
  /\ \A at \in Newest :
       available[at[1]] \in {EntryAt(at).available, Inc(EntryAt(at).available)}

\* mutant: a PREPARED record is dropped
RecordDropsPrepared(at) ==
  LET e == EntryAt(at)
  IN  CASE e.state = "discovered" -> <<>>
        [] e.state = "active" /\ desc[at[1]][at[2]].on -> <<>>
        [] OTHER -> <<StoreTo("retired", at[1], at[2], 0),
                      SlotStore(at[1], at[2], [e EXCEPT !.state = "empty"])>>

\* mutant: a request already returned to the guest is replayed
RecordReplaysReturned(at) ==
  LET e == EntryAt(at)
  IN  IF e.state = "discovered" THEN <<>>
      ELSE <<StoreTo("inflight", at[1], at[2], e.serial),
             SlotStore(at[1], at[2], [e EXCEPT !.state = "active"])>>

\* The repair of one record that was not returned to the guest.
RecordStores(at) ==
  LET q == at[1]
      h == at[2]
      e == EntryAt(at)
  IN  CASE e.state = "discovered" -> <<>>
        [] e.state = "active" /\ ~desc[q][h].on ->
             <<SlotStore(q, h, [e EXCEPT !.state = "empty"])>>
        [] OTHER -> <<StoreTo("inflight", q, h, e.serial),
                      SlotStore(q, h, [e EXCEPT !.state = "active"])>>

Largest(S, least) ==
  CHOOSE n \in S \cup {least} : \A m \in S \cup {least} : m <= n

\* The stores of reconcile, in the order it performs them.
RepairStores ==
  LET completed == {<<q, queue[q].last>> : q \in Interrupted}
      returned == SetToSortSeq(completed, LAMBDA a, b : a[1] < b[1])
      records == SetToSortSeq(Saved \ completed,
                   LAMBDA a, b : SerialOf(EntryAt(a)) < SerialOf(EntryAt(b)))
      newest == SetToSeq(Newest)
  IN  FlattenSeq([i \in DOMAIN returned |->
                    RetireStores(returned[i][1], returned[i][2],
                                 usedIdx[returned[i][1]])])
      \o FlattenSeq([i \in DOMAIN records |-> RecordStores(records[i])])
      \o FlattenSeq([i \in DOMAIN newest |->
           LET e == EntryAt(newest[i])
           IN  <<Counter("discovery", newest[i][1], e.discovery),
                 Counter("available", newest[i][1], Inc(e.available))>>])
      \o <<Counter("serial", 0,
             Largest({SerialOf(EntryAt(at)) : at \in Saved}, header.serial)),
           Counter("mutation", 0,
             Largest({MutationOf(EntryAt(at)) : at \in Saved},
                     header.mutation))>>

\* attach, scan and the checks of reconcile; its stores follow.
Reconcile ==
  /\ ~up /\ ~repairing
  /\ AttachOk /\ ReconcileOk
  /\ repairing' = TRUE
  /\ todo' = RepairStores
  /\ UNCHANGED <<guestVars, carrier, up, assigned, crashes>>

-----------------------------------------------------------------------------
Init ==
  /\ ring = [q \in Queues |-> [i \in Heads |-> 0]]
  /\ availIdx = [q \in Queues |-> 0] /\ usedIdx = [q \in Queues |-> 0]
  /\ memory = [q \in Queues |-> [h \in Heads |-> Free]]
  /\ header = [discovery |-> 0, serial |-> 0, mutation |-> 0, published |-> 0]
  /\ failed = FALSE /\ available = [q \in Queues |-> 0]
  /\ queue = [q \in Queues |-> [version |-> 0, used |-> 0, last |-> 0]]
  /\ desc = [q \in Queues |-> [h \in Heads |-> [on |-> FALSE, counter |-> 0]]]
  /\ slot = [q \in Queues |-> [h \in Heads |-> EmptySlot]]
  /\ up = TRUE /\ repairing = FALSE /\ todo = <<>>
  /\ posts = 0 /\ assigned = {} /\ crashes = 0

Daemon ==
  \/ Store \/ Reconcile
  \/ \E q \in Queues : InitializeQueue(q) \/ Discover(q)
  \/ \E q \in Queues, h \in Heads :
       Complete(q, h) \/ \E rejected \in Outcomes : Admit(q, h, rejected)
  \/ \E p \in 1..MaxPosts : Publish(p)

Next ==
  \/ Daemon
  \/ \E q \in Queues, h \in Heads, kind \in Kinds : Post(q, h, kind)
  \/ \E seen \in BOOLEAN : PublishUsedFails(seen)
  \/ Fail \/ Crash

Spec == Init /\ [][Next]_vars

\* The reactor keeps serving, recovery is retried, the log keeps publishing.
FairSpec == Spec /\ WF_vars(Daemon)

-----------------------------------------------------------------------------
(* Properties                                                              *)

Cursors == 0..(Wrap - 1)
SlotType ==
  [state : {"empty", "discovered", "prepared", "active"},
   kind : {"none", "write", "flush", "read"}, available : Cursors,
   discovery : Nat, serial : Nat, mutation : Nat, boundary : Nat,
   rejected : BOOLEAN]

\* Every cell holds a value of its width.
TypeOK ==
  /\ ring \in [Queues -> [Heads -> Heads]]
  /\ availIdx \in [Queues -> Cursors] /\ usedIdx \in [Queues -> Cursors]
  /\ memory \in [Queues -> [Heads ->
       [out : BOOLEAN, kind : {"none", "write", "flush", "read"}, id : Nat]]]
  /\ header \in [discovery : Nat, serial : Nat, mutation : Nat, published : Nat]
  /\ failed \in BOOLEAN /\ available \in [Queues -> Cursors]
  /\ queue \in [Queues -> [version : {0, 1}, used : Cursors, last : Heads]]
  /\ desc \in [Queues -> [Heads -> [on : BOOLEAN, counter : Nat]]]
  /\ slot \in [Queues -> [Heads -> SlotType]]
  /\ up \in BOOLEAN /\ repairing \in BOOLEAN

\* Whatever instant the daemon dies at, during an operation or during an
\* earlier repair, the next daemon accepts the carrier.
CrashAccepted == ~up /\ ~repairing /\ ~failed => AttachOk /\ ReconcileOk

\* Positions of the available ring the daemon has not taken yet.
Ahead(q) ==
  {c \in Cursors :
     (c - available[q]) % Wrap < (availIdx[q] - available[q]) % Wrap}

\* Between operations every request the guest waits for is owned by its slot,
\* or still ahead of the saved cursor, and never both: none is lost or taken
\* twice across crashes and cursor wrap.
NoneLost ==
  up /\ todo = <<>> /\ ~failed =>
    \A q \in Queues, h \in Heads :
      /\ memory[q][h].out =>
           (Owned(q, h) <=> ~\E c \in Ahead(q) : ring[q][c % QueueSize] = h)
      /\ Owned(q, h) => memory[q][h].out /\ slot[q][h].kind = memory[q][h].kind

\* used.idx is advanced only for a request the guest waits for and, unless the
\* attachment FAILED, after the mutations it depends on are published.
ReturnedOnce ==
  todo # <<>> /\ Head(todo).cell = "guest" =>
    LET s == Head(todo)
    IN  /\ memory[s.q][s.h].out
        /\ failed \/ \A a \in assigned :
             a[2] = memory[s.q][s.h].id => a[1] <= header.published

\* An ordinal is given to one request, a request has one ordinal, whatever the
\* number of crashes, and ordinals leave no gap.
OrdinalsUnique ==
  /\ \A a, b \in assigned : a[1] = b[1] \/ a[2] = b[2] => a = b
  /\ {a[1] : a \in assigned} = 1..Cardinality(assigned)

\* Between operations every unpublished ordinal has an owner to replay it:
\* what live recovery of the log relies on.
UnpublishedOwned ==
  up /\ todo = <<>> /\ ~failed =>
    /\ header.mutation = Cardinality(assigned)
    /\ \A n \in (header.published + 1)..header.mutation :
         \E at \in Saved : MutationOf(EntryAt(at)) = n

\* Every request is owned once and returned once: cells keep their width, none
\* is lost or taken twice, and used.idx moves only for a request still waited
\* for (discover, reconcile, finish_completion).
OwnedOnce == TypeOK /\ NoneLost /\ ReturnedOnce

\* Storage ordinals are given out once and every unpublished one has an owner
\* that replays it (admit, reconcile).
OrdinalsOwned == OrdinalsUnique /\ UnpublishedOwned

\* Every request the guest makes available is answered, across crashes, unless
\* the attachment FAILED.
Answered == []<>(failed \/ \A q \in Queues, h \in Heads : ~memory[q][h].out)
=============================================================================
