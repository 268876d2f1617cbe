------------------------------- MODULE Fetch -------------------------------
(***************************************************************************)
(* Reads of manifest-backed blocks by several images of one host: the read *)
(* state machine (crates/cas/daemon/src/local/reactor/read.rs), the shared *)
(* registry of fetches in progress (crates/cas/core/src/cache/fills.rs),   *)
(* the cache of verified blocks (cache.rs, cache/lru.rs) and the scheduler *)
(* of bulk submissions (scheduler.rs).                                     *)
(*                                                                         *)
(* A read misses the cache, becomes the leader of its hash or waits for    *)
(* the leader of another image, and the leader fills the cache before it   *)
(* leaves the registry and then tells the waiters.  An image may fail      *)
(* between any two of these steps.                                         *)
(***************************************************************************)
EXTENDS Integers, Sequences, FiniteSets, SequencesExt

CONSTANTS
  Images,      \* images of the host, 1..n
  Reads,       \* reads in progress at once, numbered 10 * image + lane
  Hashes,      \* contents named by the manifests
  Blocks,      \* cache capacity in blocks
  MaxLength,   \* bound: blocks of a read that need a chunk
  MaxJobs,     \* bound: background submissions
  Faults       \* injected faults, at most one per behaviour

ASSUME FetchConstants ==
  /\ Images # {} /\ IsFiniteSet(Images) /\ Images = 1..Cardinality(Images)
  /\ IsFiniteSet(Reads) /\ Blocks \in Nat \ {0}
  /\ \A r \in Reads : r \in Nat /\ r \div 10 \in Images
  /\ MaxLength \in Nat /\ MaxJobs \in Nat
  /\ {"none", "bad", "failed"} \cap Hashes = {}
  /\ Faults \subseteq {"corrupt", "image", "deadline"}

Nobody == 0

VARIABLES
  rd,      \* Read, per slot of an image
  reg,     \* Registry.entries: the leader of a hash in progress, or Nobody
  lru,     \* Lru: resident buffers, oldest first
  image,   \* per image: failed, and the queue of unsubmitted bulk reads
  sched,   \* Scheduler.State and the background owner's condition variable
  gate,    \* the host gate failed
  used     \* history: background jobs, the fault injected, with the failure of an
           \* image that leads a fetch told apart

vars == <<rd, reg, lru, image, sched, gate, used>>

\* "cell" is the leader a waiter still waits for, "got" what it was told: nothing
\* yet, bytes, or "failed".
Idle == [stage |-> "idle", todo |-> <<>>, buffer |-> 0, cell |-> Nobody,
         got |-> "none", io |-> "none", wrong |-> FALSE]
Hash(r) == Head(rd[r].todo)
Of(r) == r \div 10

-----------------------------------------------------------------------------
(* Scheduler                                                               *)

\* State::selected: the background owner on every fourth opportunity or when
\* no image is ready, else the next ready image in turn.
Selected(s) ==
  LET n == Cardinality(Images)
      demand == {i \in Images : s.ready[i]}
      Distance(i) == (i - s.next + n) % n
  IN  IF s.bg /\ (s.turn = 0 \/ demand = {}) THEN 0
      ELSE IF demand = {} THEN -1
      ELSE CHOOSE i \in demand : \A j \in demand : Distance(i) <= Distance(j)

\* Scheduler::notify; a reactor with pending reads also wakes by its timer.
Notify(s) == [s EXCEPT !.woken = @ \/ Selected(s) = 0]

\* State::grant, with the bound the four opportunities are for.
Granted(s, who) ==
  [s EXCEPT
     !.ready = IF who = 0 THEN @ ELSE [@ EXCEPT ![who] = FALSE],
     !.next = IF who = 0 THEN @ ELSE (who % Cardinality(Images)) + 1,
     !.bg = IF who = 0 THEN FALSE ELSE @,
     !.passed = IF who = 0 \/ ~s.bg THEN 0 ELSE @ + 1,
     !.turn = (@ + 1) % 4]

\* Port::ready.
Ready(s, i, ready) == Notify([s EXCEPT !.ready[i] = ready])

\* Mutant: a grant does not tell who is next.
TakeQuietly(s, i, more) == [Granted(s, i) EXCEPT !.ready[i] = more]
\* Port::take.
Take(s, i, more) == Notify([Granted(s, i) EXCEPT !.ready[i] = more])

\* wait_background: ask, then take the opportunity when selected.
Ask ==
  /\ ~sched.bg /\ ~sched.waiting /\ used.jobs < MaxJobs
  /\ sched' = Notify([sched EXCEPT !.bg = TRUE, !.waiting = TRUE, !.woken = TRUE])
  /\ used' = [used EXCEPT !.jobs = @ + 1]
  /\ UNCHANGED <<rd, reg, lru, image, gate>>
Wakes ==
  /\ sched.waiting /\ sched.woken
  /\ sched' = IF Selected(sched) = 0
                THEN [Notify(Granted(sched, 0)) EXCEPT !.waiting = FALSE,
                                                       !.woken = FALSE]
                ELSE [sched EXCEPT !.woken = FALSE]
  /\ UNCHANGED <<rd, reg, lru, image, gate, used>>

-----------------------------------------------------------------------------
(* Reads                                                                   *)

\* Reactor::push: bulk work queues for an opportunity, a poll is submitted.
Pushed(read) ==
  [read EXCEPT !.io = IF read.stage = "waiting" THEN "kernel" ELSE "bulk"]

\* Read::next_block: done, or a chunk to look up, after a page of the image's
\* own manifest where the page cache misses.
NextBlock(read) ==
  LET at(stage) == [read EXCEPT !.stage = stage, !.buffer = 0, !.got = "none",
                                !.io = "none"]
  IN  IF read.todo = <<>> THEN {at("done")} ELSE {at("get"), Pushed(at("own"))}

\* What a step of read r leaves: new bulk work is queued.
Stepped(others, r, read) ==
  /\ rd' = [others EXCEPT ![r] = read]
  /\ IF read.io = "bulk"
       THEN /\ image' = [image EXCEPT ![Of(r)].bulk = Append(@, r)]
            /\ sched' = Ready(sched, Of(r), TRUE)
       ELSE UNCHANGED <<image, sched>>

\* A reactor runs one read at a time until it needs IO.
Atomic == {"get", "copy", "lookup", "peek", "publish", "drop"}
Turning(i) == \A r \in Reads : Of(r) = i => rd[r].stage \notin Atomic
Serving(i) == ~image[i].failed /\ Turning(i)

\* Reactor::start_read and Read::prepare: staged ranges ("own") come first, and
\* a read without manifest-backed blocks needs nothing else.
Start(r) ==
  /\ Serving(Of(r)) /\ rd[r].stage = "idle"
  /\ \A q \in Reads : Of(q) = Of(r) /\ q < r => rd[q].stage # "idle"
  /\ \E todo \in SeqOf(Hashes, MaxLength) :
       \E read \in NextBlock([Idle EXCEPT !.todo = todo])
                     \cup {Pushed([Idle EXCEPT !.stage = "own", !.todo = todo])} :
         Stepped(rd, r, read)
  /\ UNCHANGED <<reg, lru, gate, used>>

\* Reactor::submit_bulk.
Submit(i) ==
  /\ Serving(i) /\ image[i].bulk # <<>> /\ Selected(sched) = i
  /\ rd' = [rd EXCEPT ![Head(image[i].bulk)].io = "kernel"]
  /\ image' = [image EXCEPT ![i].bulk = Tail(@)]
  /\ sched' = Take(sched, i, Len(image[i].bulk) > 1)
  /\ UNCHANGED <<reg, lru, gate, used>>

\* The CQE of a read, of a signalled poll, or of a poll the failed image
\* cancelled.  A payload may come back corrupt.
Complete(r) ==
  /\ rd[r].io = "kernel"
  /\ rd[r].stage = "waiting" => rd[r].got # "none" \/ image[Of(r)].failed
  /\ \E bytes \in IF rd[r].stage # "payload" THEN {rd[r].got}
                   ELSE {Hash(r)} \cup {b \in {"bad"} : "corrupt" \in Faults
                                              /\ used.fault = "none"} :
       /\ rd' = [rd EXCEPT ![r].io = "ready", ![r].got = bytes]
       /\ used' = IF bytes = "bad" THEN [used EXCEPT !.fault = "corrupt"] ELSE used
  /\ UNCHANGED <<reg, lru, image, sched, gate>>

\* Lru::promote, Lru::evict (k times) and Lru::insert.
Promote(l, at) == Append(RemoveAt(l, at), l[at])
Evict(l, k) == SubSeq(l, k + 1, Len(l))
Insert(l, b) == Append(l, b)

\* Cache::get; the reader keeps the buffer while it copies.
Get(r) ==
  /\ rd[r].stage = "get"
  /\ LET at == SelectInSeq(lru, LAMBDA b : b.hash = Hash(r)) IN
       IF at # 0
         THEN /\ lru' = Promote(lru, at)
              /\ rd' = [rd EXCEPT ![r].stage = "copy", ![r].buffer = lru[at].id,
                                  ![r].got = lru[at].bytes]
         ELSE /\ rd' = [rd EXCEPT ![r].stage = "lookup"] /\ UNCHANGED lru
  /\ UNCHANGED <<reg, image, sched, gate, used>>

\* The bytes copied into the response block.
Taken(read, bytes) ==
  [read EXCEPT !.wrong = @ \/ bytes # Head(read.todo), !.todo = Tail(@)]
Copy(r) ==
  /\ rd[r].stage = "copy"
  /\ \E read \in NextBlock(Taken(rd[r], rd[r].got)) : Stepped(rd, r, read)
  /\ UNCHANGED <<reg, lru, gate, used>>

\* Registry::lookup: join the fetch in progress, or lead a new one.
Lookup(r) ==
  /\ rd[r].stage = "lookup"
  /\ IF reg[Hash(r)] # Nobody
       THEN /\ rd' = [rd EXCEPT ![r] = Pushed([@ EXCEPT !.stage = "waiting",
                                                        !.cell = reg[Hash(r)]])]
            /\ UNCHANGED reg
       ELSE /\ rd' = [rd EXCEPT ![r].stage = "peek"]
            /\ reg' = [reg EXCEPT ![Hash(r)] = r]
  /\ UNCHANGED <<lru, image, sched, gate, used>>

\* Leader::finish, first the registry and then the cell: the leader's entry is
\* removed, and a new fetch of the hash may start before the waiters are told.
Unregistered(r) == [h \in Hashes |-> IF reg[h] = r THEN Nobody ELSE reg[h]]
Told(r, got) ==
  [q \in Reads |-> IF rd[q].cell = r
                     THEN [rd[q] EXCEPT !.cell = Nobody, !.got = got] ELSE rd[q]]
Publish(r) ==
  /\ \/ /\ rd[r].stage = "publish"
        /\ \E read \in NextBlock(Taken(rd[r], rd[r].got)) :
             Stepped(Told(r, rd[r].got), r, read)
     \/ /\ rd[r].stage = "drop"
        /\ Stepped(Told(r, "failed"), r, [rd[r] EXCEPT !.stage = "failed"])
  /\ UNCHANGED <<reg, lru, gate, used>>

\* Mutant: a new leader does not look at the cache again.
PeekNever(r) ==
  /\ rd[r].stage = "peek"
  /\ Stepped(rd, r, Pushed([rd[r] EXCEPT !.stage = "header"]))
  /\ UNCHANGED <<reg, lru, gate, used>>
\* Read::chunk after Cache::peek: a previous leader may have filled the cache.
Peek(r) ==
  /\ rd[r].stage = "peek"
  /\ LET at == SelectInSeq(lru, LAMBDA b : b.hash = Hash(r)) IN
       IF at # 0
         THEN /\ reg' = Unregistered(r)
              /\ Stepped(rd, r, [rd[r] EXCEPT !.stage = "publish",
                                              !.got = lru[at].bytes])
         ELSE /\ Stepped(rd, r, Pushed([rd[r] EXCEPT !.stage = "header"]))
              /\ UNCHANGED reg
  /\ UNCHANGED <<lru, gate, used>>

\* Payload bytes: residents and the evicted buffers readers still hold.
Held == {rd[r].buffer : r \in Reads} \ {0}
Buffers(l) == {l[k].id : k \in DOMAIN l} \cup Held
Charged(l) == Cardinality(Buffers(l))
NewBuffer == CHOOSE id \in 1..(Cardinality(Reads) + Blocks + 1) :
  id \notin Buffers(lru) /\ \A k \in 1..(id - 1) : k \in Buffers(lru)

\* Cache::fill of a verified payload: a resident block is promoted; else evict
\* from the oldest until the payload fits; with every block held by readers the
\* fill is refused and the cache left empty.
Filled(b) ==
  LET at == SelectInSeq(lru, LAMBDA c : c.hash = b.hash)
      room == {k \in 0..Len(lru) : Charged(Evict(lru, k)) < Blocks}
      k == CHOOSE k \in room : \A j \in room : k <= j
  IN  IF at # 0 THEN Promote(lru, at)
      ELSE IF room = {} THEN <<>>
      ELSE Insert(Evict(lru, k), b)

\* Mutant: the payload is not verified.
VerifiedNever(bytes, hash) == bytes = hash \/ bytes = "bad"
\* Payload::verify, and Cache::fill's own check of the hash.
Verified(bytes, hash) == bytes = hash

\* Read::advance_inner after a good CQE of an image that has not failed.
Advance(r) ==
  /\ Serving(Of(r)) /\ rd[r].io = "ready"
  /\ LET read == rd[r] IN
     \/ /\ read.stage = "own"
        /\ Stepped(rd, r, [read EXCEPT !.io = "none",
             !.stage = IF read.todo = <<>> THEN "done" ELSE "get"])
        /\ UNCHANGED <<reg, lru, used>>
     \/ /\ read.stage = "header"
        /\ Stepped(rd, r, Pushed([read EXCEPT !.stage = "payload"]))
        /\ UNCHANGED <<reg, lru, used>>
     \/ /\ read.stage = "payload" /\ Verified(read.got, Hash(r))
        /\ lru' = Filled([hash |-> Hash(r), id |-> NewBuffer,
                          bytes |-> read.got])
        /\ reg' = Unregistered(r) /\ UNCHANGED used
        /\ Stepped(rd, r, [read EXCEPT !.stage = "publish", !.io = "none"])
     \/ /\ read.stage = "waiting" /\ read.got # "failed"
        /\ \E next \in NextBlock(Taken(read, read.got)) : Stepped(rd, r, next)
        /\ UNCHANGED <<reg, lru, used>>
  /\ UNCHANGED gate

\* Reactor::fail, noticed by the reactor's loop: reads without an SQE are
\* rejected with the ones whose CQE arrived.
Failing(i, s) ==
  /\ image' = [image EXCEPT ![i].failed = TRUE, ![i].bulk = <<>>]
  /\ sched' = Ready(s, i, FALSE)
Unqueued(i) ==
  [q \in Reads |-> IF Of(q) = i /\ rd[q].io = "bulk"
                     THEN [rd[q] EXCEPT !.io = "ready"] ELSE rd[q]]

\* The drop of a read that failed; a leader's drop finishes its fetch.
Dropped(r) ==
  [Idle EXCEPT !.stage = IF \E h \in Hashes : reg[h] = r THEN "drop" ELSE "failed"]

\* Reactor::fail_read: a shared fetch that failed fails the host.
FailRead(r) ==
  /\ Serving(Of(r)) /\ rd[r].io = "ready"
  /\ \/ rd[r].stage = "payload" /\ ~Verified(rd[r].got, Hash(r))
     \/ rd[r].stage = "waiting" /\ rd[r].got = "failed"
  /\ gate' = TRUE /\ Failing(Of(r), sched)
  /\ rd' = [Unqueued(Of(r)) EXCEPT ![r] = Dropped(r)]
  /\ reg' = Unregistered(r)
  /\ UNCHANGED <<lru, used>>

\* A failure of the image alone, or the host's failure noticed.
LeadsFetch(i) == \E h \in Hashes : Of(reg[h]) = i
FailImage(i) ==
  /\ Serving(i)
  /\ \/ gate /\ UNCHANGED used
     \/ /\ "image" \in Faults /\ used.fault = "none"
        /\ used' = [used EXCEPT !.fault = IF LeadsFetch(i) THEN "leader" ELSE "image"]
  /\ Failing(i, sched) /\ rd' = Unqueued(i)
  /\ UNCHANGED <<reg, lru, gate>>

\* Mutant: a cancelled wait is taken for a failed fetch.
RejectShared(r) ==
  /\ image[Of(r)].failed /\ Turning(Of(r)) /\ rd[r].io = "ready"
  /\ rd' = [rd EXCEPT ![r] = Dropped(r)] /\ reg' = Unregistered(r)
  /\ gate' = (gate \/ rd[r].stage = "waiting")
  /\ UNCHANGED <<lru, image, sched, used>>
\* Reactor::reject by a failed image; a cancelled wait returns the image's own
\* error, whatever its fetch comes to.
Reject(r) ==
  /\ image[Of(r)].failed /\ Turning(Of(r)) /\ rd[r].io = "ready"
  /\ rd' = [rd EXCEPT ![r] = Dropped(r)] /\ reg' = Unregistered(r)
  /\ UNCHANGED <<lru, image, sched, gate, used>>

\* wait_background's deadline without an opportunity: the error fails the image
\* whose turn it was, or the host when it ran a quiesced operation.
Expire ==
  /\ sched.waiting /\ Selected(sched) # 0
  /\ "deadline" \in Faults /\ used.fault = "none"
  /\ used' = [used EXCEPT !.fault = "deadline"]
  /\ LET s == Notify([sched EXCEPT !.bg = FALSE, !.waiting = FALSE,
                                   !.woken = FALSE, !.passed = 0])
     IN  \/ gate' = TRUE /\ sched' = s /\ UNCHANGED <<rd, image>>
         \/ /\ UNCHANGED gate
            /\ \E i \in Images : Serving(i) /\ Failing(i, s) /\ rd' = Unqueued(i)
  /\ UNCHANGED <<reg, lru>>

-----------------------------------------------------------------------------
Init ==
  /\ rd = [r \in Reads |-> Idle]
  /\ reg = [h \in Hashes |-> Nobody] /\ lru = <<>>
  /\ image = [i \in Images |-> [failed |-> FALSE, bulk |-> <<>>]]
  /\ sched = [ready |-> [i \in Images |-> FALSE], next |-> 1, turn |-> 0,
              bg |-> FALSE, waiting |-> FALSE, woken |-> FALSE, passed |-> 0]
  /\ gate = FALSE
  /\ used = [jobs |-> 0, fault |-> "none"]

Step(r) ==
  Get(r) \/ Copy(r) \/ Lookup(r) \/ Peek(r) \/ Publish(r) \/ Complete(r)
    \/ Advance(r) \/ FailRead(r) \/ Reject(r)

Next ==
  \/ \E r \in Reads : Start(r) \/ Step(r)
  \/ \E i \in Images : Submit(i) \/ FailImage(i)
  \/ Ask \/ Wakes \/ Expire

Spec == Init /\ [][Next]_vars

\* Reactor threads run, the kernel completes what it was given, the background
\* owner runs when its condition variable is signalled; its deadline is not
\* what progress rests on.
FairSpec ==
  /\ Spec /\ WF_vars(Wakes)
  /\ \A r \in Reads : WF_vars(Step(r))
  /\ \A i \in Images : WF_vars(Submit(i)) /\ WF_vars(gate /\ FailImage(i))

-----------------------------------------------------------------------------
(* Properties                                                              *)

\* No answered read and no cached buffer holds bytes other than the ones its
\* manifest names, whichever image fetched them and whatever the device
\* returned.
BytesVerified ==
  /\ \A r \in Reads : ~rd[r].wrong
  /\ \A k \in DOMAIN lru : lru[k].bytes = lru[k].hash

\* The cache never charges more blocks than its capacity, counting buffers it
\* evicted while a reader still copies from them; a resident block is never
\* fetched again, and no block is fetched by two leaders at once.  Background IO
\* lets at most three demand reads pass.
FetchedOnce ==
  /\ sched.passed <= 3
  /\ Charged(lru) <= Blocks
  /\ \A r \in Reads : rd[r].stage \in {"header", "payload"} =>
       /\ reg[Hash(r)] = r
       /\ \A k \in DOMAIN lru : lru[k].hash # Hash(r)

\* Every accepted read is answered, whoever leads its fetch and however that
\* leader ends, and background IO is never left asleep behind the reads.
ReadsReturn ==
  []<>(/\ ~sched.waiting
       /\ \A r \in Reads : rd[r].stage \in {"idle", "done", "failed"})

\* docs/casctl.md:76: "An image socket failure after activation ends that image;
\* shared failures and incomplete retained recovery still stop all endpoints."
\* An image that fails with no fetch of its own in the registry, though its reads
\* wait for fetches of others, takes neither the host nor another image with it.
\* With a leader the claim is wrong: Leader::drop interrupts the waiters, and
\* fail_read of another image takes that for a failure of the shared storage.
FailureContained ==
  used.fault = "image" =>
    ~gate /\ \A i, j \in Images : image[i].failed /\ image[j].failed => i = j

=============================================================================
