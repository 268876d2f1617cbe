------------------------------ MODULE Frontend ------------------------------
(***************************************************************************)
(* Admission of guest requests by the frontends of the images of a shared  *)
(* host: discovery in ring order, independent reads passing a waiting      *)
(* queue head, tickets of the byte-fair scheduler, credits, WAL room and   *)
(* the pause of the host for collection.                                   *)
(*                                                                         *)
(* Every frontend is one thread that makes passes over its queues.  Its    *)
(* steps are the pieces between the locks it shares with other frontends,  *)
(* the reactors and the host worker.                                       *)
(***************************************************************************)
EXTENDS Integers, Sequences, FiniteSets, SequencesExt

CONSTANTS
  NImages,       \* images of the host
  QueueSize,     \* descriptors of a virtqueue
  Quantum,       \* bytes of a fairness visit, the largest request
  PendingLimit,  \* IMAGE_REQUEST_LIMIT
  HostCredits,   \* credits of the host for each pool
  ImageCredits,  \* share of an image in each pool
  WalRoom,       \* bytes of a WAL segment
  Programs,      \* what the guests post: a sequence for each image and queue
  MaxPauses      \* bound: pauses of the host

Images == 0 .. NImages - 1
Pools == {"read", "write", "control"}
Posted ==
  [kind : {"read", "write", "flush", "protocol"}, block : Nat,
   bytes : 1 .. Quantum]

ASSUME FrontendAssumption ==
  /\ NImages \in Nat \ {0} /\ QueueSize \in Nat \ {0} /\ Quantum \in Nat \ {0}
  /\ PendingLimit \in Nat \ {0} /\ WalRoom \in Nat /\ MaxPauses \in Nat
  /\ HostCredits \in [Pools -> Nat] /\ ImageCredits \in [Pools -> Nat]
  /\ \A p \in Programs :
       /\ DOMAIN p = Images
       /\ \A i \in Images :
            /\ IsFiniteSet(DOMAIN p[i]) /\ 0 \in DOMAIN p[i]
            /\ DOMAIN p[i] = 0 .. Cardinality(DOMAIN p[i]) - 1
            /\ p[i] \in [DOMAIN p[i] -> Seq(Posted)]

VARIABLES
  program,   \* what each guest posts on each queue
  posted,    \* requests posted on a queue
  found,     \* requests taken off a ring
  frontier,  \* Frontier.queues: discovered, not admitted
  orders,    \* Frontier.next_order
  slots,     \* order of the Waiting entry: the head's and the read candidate's
  wake,      \* the frontend has an event to handle
  pass,      \* where the frontend is in its pass
  fair,      \* fair::State
  pending,   \* requests that hold a permit
  packed,    \* of those, not handed to the reactor
  done,      \* of those, completed by the reactor
  wal,       \* Window
  host,      \* admission::Status
  pauses,    \* history: pauses so far
  admitted,  \* history: requests admitted
  passed     \* history: bytes admitted past a ready head of the image

guest == <<program, posted>>
queues == <<found, frontier, orders>>
io == <<pending, packed, done>>
gate == <<host, pauses>>
past == <<admitted, passed>>
vars == <<guest, queues, slots, wake, pass, fair, io, wal, gate, past>>

Queues(i) == DOMAIN program[i]
NQueues(i) == Cardinality(Queues(i))

-----------------------------------------------------------------------------
(* The byte-fair scheduler                                                 *)

NoTurn == [image |-> NImages, id |-> <<"head", 0>>]

Least(S) == CHOOSE n \in S : \A m \in S : n <= m
ReadyAt(heads) == {n \in DOMAIN heads : heads[n].ready}
FirstReady(heads) == heads[Least(ReadyAt(heads))]

Advance(f) ==
  [f EXCEPT !.cursor = (@ + 1) % NImages, !.replenish = TRUE]

\* The image of the k-th iteration of choose.
Visited(f, k) == (f.cursor + k) % NImages

\* mutant: every choice is a new visit
BudgetAgain(f, k) ==
  LET i == Visited(f, k)
      short == f.deficit[i] < FirstReady(f.heads[i]).bytes
  IN  f.deficit[i] + (IF short THEN Quantum ELSE 0)

\* Bytes the image may spend in the iteration: a new visit adds the quantum
\* when its first ready head needs it.
Budget(f, k) ==
  LET i == Visited(f, k)
      short == f.deficit[i] < FirstReady(f.heads[i]).bytes
  IN  f.deficit[i] + (IF (k > 0 \/ f.replenish) /\ short THEN Quantum ELSE 0)

\* Iterations that end the search.
Served(f) ==
  {k \in 0 .. NImages :
     LET heads == f.heads[Visited(f, k)]
     IN  ReadyAt(heads) # {} /\ Budget(f, k) >= FirstReady(heads).bytes}

\* The state the search leaves after n iterations: idle images lose their
\* deficit.
Searched(f, n) ==
  [f EXCEPT !.deficit = [i \in Images |->
     IF ReadyAt(f.heads[i]) = {} /\ \E k \in 0 .. n - 1 : Visited(f, k) = i
     THEN 0 ELSE @[i]]]

\* The search serves the first image it can, or has gone round them all.
Search(f) ==
  IF Served(f) = {}
  THEN {[fair |-> [Searched(f, NImages + 1) EXCEPT
                     !.cursor = Visited(f, NImages + 1), !.replenish = TRUE],
         pick |-> NoTurn]}
  ELSE {[fair |-> [Searched(f, k) EXCEPT
                     !.deficit[Visited(f, k)] = Budget(f, k),
                     !.cursor = Visited(f, k), !.replenish = FALSE],
         pick |-> [image |-> Visited(f, k),
                   id |-> FirstReady(f.heads[Visited(f, k)]).id]] :
          k \in {Least(Served(f))}}

\* The next head to try and the state the search leaves, one in every state.
Choose(f) ==
  IF f.granted # NoTurn THEN {[fair |-> f, pick |-> NoTurn]} ELSE Search(f)

\* mutant: a release during a turn is not remembered
ReleasedNow(f) ==
  [f EXCEPT !.heads = [i \in Images |->
     [n \in DOMAIN f.heads[i] |-> [f.heads[i][n] EXCEPT !.ready = TRUE]]]]

\* resources_released, up to its wake_next.
Released(f) ==
  [f EXCEPT !.released = @ \/ f.granted # NoTurn,
            !.heads = [i \in Images |->
     [n \in DOMAIN f.heads[i] |-> [f.heads[i][n] EXCEPT !.ready = TRUE]]]]

\* Places of a ticket in the queue of its image.
Places(heads, id) == {n \in DOMAIN heads : heads[n].id = id}
Place(heads, id) == Least(Places(heads, id))

\* Ticket::drop, up to its wake_next.
Dropped(f, i, id) ==
  IF Places(f.heads[i], id) = {} THEN f
  ELSE [f EXCEPT !.heads[i] = RemoveAt(@, Place(@, id))]

Issued(f, i, id, bytes) ==
  [f EXCEPT !.heads[i] = Append(@, [id |-> id, bytes |-> bytes, ready |-> TRUE])]

\* Ticket::turn makes its head ready before it asks.
Readied(f, i, id) ==
  [f EXCEPT !.heads[i] = [n \in DOMAIN @ |->
     IF @[n].id = id THEN [@[n] EXCEPT !.ready = TRUE] ELSE @[n]]]

Granted(f, turn) == [f EXCEPT !.granted = turn, !.released = FALSE]

\* Turn::commit and the drop of a committed turn.
Committed(f, i, id) ==
  LET t == f.heads[i][Place(f.heads[i], id)]
  IN  [Dropped(f, i, id) EXCEPT !.deficit[i] = @ - t.bytes,
                                !.granted = NoTurn]

\* The drop of a refused turn: its head goes behind the others of its image.
Refused(f, i, id) ==
  LET t == f.heads[i][Place(f.heads[i], id)]
  IN  Advance([Dropped(f, i, id) EXCEPT
                 !.heads[i] = Append(@, [t EXCEPT !.ready = f.released]),
                 !.granted = NoTurn])

-----------------------------------------------------------------------------
(* Requests                                                                *)

Pool(r) == IF r.kind \in {"read", "write"} THEN r.kind ELSE "control"
Data(r) == Pool(r) # "control"

Conflicts(older, later) ==
  \/ ~Data(older) \/ ~Data(later)
  \/ older.block = later.block /\ ~(older.kind = "read" /\ later.kind = "read")

Discovered(i) == UNION {Range(frontier[i][q]) : q \in Queues(i)}

\* mutant: only the candidate's own queue is compared
EligibleAlone(i, q, n) ==
  LET r == frontier[i][q][n]
  IN  /\ n = 1 \/ r.kind = "read"
      /\ \A o \in Range(frontier[i][q]) : o.order < r.order => ~Conflicts(o, r)

\* Only reads pass a queue head, and nothing passes what it conflicts with.
Eligible(i, q, n) ==
  LET r == frontier[i][q][n]
  IN  /\ n = 1 \/ r.kind = "read"
      /\ \A o \in Discovered(i) : o.order < r.order => ~Conflicts(o, r)

QueueAt(i) == (pass[i].first + pass[i].at) % NQueues(i)
Candidates(i) ==
  {n \in DOMAIN frontier[i][QueueAt(i)] :
     n >= pass[i].cand /\ Eligible(i, QueueAt(i), n)}
Candidate(i) == frontier[i][QueueAt(i)][pass[i].cand]
Slot(n) == IF n = 1 THEN "head" ELSE "read"
Ticket(i) == <<Slot(pass[i].cand), Candidate(i).order>>

Woken(W) == [i \in Images |-> wake[i] \/ i \in W]

\* After a wait: one read candidate for each queue, else the next request.
Waited(p, n, kind) ==
  [p EXCEPT !.cand = IF kind = "read" THEN QueueSize + 1 ELSE n + 1,
            !.step = "scan"]

-----------------------------------------------------------------------------
(* Guests and passes                                                       *)

Outstanding(i, q) ==
  posted[i][q] - found[i][q] + Len(frontier[i][q])
    + Cardinality({r \in pending[i] : r.queue = q})

\* The guest posts its next request and kicks.
Post(i, q) ==
  /\ posted[i][q] < Len(program[i][q])
  /\ Outstanding(i, q) < QueueSize
  /\ posted' = [posted EXCEPT ![i][q] = @ + 1]
  /\ wake' = Woken({i})
  /\ UNCHANGED <<program, queues, slots, pass, fair, io, wal, gate, past>>

\* The retry timer is armed while an entry waits.
Waits(i) == \E s \in {"head", "read"}, q \in Queues(i) : slots[i][s][q] # 0

\* A step leaves the scheduler f, then calls wake_next; W are its own wakes.
WakeNext(f, W) ==
  \E g \in {f} : \E c \in Choose(g) :
    /\ fair' = c.fair
    /\ wake' = Woken(W \cup (Images \cap {c.pick.image}))

\* One ring's worth of requests of queue q joins the frontier in ring order.
Discover(i, q) ==
  LET room == QueueSize - Len(frontier[i][q])
      ring == posted[i][q] - found[i][q]
      n == IF ring < room THEN ring ELSE room
      new == [k \in 1 .. n |->
                [kind |-> program[i][q][found[i][q] + k].kind,
                 block |-> program[i][q][found[i][q] + k].block,
                 bytes |-> program[i][q][found[i][q] + k].bytes,
                 queue |-> q, order |-> orders[i] + k]]
  IN  /\ frontier' = [frontier EXCEPT ![i][q] = @ \o new]
      /\ found' = [found EXCEPT ![i][q] = @ + n]
      /\ orders' = [orders EXCEPT ![i] = @ + n]

\* A pass retires the completions first, which releases the credits of every
\* retired data request, and goes to the queue after its last first one.
StartPass(i) ==
  /\ pass[i].step = "idle" /\ (wake[i] \/ Waits(i))
  /\ LET retired == {r \in pending[i] : r.order \in done[i]}
         first == (pass[i].first + 1) % NQueues(i)
     IN  /\ IF \E r \in retired : Data(r)
            THEN \E f \in {Released(fair)} : \E c \in Choose(f) :
                   /\ fair' = c.fair
                   /\ wake' = [j \in Images |->
                                 j = c.pick.image \/ (j # i /\ wake[j])]
            ELSE fair' = fair /\ wake' = [wake EXCEPT ![i] = FALSE]
         /\ pending' = [pending EXCEPT ![i] = @ \ retired]
         /\ Discover(i, first)
         /\ pass' = [pass EXCEPT ![i] = [first |-> first, at |-> 0, cand |-> 1,
                                         step |-> "scan"]]
  /\ done' = [done EXCEPT ![i] = {}]
  /\ UNCHANGED <<guest, slots, packed, wal, gate, past>>

\* No candidate is left in the queue: on to the next.
NextQueue(i) ==
  /\ pass[i].step = "scan" /\ Candidates(i) = {} /\ pass[i].at < NQueues(i) - 1
  /\ Discover(i, (pass[i].first + pass[i].at + 1) % NQueues(i))
  /\ pass' = [pass EXCEPT ![i].at = @ + 1, ![i].cand = 1]
  /\ UNCHANGED <<guest, slots, wake, fair, io, wal, gate, past>>

\* mutant: the last batch of a pass is kept open
Unsealed(i) == packed[i]

\* Storage::submit hands the open batch to the reactor.
Submitted(i) == {}

EndPass(i) ==
  /\ pass[i].step = "scan" /\ Candidates(i) = {} /\ pass[i].at = NQueues(i) - 1
  /\ packed' = [packed EXCEPT ![i] = Submitted(i)]
  /\ pass' = [pass EXCEPT ![i].at = 0, ![i].cand = 1, ![i].step = "idle"]
  /\ UNCHANGED <<guest, queues, slots, wake, fair, pending, done, wal, gate,
                 past>>

-----------------------------------------------------------------------------
(* Admission of a candidate                                                *)

\* mutant: the read that became the head keeps its read ticket
StaleOther(i, q, n) ==
  LET r == frontier[i][q][n]
  IN  {s \in {Slot(n)} : slots[i][s][q] \notin {0, r.order}}

\* Slots a poll gives up: the read ticket of what is the head by now, and
\* the ticket of another request in the same slot.
Stale(i, q, n) ==
  LET r == frontier[i][q][n]
  IN  {s \in {"head", "read"} :
         \/ s = Slot(n) /\ slots[i][s][q] \notin {0, r.order}
         \/ s = "read" /\ n = 1 /\ slots[i][s][q] = r.order}

\* The frontend whose head the scheduler wants instead.
Wakes(pick) == Images \cap {pick.image}

\* The ticket of a poll, new or made ready again.
Ticketed(f, i, id, bytes) ==
  IF \E t \in Range(f.heads[i]) : t.id = id THEN Readied(f, i, id)
  ELSE Issued(f, i, id, bytes)

\* Ask for the turn of a ticket.
Turn(f, i, id, turn, wait) ==
  \E c \in Choose(f) :
    IF c.pick = [image |-> i, id |-> id]
    THEN /\ fair' = Granted(c.fair, c.pick)
         /\ pass' = [pass EXCEPT ![i] = turn]
         /\ passed' = [passed EXCEPT ![i] = 0]
         /\ UNCHANGED wake
    ELSE /\ fair' = c.fair
         /\ pass' = [pass EXCEPT ![i] = wait]
         /\ wake' = Woken(Wakes(c.pick))
         /\ UNCHANGED passed

\* Poll the first eligible candidate: take a ticket, ask for its turn.  A
\* stale ticket is given up in a step before, which wakes the next frontend.
Poll(i) ==
  /\ pass[i].step = "scan"
  /\ \E n \in {Least(Candidates(i)) : c \in Candidates(i)} :
       LET q    == QueueAt(i)
           r    == frontier[i][q][n]
           id   == <<Slot(n), r.order>>
           turn == [pass[i] EXCEPT !.cand = n, !.step = "turn"]
       IN  /\ Stale(i, q, n) = {}
           /\ slots' = [slots EXCEPT ![i][Slot(n)][q] = r.order]
           /\ IF Data(r)
              THEN \E f \in {Ticketed(fair, i, id, r.bytes)} :
                     Turn(f, i, id, turn, Waited(turn, n, r.kind))
              ELSE pass' = [pass EXCEPT ![i] = turn]
                   /\ UNCHANGED <<fair, wake, passed>>
  /\ UNCHANGED <<guest, queues, io, wal, gate, admitted>>

\* A head slot is never stale, so there is never more than one to give up.
GiveUp(i) ==
  /\ pass[i].step = "scan"
  /\ \E n \in {Least(Candidates(i)) : c \in Candidates(i)} :
       LET q == QueueAt(i)
       IN  \E s \in Stale(i, q, n) :
             /\ slots' = [slots EXCEPT ![i][s][q] = 0]
             /\ WakeNext(Dropped(fair, i, <<s, slots[i][s][q]>>), {})
  /\ passed' = [passed EXCEPT ![i] = 0]
  /\ UNCHANGED <<guest, queues, pass, io, wal, gate, admitted>>

Held(i, pool) == Cardinality({r \in pending[i] : Pool(r) = pool})

HasCredits(i, r) ==
  LET held == FoldLeft(LAMBDA sum, j : sum + Held(j - 1, Pool(r)), 0,
                       [j \in 1 .. NImages |-> j])
  IN  /\ held < HostCredits[Pool(r)]
      /\ Held(i, Pool(r)) < ImageCredits[Pool(r)]

HasRoom(i, r) ==
  r.kind = "write" => ~wal[i].wanted /\ wal[i].used + r.bytes <= WalRoom

\* Admission::enter.
Enters(r) == ~host.paused

Full(i) == Cardinality(pending[i]) >= PendingLimit

Admits(i, r) == ~Full(i) /\ Enters(r) /\ HasCredits(i, r) /\ HasRoom(i, r)

Overtaken(i, bytes) ==
  [j \in Images |-> IF j = i \/ ReadyAt(fair.heads[j]) = {} THEN 0
                    ELSE passed[j] + bytes]

\* The storage takes the request; an immediate one is answered at once.
\* Anything but a write closes the open batch.
Enqueue(i, r) ==
  /\ pending' = IF r.kind = "protocol" THEN pending
                ELSE [pending EXCEPT ![i] = @ \cup {r}]
  /\ packed' = [packed EXCEPT ![i] =
                  IF r.kind = "write" THEN @ \cup {r.order} ELSE {}]
  /\ wal' = IF r.kind = "write"
            THEN [wal EXCEPT ![i].used = @ + r.bytes] ELSE wal

\* The request that has the turn gets its permit, commits the turn and leaves
\* the frontier for the storage.
Admit(i) ==
  /\ pass[i].step = "turn"
  /\ LET r == Candidate(i)
         q == QueueAt(i)
     IN  /\ Admits(i, r)
         /\ IF Data(r)
            THEN /\ WakeNext(Committed(fair, i, Ticket(i)), {i})
                 /\ passed' = Overtaken(i, r.bytes)
            ELSE fair' = fair /\ wake' = Woken({i}) /\ UNCHANGED passed
         /\ slots' = [slots EXCEPT ![i][Slot(pass[i].cand)][q] = 0]
         /\ frontier' = [frontier EXCEPT ![i][q] = RemoveAt(@, pass[i].cand)]
         /\ Enqueue(i, r)
         /\ admitted' = [admitted EXCEPT ![i] = @ \cup {r}]
  /\ pass' = [pass EXCEPT ![i].cand = 1, ![i].step = "scan"]
  /\ UNCHANGED <<guest, found, orders, done, gate>>

\* The storage has no permit.  A refusal closes the open batch, and asks for
\* a rotation when the segment is what is missing.
Deny(i) ==
  /\ pass[i].step = "turn"
  /\ LET r == Candidate(i)
     IN  /\ ~Admits(i, r)
         /\ packed' = IF Full(i) THEN packed ELSE [packed EXCEPT ![i] = {}]
         /\ wal' = IF ~Full(i) /\ Enters(r) /\ HasCredits(i, r)
                   THEN [wal EXCEPT ![i].wanted = TRUE] ELSE wal
  /\ pass' = [pass EXCEPT ![i].step = "refused"]
  /\ UNCHANGED <<guest, queues, slots, wake, fair, pending, done, gate, past>>

\* The turn is dropped, the request waits.
Refuse(i) ==
  /\ pass[i].step = "refused"
  /\ LET r == Candidate(i)
     IN  /\ IF Data(r) THEN WakeNext(Refused(fair, i, Ticket(i)), {})
            ELSE UNCHANGED <<fair, wake>>
         /\ pass' = [pass EXCEPT ![i] = Waited(@, @.cand, r.kind)]
  /\ UNCHANGED <<guest, queues, slots, io, wal, gate, past>>

-----------------------------------------------------------------------------
(* Reactor and host                                                        *)

\* The reactor finishes a request it was handed and wakes the frontend.
Complete(i) ==
  \E r \in pending[i] :
    /\ r.order \notin packed[i] \cup done[i]
    /\ done' = [done EXCEPT ![i] = @ \cup {r.order}]
    /\ wake' = Woken({i})
    /\ UNCHANGED <<guest, queues, slots, pass, fair, pending, packed, wal, gate,
                   past>>

\* drain_window: the segment may end once its writes are published.
MayRotate(i) ==
  /\ wal[i].wanted /\ ~wal[i].rotated /\ ~host.paused
  /\ \A r \in pending[i] : r.kind = "write" => r.order \in done[i]

\* The successor is installed; the host reports the room before the window
\* has it.
Rotate(i) ==
  /\ MayRotate(i)
  /\ wal' = [wal EXCEPT ![i].rotated = TRUE]
  /\ WakeNext(Released(fair), {})
  /\ UNCHANGED <<guest, queues, slots, pass, io, gate, past>>

\* The window reopens and the reactor wakes its frontend.
Reopen(i) ==
  /\ wal[i].rotated
  /\ wal' = [wal EXCEPT ![i] = [used |-> 0, wanted |-> FALSE, rotated |-> FALSE]]
  /\ wake' = Woken({i})
  /\ UNCHANGED <<guest, queues, slots, pass, fair, io, gate, past>>

Pause ==
  /\ ~host.paused /\ pauses < MaxPauses
  /\ host' = [host EXCEPT !.paused = TRUE]
  /\ pauses' = pauses + 1
  /\ wake' = Woken(Images)
  /\ UNCHANGED <<guest, queues, slots, pass, fair, io, wal, past>>

\* Every owner admitted before the pause is gone.
Begin ==
  /\ host.paused /\ ~host.running
  /\ \A i \in Images : pending[i] = {}
  /\ host' = [host EXCEPT !.running = TRUE]
  /\ UNCHANGED <<guest, queues, slots, wake, pass, fair, io, wal, pauses, past>>

\* The pause ends: collection finished, or it was given up before it began.
Resume ==
  /\ host.paused
  /\ host' = [paused |-> FALSE, running |-> FALSE]
  /\ wake' = Woken(Images)
  /\ UNCHANGED <<guest, queues, slots, pass, fair, io, wal, pauses, past>>

-----------------------------------------------------------------------------
(* Specification                                                           *)

Init ==
  /\ program \in Programs
  /\ posted = [i \in Images |-> [q \in Queues(i) |-> 0]]
  /\ found = posted
  /\ frontier = [i \in Images |-> [q \in Queues(i) |-> <<>>]]
  /\ orders = [i \in Images |-> 0]
  /\ slots = [i \in Images |-> [s \in {"head", "read"} |->
                                  [q \in Queues(i) |-> 0]]]
  /\ wake = [i \in Images |-> FALSE]
  /\ pass = [i \in Images |-> [first |-> NQueues(i) - 1, at |-> 0, cand |-> 1,
                               step |-> "idle"]]
  /\ fair = [heads |-> [i \in Images |-> <<>>],
             deficit |-> [i \in Images |-> 0],
             cursor |-> 0, replenish |-> TRUE, granted |-> NoTurn,
             released |-> FALSE]
  /\ pending = [i \in Images |-> {}]
  /\ packed = pending /\ done = pending
  /\ wal = [i \in Images |-> [used |-> 0, wanted |-> FALSE, rotated |-> FALSE]]
  /\ host = [paused |-> FALSE, running |-> FALSE]
  /\ pauses = 0
  /\ admitted = [i \in Images |-> {}]
  /\ passed = [i \in Images |-> 0]

FrontendStep(i) ==
  \/ StartPass(i) \/ NextQueue(i) \/ EndPass(i)
  \/ Poll(i) \/ GiveUp(i) \/ Admit(i) \/ Deny(i) \/ Refuse(i)
HostStep == Begin \/ Resume

Next ==
  \/ \E i \in Images : \E q \in Queues(i) : Post(i, q)
  \/ \E i \in Images : FrontendStep(i)
  \/ \E i \in Images : Complete(i)
  \/ \E i \in Images : Rotate(i) \/ Reopen(i)
  \/ Pause \/ HostStep

Spec == Init /\ [][Next]_vars

\* The event loop of a frontend and its timer run, IO completes, the host
\* rotates logs and ends its pauses.  Nothing makes a guest post.
FairSpec ==
  /\ Spec
  /\ \A i \in Images : /\ WF_vars(FrontendStep(i))
                       /\ WF_vars(Complete(i))
                       /\ WF_vars(Rotate(i) \/ Reopen(i))
  /\ WF_vars(HostStep)

-----------------------------------------------------------------------------
(* Properties                                                              *)

Requests ==
  [kind : {"read", "write", "flush", "protocol"}, block : Nat,
   bytes : 1 .. Quantum, queue : Nat, order : Nat]

\* Types and limits: a queue never holds more than its ring, an image never
\* saves two quanta of deficit, and a segment is never promised beyond its end.
TypeOK ==
  /\ program \in Programs
  /\ \A i \in Images : \A q \in Queues(i) :
       /\ posted[i][q] \in 0 .. Len(program[i][q])
       /\ found[i][q] \in 0 .. posted[i][q]
       /\ Range(frontier[i][q]) \subseteq Requests
       /\ Len(frontier[i][q]) <= QueueSize
  /\ orders \in [Images -> Nat]
  /\ wake \in [Images -> BOOLEAN]
  /\ \A i \in Images :
       /\ slots[i] \in [{"head", "read"} -> [Queues(i) -> Nat]]
       /\ pass[i].step \in {"idle", "scan", "turn", "refused"}
       /\ pass[i].at \in Queues(i) /\ pass[i].first \in Queues(i)
       /\ fair.deficit[i] \in 0 .. 2 * Quantum - 1
       /\ pending[i] \subseteq Requests
       /\ wal[i].used \in 0 .. WalRoom
  /\ fair.cursor \in Images /\ fair.replenish \in BOOLEAN
  /\ host \in [paused : BOOLEAN, running : BOOLEAN]
  /\ pauses \in 0 .. MaxPauses

\* The scheduler's queue of an image holds exactly one ticket for each data
\* request that waits in a slot, and every slot names a discovered request.
TicketsOwned ==
  \A i \in Images :
    LET waiting == {w \in {"head", "read"} \X Queues(i) :
                      slots[i][w[1]][w[2]] # 0}
        request(w) == CHOOSE r \in Discovered(i) : r.order = slots[i][w[1]][w[2]]
        owned == {w \in waiting : Data(request(w))}
        ids == {t.id : t \in Range(fair.heads[i])}
    IN  /\ \A w \in waiting :
             \E r \in Range(frontier[i][w[2]]) : r.order = slots[i][w[1]][w[2]]
        /\ ids = {<<w[1], slots[i][w[1]][w[2]]>> : w \in owned}
        /\ Cardinality({id[2] : id \in ids}) = Len(fair.heads[i])

\* At most one frontend is in a turn; the scheduler knows it, its head is still
\* queued and ready, and the image can pay for it, so the commit of the turn
\* neither fails its assertion nor takes the deficit below zero.
TurnPaid ==
  LET inTurn == {i \in Images : /\ pass[i].step \in {"turn", "refused"}
                                /\ Data(Candidate(i))}
  IN  IF inTurn = {} THEN fair.granted = NoTurn
      ELSE \E i \in inTurn :
             /\ inTurn = {i}
             /\ fair.granted = [image |-> i, id |-> Ticket(i)]
             /\ \E t \in Range(fair.heads[i]) :
                  t.id = Ticket(i) /\ t.ready /\ fair.deficit[i] >= t.bytes

\* Two conflicting requests of an image are admitted in the order they were
\* discovered in, whichever queues they came from, and only reads pass others
\* of their own queue.
AdmittedInOrder ==
  \A i \in Images : \A a \in admitted[i], w \in Discovered(i) :
    w.order < a.order =>
      ~Conflicts(w, a) /\ (a.queue = w.queue => a.kind = "read")

\* Capacity that came free after a head was refused is never forgotten: a head
\* marked unready could not be admitted now, or its frontend has an event.
ReleaseKept ==
  \A i \in Images : pass[i].step = "idle" /\ ~wake[i] =>
    \A t \in Range(fair.heads[i]) :
      ~t.ready => \A r \in Discovered(i) : r.order = t.id[2] => ~Admits(i, r)

\* The scheduler never waits for a frontend that does not know it: the image
\* whose head it would choose is in a pass or has an event.
ChosenAwake ==
  \A c \in Choose(fair) :
    c.pick # NoTurn => pass[c.pick.image].step # "idle" \/ wake[c.pick.image]

\* While the host collects, no guest request holds a permit.
CollectionAlone == host.running => \A i \in Images : pending[i] = {}

\* The bookkeeping of turns: tickets match waiting requests, the turn in
\* progress is paid, and none is in progress while the host collects
\* (fair.rs, admission.rs).
TurnsOwned == TypeOK /\ TicketsOwned /\ TurnPaid /\ CollectionAlone

\* No wake is lost: freed capacity and a changed choice reach the frontend they
\* concern (Release, Turn::drop).
WakesKept == ReleaseKept /\ ChosenAwake

\* Tickets of an image from its first ready one on.
Behind(heads) ==
  IF ReadyAt(heads) = {} THEN 0 ELSE Len(heads) + 1 - Least(ReadyAt(heads))

\* Byte fairness: while an image has a ready head, each other image admits
\* less than two quanta before that image gets a turn, for each ticket from
\* its first ready one on: making an older and larger head of the image ready
\* again can cost it the visit the scheduler had chosen it for.
OvertakeBounded ==
  \A i \in Images :
    passed[i] <= Behind(fair.heads[i]) * ((NImages - 1) * (2 * Quantum - 1))

Waiting(i) ==
  \E q \in Queues(i) : posted[i][q] > found[i][q] \/ frontier[i][q] # <<>>

\* Every posted request is admitted: no ticket, pause, credit or batch keeps a
\* queue waiting for ever.
RequestsAdmitted == \A i \in Images : Waiting(i) ~> ~Waiting(i)
=============================================================================
