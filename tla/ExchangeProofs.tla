--------------------------- MODULE ExchangeProofs ---------------------------
(***************************************************************************)
(* The background owner of a host and any number of images: an operation   *)
(* on the quiesced host runs alone, a snapshot is cut where its image      *)
(* stands, and the exchange never fails by itself.                         *)
(***************************************************************************)
EXTENDS Exchange, FiniteSetTheorems, WellFoundedInduction, TLAPS

-----------------------------------------------------------------------------
(* The inductive invariant.                                                *)

Operations == {"collect", "snapshot"}
EventOps ==
  {"select", "compactq", "published", "reclaimed", "allocate", "rotated",
   "deferred", "quiesce", "resume", "failed", "closed"}
ReplyOps ==
  {"selected", "none", "reclaim", "applied", "rotation", "deferred",
   "quiesced", "failed"}
Phases ==
  {"idle", "turn", "drain", "quiesce", "settle", "operate", "compact",
   "resume", "unnotify", "unresume", "ended"}

\* Phases of a collection or a snapshot.
Pausing == Phases \ {"idle", "turn", "ended"}

PortType ==
  [up : {"new", "on", "stopped", "detached", "off"}, failed : BOOLEAN,
   entries : {0, 1}, issued : Nat, durable : Nat, compacted : Nat,
   through : Nat, active : BOOLEAN, granted : BOOLEAN,
   rotation : {"none", "roll", "fresh"}, turn : {"none", "rotate", "compact"},
   rotating : BOOLEAN, retry : BOOLEAN, gen : Nat, acked : BOOLEAN]
EventType == [op : EventOps, gen : Nat]
ReplyType == [op : ReplyOps, for : EventOps \cup {"abort"}, gen : Nat]
ReadyType ==
  [op : {"rotate", "compact"}, image : Images]
    \cup [op : Operations, image : Images \cup {0}]
HostType ==
  [generation : Nat, paused : BOOLEAN, running : BOOLEAN, failed : BOOLEAN,
   gate : BOOLEAN, claimed : BOOLEAN, pressured : BOOLEAN, closed : BOOLEAN,
   left : [admin : Int, mutate : Int, rotate : Int]]
OwnerType ==
  [phase : Phases, event : (EventOps \ {"failed", "closed"}) \cup {"none"},
   image : Images \cup {0}, todo : SUBSET Images,
   operation : Operations \cup {"none"}, target : Images \cup {0},
   uncertain : BOOLEAN, advanced : BOOLEAN, checked : BOOLEAN, quiescent : [Images -> Nat]]

Slots(T) == {s \in Seq(T) : Len(s) <= 1}

\* The invariant is stated for replies rs, ready queue rd, owner o and manifests
\* ms, which the steps of the owner change before they send or give up.
TypeOk(rs, rd, o, ms) ==
  /\ img \in [Images -> PortType] /\ events \in [Images -> Slots(EventType)]
  /\ rs \in [Images -> Slots(ReplyType)] /\ rd \in Seq(ReadyType)
  /\ host \in HostType /\ o \in OwnerType
  /\ ms \in [Images -> Nat] /\ excused \in BOOLEAN

\* Which event the owner may await in which phase, and what it then knows.
OwnerOk(o) ==
  /\ o.event = "none" <=> o.image = 0
  /\ o.event \in {"select", "allocate", "rotated"} => o.phase = "turn"
  /\ o.event = "compactq" => o.phase = "compact"
  /\ o.event \in {"published", "reclaimed"} => o.phase \in {"turn", "compact"}
  /\ o.event = "quiesce" => o.phase = "quiesce" /\ o.uncertain
  /\ o.event = "resume" => o.phase \in {"resume", "unresume"}
  /\ o.event = "deferred" =>
       o.phase \in {"turn", "compact", "drain", "settle", "unnotify"}
  /\ o.operation = "snapshot" => o.target \in Images

\* A pause is claimed once and closes admission until it ends.
PauseOk(rd, o) ==
  /\ o.phase \in Pausing =>
       host.paused /\ host.claimed /\ host.generation > 0
         /\ o.operation \in Operations
  /\ o.phase \in {"quiesce", "settle", "operate", "compact", "resume"} => ~Entered
  /\ \A k \in DOMAIN rd : rd[k].op \in Operations =>
       /\ host.claimed /\ o.phase \notin Pausing
       /\ rd[k].op = "snapshot" => rd[k].image \in Images
       /\ \A l \in DOMAIN rd : rd[l].op \in Operations => l = k
  /\ \A k \in DOMAIN rd : rd[k].op \notin Operations => img[rd[k].image].up # "new"
  /\ ~host.gate /\ o.phase \in {"operate", "compact"} => rd = <<>>

\* Acknowledgements count for the pause under way.
QuiescentOk(o) ==
  ~host.gate =>
    /\ \A i \in Images : o.quiescent[i] \in {0, Gen}
    /\ \A i \in Images : o.quiescent[i] # 0 => o.phase \in Pausing \ {"drain"}
    /\ o.phase \in {"resume", "unresume"} =>
         o.todo = {i \in Images : o.quiescent[i] # 0}
    /\ o.phase \in {"settle", "operate", "compact"} =>
         \A i \in o.todo : o.quiescent[i] # 0
    /\ o.phase = "compact" /\ o.event # "none" => o.quiescent[o.image] # 0
    /\ o.phase # "compact" /\ o.event = "deferred" => o.quiescent[o.image] = 0
    /\ o.phase = "quiesce" =>
         /\ \A i \in o.todo : o.quiescent[i] = 0
         /\ o.event # "none" => o.quiescent[o.image] = 0 /\ o.image \notin o.todo

\* The image i has answered this pause, or is not asked any more.
Asked(i, o) ==
  \/ o.phase \in {"settle", "operate", "compact"}
  \/ o.phase = "quiesce" /\ i \notin o.todo /\ o.image # i

\* What a port in state p with event slot e and reply slot r knows of owner o,
\* at generation g.
OnInv(i, p, e, r, o, g) ==
  /\ e # <<>> =>
       \/ o.image = i /\ Head(e).op = o.event /\ Head(e).gen = g
       \/ o.image # i /\ Head(e).op = "deferred"
  /\ r # <<>> =>
       \/ o.image = i /\ Head(r).for = o.event /\ e = <<>>
       \/ /\ Head(r).op = "applied" /\ Head(r).for = "deferred"
          /\ o.image = i =>
               o.event \in {"select", "allocate", "compactq", "quiesce", "deferred"}
  /\ p.gen # 0 /\ ~p.acked =>
       o.image = i /\ o.event = "quiesce" /\ p.gen = g /\ e = <<>>
  /\ r # <<>> /\ Head(r).for = "quiesce" => p.gen = 0 \/ p.acked
  /\ r # <<>> /\ Head(r).op = "quiesced" => p.gen = g /\ p.acked /\ p.turn = "none"
  /\ o.quiescent[i] # 0 =>
       /\ e # <<>> => o.image = i
       /\ r # <<>> => o.image = i /\ e = <<>>
  /\ Asked(i, o) => /\ o.quiescent[i] = g /\ p.gen = g /\ p.acked
                    /\ p.turn = "none"

HealthyInv(i, p, e, r, o, g, m) ==
  /\ IF e # <<>> /\ Head(e).op = "published"
       THEN m = p.through /\ p.active /\ p.up = "on"
       ELSE m = p.compacted
  /\ r # <<>> /\ Head(r).op = "selected" =>
       p.up = "on" /\ p.active /\ Head(r).for \in {"select", "compactq"}
  /\ r # <<>> /\ Head(r).op = "quiesced" =>
       p.entries = 0 /\ p.durable = p.issued /\ Head(r).for = "quiesce"
  /\ o.quiescent[i] # 0 => p.entries = 0 /\ p.durable = p.issued
  /\ p.up = "new" =>
       e = <<>> /\ r = <<>> /\ p.gen = 0 /\ o.image # i /\ o.quiescent[i] = 0
  /\ p.up = "on" => OnInv(i, p, e, r, o, g)

PortsOk(rs, o, ms) ==
  \A i \in Images :
    /\ img[i].failed => img[i].turn = "none"
    /\ Healthy(i) => HealthyInv(i, img[i], events[i], rs[i], o, Gen, ms[i])

ExchangeAt(rs, rd, o, ms) ==
  /\ TypeOk(rs, rd, o, ms) /\ OwnerOk(o) /\ PauseOk(rd, o) /\ QuiescentOk(o)
  /\ PortsOk(rs, o, ms)

TypeInv == TypeOk(replies, ready, owner, manifest)
OwnerInv == OwnerOk(owner)
PauseInv == PauseOk(ready, owner)
QuiescentInv == QuiescentOk(owner)
PortInv == PortsOk(replies, owner, manifest)
ExchangeInv == TypeInv /\ OwnerInv /\ PauseInv /\ QuiescentInv /\ PortInv

\* The image has acknowledged the pause under way.
Acked(i) ==
  \/ owner.quiescent[i] = Gen
  \/ replies[i] # <<>> /\ Head(replies[i]).op = "quiesced" /\ Head(replies[i]).gen = Gen

\* Its log is fenced and its root is the one its log knows of, also when it has
\* failed or left since; but for a root of this pause not yet told.
Settled(i) ==
  /\ img[i].entries = 0 /\ img[i].durable = img[i].issued
  /\ \/ manifest[i] = img[i].compacted
     \/ /\ owner.phase = "compact" /\ owner.image = i /\ owner.event = "published"
        /\ replies[i] = <<>> \/ Head(replies[i]).op = "failed"

CutOf(i) ==
  /\ owner.quiescent[i] <= Gen
  /\ replies[i] # <<>> /\ Head(replies[i]).op = "quiesced" => Head(replies[i]).gen <= Gen
  /\ owner.phase \in Pausing /\ Acked(i) => Settled(i)

\* A snapshot past its check is of an image that acknowledged this pause.
Checking == {"operate", "compact", "resume"}
CheckedInv ==
  owner.checked => /\ owner.phase \in Checking
                   /\ owner.phase # "resume" => owner.quiescent[owner.target] = Gen

CutInv == CheckedInv /\ \A i \in Images : CutOf(i)

-----------------------------------------------------------------------------
(* Frame lemmas.                                                           *)

\* Images are positive numbers.
LEMMA ImagesNat == Images \subseteq Nat /\ 0 \notin Images
<1>1. Cardinality(Images) \in Nat
  BY ExchangeConstants, FS_CardinalityType
<1> QED BY <1>1, ExchangeConstants

\* What the variables hold, image by image.
LEMMA Typed ==
  ASSUME TypeInv
  PROVE  /\ \A i \in Images :
              /\ img[i] \in PortType /\ events[i] \in Slots(EventType)
              /\ replies[i] \in Slots(ReplyType) /\ manifest[i] \in Nat
              /\ owner.quiescent[i] \in Nat
         /\ host.generation \in Nat /\ host.gate \in BOOLEAN
BY DEF TypeInv, TypeOk, HostType, OwnerType

\* Slots hold at most one message.
LEMMA SlotHead ==
  ASSUME NEW T, NEW s \in Slots(T), s # <<>>
  PROVE  Head(s) \in T
BY DEF Slots

\* An empty slot, and a slot with one message.
LEMMA SlotOf ==
  ASSUME NEW T PROVE <<>> \in Slots(T) /\ \A x \in T : <<x>> \in Slots(T) /\ Head(<<x>>) = x
BY DEF Slots

\* A step that leaves the pause under way alone.
HostKept ==
  /\ host' \in HostType /\ host'.generation = host.generation
  /\ host'.paused = host.paused /\ host'.claimed = host.claimed
  /\ host.gate => host'.gate

\* A step that rewrites one image's port and slots.
LEMMA OneImage ==
  ASSUME ExchangeInv, NEW i \in Images, NEW p \in PortType,
         NEW e \in Slots(EventType), NEW r \in Slots(ReplyType),
         img' = [img EXCEPT ![i] = p], events' = [events EXCEPT ![i] = e],
         replies' = [replies EXCEPT ![i] = r],
         UNCHANGED <<ready, owner, manifest>>, excused' \in BOOLEAN,
         HostKept,
         p.entries > 0 => img[i].entries > 0 \/ ~host.paused,
         p.failed => p.turn = "none", p.up = "new" => img[i].up = "new",
         ~p.failed /\ ~host'.gate =>
           HealthyInv(i, p, e, r, owner, host.generation, manifest[i])
  PROVE  ExchangeInv'
<1>0. /\ host' \in HostType /\ host'.generation = host.generation
      /\ host'.paused = host.paused /\ host'.claimed = host.claimed
      /\ host.gate => host'.gate
  BY DEF HostKept
<1>1. TypeInv'
  BY <1>0 DEF ExchangeInv, TypeInv, TypeOk
<1>2. img'[i] = p /\ events'[i] = e /\ replies'[i] = r
      /\ \A j \in Images \ {i} : /\ img'[j] = img[j] /\ events'[j] = events[j]
                                 /\ replies'[j] = replies[j]
  BY DEF ExchangeInv, TypeInv, TypeOk
<1>3. OwnerInv'
  BY <1>0 DEF ExchangeInv, OwnerInv, OwnerOk
<1>4. PauseInv'
  <2>1. owner.phase \in Pausing /\ Entered' => Entered
    BY <1>0, <1>2 DEF Entered, ExchangeInv, PauseInv, PauseOk
  <2>2. \A j \in Images : img'[j].up = "new" => img[j].up = "new"
    BY <1>2
  <2>3. \A k \in DOMAIN ready : ready[k].op \notin Operations => ready[k].image \in Images
    BY DEF ExchangeInv, TypeInv, TypeOk, ReadyType
  <2> QED BY <1>0, <2>1, <2>2, <2>3 DEF ExchangeInv, PauseInv, PauseOk, Pausing, Phases
<1>5. QuiescentInv'
  BY <1>0 DEF ExchangeInv, QuiescentInv, QuiescentOk, Gen, Waiting
<1>6. PortInv'
  <2> SUFFICES ASSUME NEW j \in Images
               PROVE  /\ img'[j].failed => img'[j].turn = "none"
                      /\ Healthy(j)' => HealthyInv(j, img'[j], events'[j], replies'[j],
                                                   owner', Gen', manifest'[j])
    BY DEF PortInv, PortsOk
  <2>1. CASE j = i
    BY <1>0, <1>2, <2>1 DEF Healthy, Gen
  <2>2. CASE j # i
    BY <1>0, <1>2, <2>2 DEF ExchangeInv, PortInv, PortsOk, Healthy, Gen
  <2> QED BY <2>1, <2>2
<1> QED BY <1>1, <1>3, <1>4, <1>5, <1>6 DEF ExchangeInv

\* The same, with both slots left alone.
LEMMA OnePort ==
  ASSUME ExchangeInv, NEW i \in Images, NEW p \in PortType,
         img' = [img EXCEPT ![i] = p],
         UNCHANGED <<events, replies, ready, owner, manifest>>, excused' \in BOOLEAN,
         HostKept,
         p.entries > 0 => img[i].entries > 0 \/ ~host.paused,
         p.failed => p.turn = "none", p.up = "new" => img[i].up = "new",
         ~p.failed /\ ~host'.gate =>
           HealthyInv(i, p, events[i], replies[i], owner, host.generation, manifest[i])
  PROVE  ExchangeInv'
<1>1. /\ events[i] \in Slots(EventType) /\ replies[i] \in Slots(ReplyType)
      /\ events' = [events EXCEPT ![i] = events[i]]
      /\ replies' = [replies EXCEPT ![i] = replies[i]]
  BY DEF ExchangeInv, TypeInv, TypeOk
<1> QED BY <1>1, OneImage

\* What the invariant says of one image.
LEMMA PortOf ==
  ASSUME ExchangeInv, NEW i \in Images
  PROVE  /\ img[i] \in PortType /\ host \in HostType
         /\ img[i].failed => img[i].turn = "none"
         /\ ~img[i].failed /\ ~host.gate =>
              HealthyInv(i, img[i], events[i], replies[i], owner, host.generation,
                         manifest[i])
         /\ owner.phase \in Pausing => host.paused /\ host.generation > 0
         /\ i # 0 /\ host.generation \in Nat
         /\ events[i] \in Slots(EventType) /\ replies[i] \in Slots(ReplyType)
         /\ excused \in BOOLEAN
BY Typed, ImagesNat DEF ExchangeInv, TypeInv, TypeOk, PortInv, PortsOk, PauseInv, PauseOk,
   Healthy, Gen

\* A new image has an empty port.
LEMMA AttachInv ==
  ASSUME ExchangeInv, NEW i \in Images, Attach(i) PROVE ExchangeInv'
<1>1. PICK p : p = [img[i] EXCEPT !.up = "on"]
  OBVIOUS
<1>2. /\ img' = [img EXCEPT ![i] = p] /\ img[i].up = "new" /\ ~host.paused
      /\ UNCHANGED <<events, replies, ready, owner, manifest, excused, host>>
  BY <1>1 DEF Attach
<1>3. /\ p \in PortType /\ p.up = "on" /\ p.entries = img[i].entries
      /\ p.failed = img[i].failed /\ p.turn = img[i].turn
      /\ p.compacted = img[i].compacted /\ p.through = img[i].through
      /\ p.active = img[i].active /\ p.gen = img[i].gen
      /\ p.durable = img[i].durable /\ p.issued = img[i].issued
  BY <1>1, PortOf DEF PortType
<1>4. owner.phase \notin Pausing
  BY <1>2, PortOf
<1>5. ~Asked(i, owner)
  BY <1>4 DEF Asked, Pausing, Phases
<1>6. ~p.failed /\ ~host.gate =>
        HealthyInv(i, p, events[i], replies[i], owner, host.generation, manifest[i])
  BY <1>2, <1>3, <1>5, PortOf DEF HealthyInv, OnInv
<1>7. HostKept
  BY <1>2, PortOf DEF HostKept
<1> QED BY <1>2, <1>3, <1>6, <1>7, PortOf, OnePort

\* A mutation enters while admission is open, and is issued when it leaves.
LEMMA EnterInv ==
  ASSUME ExchangeInv, NEW i \in Images, Enter(i) PROVE ExchangeInv'
<1>1. PICK p : p = [img[i] EXCEPT !.entries = 1]
  OBVIOUS
<1>2. /\ img' = [img EXCEPT ![i] = p] /\ ~host.paused /\ img[i].up = "on"
      /\ host' = [host EXCEPT !.left.mutate = @ - 1]
      /\ UNCHANGED <<events, replies, ready, owner, manifest, excused>>
  BY <1>1 DEF Enter
<1>3. /\ p \in PortType /\ p.up = img[i].up
      /\ p.failed = img[i].failed /\ p.turn = img[i].turn
      /\ p.compacted = img[i].compacted /\ p.through = img[i].through
      /\ p.active = img[i].active /\ p.gen = img[i].gen /\ p.acked = img[i].acked
      /\ p.durable = img[i].durable /\ p.issued = img[i].issued
  BY <1>1, PortOf DEF PortType
<1>4. owner.phase \notin Pausing
  BY <1>2, PortOf
<1>5. owner.event # "quiesce" /\ (~host.gate => owner.quiescent[i] = 0)
  BY <1>4 DEF ExchangeInv, OwnerInv, OwnerOk, QuiescentInv, QuiescentOk, Pausing, Phases
<1>6. ~p.failed /\ ~host.gate =>
        HealthyInv(i, p, events[i], replies[i], owner, host.generation, manifest[i])
  BY <1>2, <1>3, <1>5, PortOf DEF HealthyInv, OnInv
<1>7. HostKept /\ host'.gate = host.gate
  BY <1>2, PortOf DEF HostType, HostKept
<1> QED BY <1>2, <1>3, <1>6, <1>7, PortOf, OnePort

\* A mutation is answered and its entry dropped.
LEMMA LeaveInv ==
  ASSUME ExchangeInv, NEW i \in Images, Leave(i) PROVE ExchangeInv'
<1>1. PICK p : p = [img[i] EXCEPT !.entries = 0,
                      !.issued = IF Healthy(i) THEN img[i].issued + 1 ELSE img[i].issued]
  OBVIOUS
<1>2. /\ img' = [img EXCEPT ![i] = p] /\ img[i].up = "on" /\ img[i].entries = 1
      /\ UNCHANGED <<events, replies, ready, owner, manifest, excused, host>>
  BY <1>1 DEF Leave
<1>n. PICK n \in Nat : n = IF Healthy(i) THEN img[i].issued + 1 ELSE img[i].issued
  BY PortOf DEF PortType
<1>m. p = [img[i] EXCEPT !.entries = 0, !.issued = n]
  BY <1>1, <1>n
<1>3. /\ p \in PortType /\ p.up = img[i].up /\ p.entries = 0
      /\ p.failed = img[i].failed /\ p.turn = img[i].turn
      /\ p.compacted = img[i].compacted /\ p.through = img[i].through
      /\ p.active = img[i].active /\ p.gen = img[i].gen /\ p.acked = img[i].acked
      /\ p.durable = img[i].durable
  BY ZenonT(60), <1>m, PortOf DEF PortType
<1>4. ~p.failed /\ ~host.gate =>
        HealthyInv(i, p, events[i], replies[i], owner, host.generation, manifest[i])
  BY <1>2, <1>3, PortOf DEF HealthyInv, OnInv
<1>5. HostKept
  BY <1>2, PortOf DEF HostKept
<1>6. /\ p.entries > 0 => img[i].entries > 0 \/ ~host.paused
      /\ p.failed => p.turn = "none"
      /\ p.up = "new" => img[i].up = "new"
      /\ excused' \in BOOLEAN
  BY <1>2, <1>3, PortOf
<1>7. host'.gate = host.gate
  BY <1>2
<1> QED BY <1>2, <1>3, <1>4, <1>5, <1>6, <1>7, OnePort

\* A fence makes all that was issued durable.
LEMMA FenceInv ==
  ASSUME ExchangeInv, NEW i \in Images, Fence(i) PROVE ExchangeInv'
<1>1. PICK p : p = [img[i] EXCEPT !.durable = img[i].issued]
  OBVIOUS
<1>2. /\ img' = [img EXCEPT ![i] = p]
      /\ UNCHANGED <<events, replies, ready, owner, manifest, excused, host>>
  BY <1>1 DEF Fence
<1>3. /\ p \in PortType /\ p.up = img[i].up /\ p.entries = img[i].entries
      /\ p.failed = img[i].failed /\ p.turn = img[i].turn
      /\ p.compacted = img[i].compacted /\ p.through = img[i].through
      /\ p.active = img[i].active /\ p.gen = img[i].gen /\ p.acked = img[i].acked
      /\ p.durable = p.issued
  BY <1>1, PortOf DEF PortType
<1>4. ~p.failed /\ ~host.gate =>
        HealthyInv(i, p, events[i], replies[i], owner, host.generation, manifest[i])
  BY <1>2, <1>3, PortOf DEF HealthyInv, OnInv
<1>5. HostKept
  BY <1>2, PortOf DEF HostKept
<1> QED BY <1>2, <1>3, <1>4, <1>5, PortOf, OnePort

\* What HealthyInv reads of a port, but for its turn.
SameButTurn(p, q) ==
  /\ p.up = q.up /\ p.failed = q.failed /\ p.entries = q.entries
  /\ p.issued = q.issued /\ p.durable = q.durable /\ p.compacted = q.compacted
  /\ p.through = q.through /\ p.active = q.active /\ p.gen = q.gen
  /\ p.acked = q.acked

\* A turn is chosen only while admission is open, so by no image that has
\* acknowledged a pause.
LEMMA TurnPort ==
  ASSUME ExchangeInv, NEW i \in Images, NEW p \in PortType,
         ~img[i].failed, img[i].turn = "none",
         img' = [img EXCEPT ![i] = p], SameButTurn(p, img[i]),
         UNCHANGED <<events, replies, ready, owner, manifest, excused>>,
         HostKept, host'.gate = host.gate, p.turn = "none" \/ ~host.paused
  PROVE  ExchangeInv'
<1>1. p.turn # "none" => owner.phase \notin Pausing
  BY PortOf
<1>2. p.turn # "none" => ~Asked(i, owner) /\ owner.event # "quiesce"
  BY <1>1 DEF Asked, Pausing, Phases, ExchangeInv, OwnerInv, OwnerOk
<1>3. CASE host.gate
  <2>1. /\ p.entries > 0 => img[i].entries > 0 \/ ~host.paused
        /\ p.failed => p.turn = "none"
        /\ p.up = "new" => img[i].up = "new"
        /\ excused' \in BOOLEAN
    BY PortOf DEF SameButTurn
  <2> QED BY <1>3, <2>1, OnePort
<1>4. CASE ~host.gate
  <2>1. HealthyInv(i, img[i], events[i], replies[i], owner, host.generation, manifest[i])
    BY <1>4, PortOf
  <2>2. HealthyInv(i, p, events[i], replies[i], owner, host.generation, manifest[i])
    BY <1>2, <2>1 DEF HealthyInv, OnInv, SameButTurn
  <2>3. /\ p.entries > 0 => img[i].entries > 0 \/ ~host.paused
        /\ p.failed => p.turn = "none"
        /\ p.up = "new" => img[i].up = "new"
        /\ excused' \in BOOLEAN
    BY PortOf DEF SameButTurn
  <2> QED BY <2>2, <2>3, OnePort
<1> QED BY <1>3, <1>4

\* A rollover asked for is given up.
LEMMA CancelRolloverInv ==
  ASSUME ExchangeInv, NEW i \in Images, CancelRollover(i) PROVE ExchangeInv'
<1>1. PICK p : p = [img[i] EXCEPT !.rotation = "none"]
  OBVIOUS
<1>2. /\ img' = [img EXCEPT ![i] = p] /\ ~img[i].failed /\ img[i].turn = "none"
      /\ UNCHANGED <<events, replies, ready, owner, manifest, excused, host>>
  BY <1>1 DEF CancelRollover, Running, Healthy
<1>3. p \in PortType /\ p.turn = img[i].turn /\ SameButTurn(p, img[i])
  BY <1>1, PortOf DEF PortType, SameButTurn
<1>4. HostKept /\ host'.gate = host.gate
  BY <1>2, PortOf DEF HostKept
<1> QED BY <1>2, <1>3, <1>4, TurnPort

\* The image decides which turn to ask for.
LEMMA ChooseTurnInv ==
  ASSUME ExchangeInv, NEW i \in Images, ChooseTurn(i) PROVE ExchangeInv'
<1>0. PICK turn \in {"rotate", "compact"} : img' = [img EXCEPT ![i].turn = turn]
  BY DEF ChooseTurn
<1>1. PICK p : p = [img[i] EXCEPT !.turn = turn]
  OBVIOUS
<1>2. /\ img' = [img EXCEPT ![i] = p] /\ ~img[i].failed /\ img[i].turn = "none"
      /\ UNCHANGED <<events, replies, ready, owner, manifest, excused, host>>
      /\ ~host.paused
  BY <1>0, <1>1 DEF ChooseTurn, Running, Healthy
<1>3. p \in PortType /\ SameButTurn(p, img[i])
  BY <1>1, PortOf DEF PortType, SameButTurn
<1>4. HostKept /\ host'.gate = host.gate
  BY <1>2, PortOf DEF HostKept
<1> QED BY <1>2, <1>3, <1>4, TurnPort

\* A rotation is asked for.
LEMMA RotateInv ==
  ASSUME ExchangeInv, NEW i \in Images, NEW kind \in {"roll", "fresh"}, Rotate(i, kind)
  PROVE  ExchangeInv'
<1>0. PICK turn \in {"none", "rotate"} :
        turn = IF img[i].active \/ host.paused THEN "none" ELSE "rotate"
  OBVIOUS
<1>1. PICK p : p = [img[i] EXCEPT !.rotation = kind, !.turn = turn]
  OBVIOUS
<1>2. /\ img' = [img EXCEPT ![i] = p] /\ ~img[i].failed /\ img[i].turn = "none"
      /\ UNCHANGED <<events, replies, ready, owner, manifest, excused>>
      /\ host' = [host EXCEPT !.left.rotate = @ - 1]
  BY <1>0, <1>1 DEF Rotate, Running, Healthy
<1>3. p \in PortType /\ SameButTurn(p, img[i]) /\ p.turn = turn
  BY ZenonT(60), <1>1, PortOf DEF PortType, SameButTurn
<1>4. HostKept /\ host'.gate = host.gate
  BY <1>2, PortOf DEF HostKept, HostType
<1>5. p.turn = "none" \/ ~host.paused
  BY <1>0, <1>3
<1> QED BY <1>2, <1>3, <1>4, <1>5, TurnPort

\* A port that leaves, and one that fails.
Ups == {"new", "on", "stopped", "detached", "off"}
\* What is left of a port once its reactor leaves.
LEMMA LeftPort ==
  ASSUME NEW p \in PortType, NEW up \in Ups
  PROVE  /\ Left(p, up) \in PortType /\ Left(p, up).up = up
         /\ Left(p, up).failed = p.failed /\ Left(p, up).entries = 0
         /\ Left(p, up).issued = p.issued /\ Left(p, up).durable = p.durable
         /\ Left(p, up).compacted = p.compacted /\ Left(p, up).turn = "none"
         /\ Left(p, up).gen = 0
BY ZenonT(60) DEF Left, PortType, Ups

\* The same for a reactor that fails.
LEMMA FailedPort ==
  ASSUME NEW p \in PortType, NEW up \in Ups
  PROVE  /\ Failed(p, up) \in PortType /\ Failed(p, up).up = up
         /\ Failed(p, up).failed /\ Failed(p, up).entries = 0
         /\ Failed(p, up).turn = "none"
<1>1. PICK q : q = Left(p, up)
  OBVIOUS
<1>2. q \in PortType /\ q.up = up /\ q.entries = 0 /\ q.turn = "none"
  BY <1>1, LeftPort
<1>3. PICK f : f = [q EXCEPT !.failed = TRUE]
  OBVIOUS
<1>4. f \in PortType /\ f.up = up /\ f.failed /\ f.entries = 0 /\ f.turn = "none"
  BY <1>2, <1>3 DEF PortType
<1>5. Failed(p, up) = f
  BY <1>1, <1>3 DEF Failed
<1> QED BY <1>4, <1>5

\* A reactor that fails says no more than that.
LEMMA AbortInv ==
  ASSUME ExchangeInv, NEW i \in Images, NEW up \in {"on", "stopped"},
         NEW e \in Slots(EventType), Abort(i, up),
         events' = [events EXCEPT ![i] = e], UNCHANGED <<ready, owner, manifest>>,
         excused' \in BOOLEAN, HostKept
  PROVE  ExchangeInv'
<1>1. PICK p : p = Failed(img[i], up)
  OBVIOUS
<1>2. p \in PortType /\ p.up = up /\ p.failed /\ p.entries = 0 /\ p.turn = "none"
  BY <1>1, PortOf, FailedPort DEF Ups
<1>3. img' = [img EXCEPT ![i] = p]
  BY <1>1 DEF Abort
<1>4. PICK r \in Slots(ReplyType) : replies' = [replies EXCEPT ![i] = r]
  <2>1. Reply("failed", "abort", 0) \in ReplyType
    BY DEF Reply, ReplyType, ReplyOps
  <2>2. <<Reply("failed", "abort", 0)>> \in Slots(ReplyType)
    BY <2>1, SlotOf
  <2>3. replies = [replies EXCEPT ![i] = replies[i]] /\ replies[i] \in Slots(ReplyType)
    BY DEF ExchangeInv, TypeInv, TypeOk
  <2> QED BY <2>2, <2>3 DEF Abort
<1>5. /\ p.entries > 0 => img[i].entries > 0 \/ ~host.paused
      /\ p.failed => p.turn = "none"
      /\ p.up = "new" => img[i].up = "new"
  BY <1>2
<1> QED BY <1>2, <1>3, <1>4, <1>5, OneImage

\* A granted turn runs out of time, and with it the host.
LEMMA OverdueInv ==
  ASSUME ExchangeInv, NEW i \in Images, Overdue(i) PROVE ExchangeInv'
<1>1. /\ Abort(i, "stopped") /\ host' = [host EXCEPT !.gate = TRUE] /\ excused' = TRUE
      /\ UNCHANGED <<events, ready, owner, manifest>>
  BY DEF Overdue
<1>2. HostKept
  BY <1>1, PortOf DEF HostKept, HostType
<1>3. events' = [events EXCEPT ![i] = events[i]] /\ events[i] \in Slots(EventType)
  BY <1>1, PortOf DEF ExchangeInv, TypeInv, TypeOk
<1> QED BY <1>1, <1>2, <1>3, AbortInv

\* The image's own IO fails.
LEMMA FailImageInv ==
  ASSUME ExchangeInv, NEW i \in Images, FailImage(i) PROVE ExchangeInv'
<1>1. /\ Abort(i, "on") /\ excused' = TRUE
      /\ UNCHANGED <<events, ready, host, owner, manifest>>
  BY DEF FailImage
<1>2. HostKept
  BY <1>1, PortOf DEF HostKept
<1>3. events' = [events EXCEPT ![i] = events[i]] /\ events[i] \in Slots(EventType)
  BY <1>1, PortOf DEF ExchangeInv, TypeInv, TypeOk
<1> QED BY <1>1, <1>2, <1>3, AbortInv

\* A healthy image leaves only between turns: nothing it selected is unpublished.
LEMMA ExitInv ==
  ASSUME ExchangeInv, NEW i \in Images, Exit(i) PROVE ExchangeInv'
<1>1. PICK p : p = Left(img[i], "stopped")
  OBVIOUS
<1>2. /\ img' = [img EXCEPT ![i] = p] /\ img[i].up = "on"
      /\ ~img[i].failed /\ ~host.gate => ~img[i].active /\ img[i].entries = 0
      /\ UNCHANGED <<events, replies, ready, owner, manifest, host>>
  BY <1>1 DEF Exit, Healthy
<1>3. /\ p \in PortType /\ p.up = "stopped" /\ p.failed = img[i].failed
      /\ p.entries = 0 /\ p.issued = img[i].issued /\ p.durable = img[i].durable
      /\ p.compacted = img[i].compacted /\ p.turn = "none"
  BY <1>1, PortOf, LeftPort DEF Ups
<1>4. ~p.failed /\ ~host.gate =>
        HealthyInv(i, p, events[i], replies[i], owner, host.generation, manifest[i])
  BY <1>2, <1>3, PortOf DEF HealthyInv
<1>5. HostKept /\ host'.gate = host.gate
  BY <1>2, PortOf DEF HostKept
<1>6. excused' \in BOOLEAN
  BY PortOf DEF Exit
<1>7. /\ p.entries > 0 => img[i].entries > 0 \/ ~host.paused
      /\ p.failed => p.turn = "none"
      /\ p.up = "new" => img[i].up = "new"
  BY <1>3
<1> QED BY <1>2, <1>3, <1>4, <1>5, <1>6, <1>7, OnePort

\* The channels close once the image is detached.
LEMMA DisconnectInv ==
  ASSUME ExchangeInv, NEW i \in Images, Disconnect(i) PROVE ExchangeInv'
<1>0. /\ HostKept /\ host'.gate = host.gate /\ excused' \in BOOLEAN
      /\ UNCHANGED <<replies, ready, host, owner, manifest>>
  BY PortOf DEF HostKept, Disconnect
<1>1. CASE img[i].up = "stopped" /\ img' = [img EXCEPT ![i].up = "detached"]
             /\ UNCHANGED events
  <2>1. PICK p : p = [img[i] EXCEPT !.up = "detached"]
    OBVIOUS
  <2>2. img' = [img EXCEPT ![i] = p]
    BY <1>1, <2>1
  <2>3. /\ p \in PortType /\ p.up = "detached" /\ p.entries = img[i].entries
        /\ p.failed = img[i].failed /\ p.turn = img[i].turn
        /\ p.compacted = img[i].compacted
        /\ p.durable = img[i].durable /\ p.issued = img[i].issued
    BY <2>1, PortOf DEF PortType
  <2>4. ~p.failed /\ ~host.gate =>
          HealthyInv(i, p, events[i], replies[i], owner, host.generation, manifest[i])
    BY <1>1, <2>3, PortOf DEF HealthyInv
  <2>5. /\ p.entries > 0 => img[i].entries > 0 \/ ~host.paused
        /\ p.failed => p.turn = "none"
        /\ p.up = "new" => img[i].up = "new"
    BY <2>3, PortOf
  <2> QED BY <1>0, <1>1, <2>2, <2>3, <2>4, <2>5, OnePort
<1>2. CASE img[i].up = "detached" /\ img' = [img EXCEPT ![i].up = "off"]
             /\ events' = [events EXCEPT ![i] = Closed]
  <2>1. PICK p : p = [img[i] EXCEPT !.up = "off"]
    OBVIOUS
  <2>2. img' = [img EXCEPT ![i] = p]
    BY <1>2, <2>1
  <2>3. /\ p \in PortType /\ p.up = "off" /\ p.entries = img[i].entries
        /\ p.failed = img[i].failed /\ p.turn = img[i].turn
        /\ p.compacted = img[i].compacted
        /\ p.durable = img[i].durable /\ p.issued = img[i].issued
    BY <2>1, PortOf DEF PortType
  <2>c. Closed \in Slots(EventType) /\ Head(Closed).op = "closed"
    <3>1. Event("closed", 0) \in EventType /\ Event("closed", 0).op = "closed"
      BY DEF Event, EventType, EventOps
    <3> QED BY <3>1, SlotOf DEF Closed
  <2>4. ~p.failed /\ ~host.gate =>
          HealthyInv(i, p, Closed, replies[i], owner, host.generation, manifest[i])
    BY <1>2, <2>3, <2>c, PortOf DEF HealthyInv
  <2>5. /\ p.entries > 0 => img[i].entries > 0 \/ ~host.paused
        /\ p.failed => p.turn = "none"
        /\ p.up = "new" => img[i].up = "new"
    BY <2>3, PortOf
  <2>6. replies' = [replies EXCEPT ![i] = replies[i]] /\ replies[i] \in Slots(ReplyType)
    BY <1>0, PortOf DEF ExchangeInv, TypeInv, TypeOk
  <2> QED BY <1>0, <1>2, <2>2, <2>3, <2>c, <2>4, <2>5, <2>6, OneImage
<1> QED BY <1>1, <1>2 DEF Disconnect

\* An image answers a pause once, with its log fenced and nothing owned.
LEMMA AcknowledgeInv ==
  ASSUME ExchangeInv, NEW i \in Images, Acknowledge(i) PROVE ExchangeInv'
<1>0. /\ HostKept /\ host'.gate = host.gate /\ excused' \in BOOLEAN
      /\ UNCHANGED <<events, ready, host, owner, manifest>>
      /\ events' = [events EXCEPT ![i] = events[i]] /\ events[i] \in Slots(EventType)
  BY PortOf DEF HostKept, Acknowledge, ExchangeInv, TypeInv, TypeOk
<1>1. CASE replies[i] # <<>>
  <2>1. Abort(i, "stopped")
    BY <1>1 DEF Acknowledge
  <2> QED BY <1>0, <2>1, AbortInv
<1>2. CASE replies[i] = <<>>
  <2>1. PICK p : p = [img[i] EXCEPT !.acked = TRUE]
    OBVIOUS
  <2>2. PICK r : r = <<Reply("quiesced", "quiesce", img[i].gen)>>
    OBVIOUS
  <2>3. /\ img' = [img EXCEPT ![i] = p] /\ replies' = [replies EXCEPT ![i] = r]
        /\ img[i].gen # 0 /\ ~img[i].acked /\ img[i].entries = 0
        /\ img[i].durable = img[i].issued /\ img[i].turn = "none"
        /\ img[i].up = "on" /\ ~img[i].failed /\ ~host.gate
    BY <1>2, <2>1, <2>2 DEF Acknowledge, Running, Healthy
  <2>4. /\ p \in PortType /\ p.up = img[i].up /\ p.entries = img[i].entries
        /\ p.failed = img[i].failed /\ p.turn = img[i].turn
        /\ p.compacted = img[i].compacted /\ p.through = img[i].through
        /\ p.active = img[i].active /\ p.gen = img[i].gen /\ p.acked
        /\ p.durable = img[i].durable /\ p.issued = img[i].issued
    BY ZenonT(60), <2>1, PortOf DEF PortType
  <2>5. /\ r \in Slots(ReplyType) /\ Head(r).op = "quiesced"
        /\ Head(r).for = "quiesce"
    <3>1. Reply("quiesced", "quiesce", img[i].gen) \in ReplyType
      BY PortOf DEF Reply, ReplyType, ReplyOps, EventOps, PortType
    <3> QED BY <2>2, <3>1, SlotOf DEF Reply
  <2>6. HealthyInv(i, img[i], events[i], replies[i], owner, host.generation, manifest[i])
        /\ OnInv(i, img[i], events[i], replies[i], owner, host.generation)
    BY <2>3, PortOf DEF HealthyInv
  <2>7. owner.image = i /\ owner.event = "quiesce" /\ events[i] = <<>>
        /\ img[i].gen = host.generation
    BY <2>3, <2>6 DEF OnInv
  <2>8. owner.phase = "quiesce" /\ owner.quiescent[i] = 0 /\ ~Asked(i, owner)
    BY <2>3, <2>7, ImagesNat DEF ExchangeInv, OwnerInv, OwnerOk, QuiescentInv,
       QuiescentOk, Waiting, Asked
  <2>9. OnInv(i, p, events[i], r, owner, host.generation)
    BY <2>3, <2>4, <2>5, <2>7, <2>8 DEF OnInv
  <2>10. HealthyInv(i, p, events[i], r, owner, host.generation, manifest[i])
    BY <2>3, <2>4, <2>5, <2>6, <2>7, <2>8, <2>9 DEF HealthyInv
  <2>11. /\ p.entries > 0 => img[i].entries > 0 \/ ~host.paused
         /\ p.failed => p.turn = "none"
         /\ p.up = "new" => img[i].up = "new"
    BY <2>3, <2>4
  <2> QED BY <1>0, <2>3, <2>4, <2>5, <2>10, <2>11, OneImage
<1> QED BY <1>1, <1>2

\* A turn that was chosen before a pause is queued after it, but never once its
\* image has acknowledged the pause.
LEMMA QueueInv ==
  ASSUME ExchangeInv, NEW i \in Images, Queue(i) PROVE ExchangeInv'
<1>0. /\ HostKept /\ host'.gate = host.gate /\ excused' \in BOOLEAN
      /\ UNCHANGED <<events, host, owner, manifest, excused>>
      /\ events' = [events EXCEPT ![i] = events[i]] /\ events[i] \in Slots(EventType)
      /\ img[i].up = "on" /\ img[i].turn # "none"
  BY PortOf DEF HostKept, Queue, ExchangeInv, TypeInv, TypeOk
<1>1. CASE ~(Len(ready) < Room)
  <2>1. Abort(i, "stopped") /\ UNCHANGED ready
    BY <1>1 DEF Queue
  <2> QED BY <1>0, <2>1, AbortInv
<1>2. CASE Len(ready) < Room
  <2>1. PICK p : p = [img[i] EXCEPT !.turn = "none", !.active = TRUE, !.granted = FALSE]
    OBVIOUS
  <2>2. PICK t : t = [op |-> img[i].turn, image |-> i]
    OBVIOUS
  <2>3. img' = [img EXCEPT ![i] = p] /\ ready' = Append(ready, t) /\ replies' = replies
    BY <1>2, <2>1, <2>2 DEF Queue
  <2>4. /\ p \in PortType /\ p.up = img[i].up /\ p.entries = img[i].entries
        /\ p.failed = img[i].failed /\ p.turn = "none"
        /\ p.compacted = img[i].compacted /\ p.through = img[i].through
        /\ p.active /\ p.gen = img[i].gen /\ p.acked = img[i].acked
        /\ p.durable = img[i].durable /\ p.issued = img[i].issued
    BY ZenonT(60), <2>1, PortOf DEF PortType
  <2>5. t \in ReadyType /\ t.op \notin Operations /\ t.image = i
    BY <1>0, <2>2, PortOf DEF PortType, ReadyType, Operations
  <2>6. ~img[i].failed
    BY <1>0, PortOf
  <2>7. ~host.gate => owner.phase \notin {"settle", "operate", "compact"}
    <3>1. ~host.gate => ~Asked(i, owner)
      BY <1>0, <2>6, PortOf DEF HealthyInv, OnInv
    <3> QED BY <3>1 DEF Asked
  <2>8. img'[i] = p /\ \A j \in Images \ {i} : img'[j] = img[j]
    BY <2>3 DEF ExchangeInv, TypeInv, TypeOk
  <2>9. TypeInv'
    BY <1>0, <2>3, <2>4, <2>5 DEF ExchangeInv, TypeInv, TypeOk
  <2>10. OwnerInv'
    BY <1>0 DEF ExchangeInv, OwnerInv, OwnerOk
  <2>11. PauseInv'
    <3>1. Entered' = Entered
      BY <2>4, <2>8 DEF Entered
    <3>2. \A j \in Images : img'[j].up = "new" => img[j].up = "new"
      BY <2>4, <2>8
    <3>3. \A k \in DOMAIN ready : ready[k].op \notin Operations => ready[k].image \in Images
      BY DEF ExchangeInv, TypeInv, TypeOk, ReadyType
    <3>4. /\ DOMAIN ready' = 1 .. Len(ready) + 1 /\ DOMAIN ready = 1 .. Len(ready)
          /\ Len(ready) \in Nat
          /\ \A k \in DOMAIN ready : ready'[k] = ready[k] /\ k # Len(ready) + 1
          /\ ready'[Len(ready) + 1] = t
      BY <2>3, <2>5 DEF ExchangeInv, TypeInv, TypeOk
    <3>5. PauseInv
      BY DEF ExchangeInv
    <3>6. \A k \in DOMAIN ready' : ready'[k].op \in Operations => k \in DOMAIN ready
      BY <2>5, <3>4
    <3>7. \A k \in DOMAIN ready' : ready'[k].op \in Operations =>
            /\ host.claimed /\ owner.phase \notin Pausing
            /\ ready'[k].op = "snapshot" => ready'[k].image \in Images
            /\ \A l \in DOMAIN ready' : ready'[l].op \in Operations => l = k
      BY <3>4, <3>5, <3>6 DEF PauseInv, PauseOk
    <3>8. \A k \in DOMAIN ready' :
            ready'[k].op \notin Operations => img'[ready'[k].image].up # "new"
      BY <1>0, <2>4, <2>5, <2>8, <3>2, <3>3, <3>4, <3>5 DEF PauseInv, PauseOk
    <3>9. /\ owner.phase \in Pausing =>
               host.paused /\ host.claimed /\ host.generation > 0
                 /\ owner.operation \in Operations
          /\ owner.phase \in {"quiesce", "settle", "operate", "compact", "resume"} =>
               ~Entered'
      BY <3>1, <3>5 DEF PauseInv, PauseOk
    <3> QED BY <1>0, <2>7, <3>7, <3>8, <3>9 DEF PauseInv, PauseOk
  <2>12. QuiescentInv'
    BY <1>0 DEF ExchangeInv, QuiescentInv, QuiescentOk, Gen, Waiting
  <2>13. ~host.gate =>
           HealthyInv(i, p, events[i], replies[i], owner, host.generation, manifest[i])
    BY <1>0, <2>4, <2>6, PortOf DEF HealthyInv, OnInv
  <2>14. PortInv'
    <3> SUFFICES ASSUME NEW j \in Images
                 PROVE  /\ img'[j].failed => img'[j].turn = "none"
                        /\ Healthy(j)' => HealthyInv(j, img'[j], events'[j], replies'[j],
                                                     owner', Gen', manifest'[j])
      BY DEF PortInv, PortsOk
    <3>1. CASE j = i
      BY <1>0, <2>3, <2>4, <2>8, <2>13, <3>1 DEF Healthy, Gen
    <3>2. CASE j # i
      BY <1>0, <2>3, <2>8, <3>2 DEF ExchangeInv, PortInv, PortsOk, Healthy, Gen
    <3> QED BY <3>1, <3>2
  <2> QED BY <2>9, <2>10, <2>11, <2>12, <2>14 DEF ExchangeInv
<1> QED BY <1>1, <1>2

\* One administrative credit: a request is queued while no other is.
LEMMA RequestInv ==
  ASSUME ExchangeInv, NEW op \in Operations, NEW i \in Images \cup {0},
         op = "snapshot" => i \in Images, Request(op, i)
  PROVE  ExchangeInv'
<1>1. PICK t : t = [op |-> op, image |-> i]
  OBVIOUS
<1>2. /\ ~host.claimed /\ host' = [host EXCEPT !.claimed = TRUE, !.left.admin = @ - 1]
      /\ ready' = Append(ready, t)
      /\ UNCHANGED <<img, events, replies, owner, manifest, excused>>
  BY <1>1 DEF Request
<1>3. /\ host' \in HostType /\ host'.generation = host.generation
      /\ host'.paused = host.paused /\ host'.claimed /\ host'.gate = host.gate
  <2>1. host \in HostType
    BY DEF ExchangeInv, TypeInv, TypeOk
  <2>2. PICK l : l = [host.left EXCEPT !.admin = host.left.admin - 1]
    OBVIOUS
  <2>3. l \in [admin : Int, mutate : Int, rotate : Int]
    BY <2>1, <2>2 DEF HostType
  <2>4. host' = [host EXCEPT !.claimed = TRUE, !.left = l]
    BY <1>2, <2>1, <2>2 DEF HostType
  <2> QED BY <2>1, <2>3, <2>4 DEF HostType
<1>4. t \in ReadyType /\ t.op = op /\ t.image = i
  BY <1>1 DEF ReadyType
<1>5. TypeInv'
  BY <1>2, <1>3, <1>4 DEF ExchangeInv, TypeInv, TypeOk
<1>6. PauseInv /\ owner.phase \notin Pausing
  BY <1>2 DEF ExchangeInv, PauseInv, PauseOk
<1>7. PauseInv'
  <2>1. /\ DOMAIN ready' = 1 .. Len(ready) + 1 /\ DOMAIN ready = 1 .. Len(ready)
        /\ Len(ready) \in Nat
        /\ \A k \in DOMAIN ready : ready'[k] = ready[k] /\ k # Len(ready) + 1
        /\ ready'[Len(ready) + 1] = t
    BY <1>2, <1>4 DEF ExchangeInv, TypeInv, TypeOk
  <2>2. \A k \in DOMAIN ready : ready[k].op \notin Operations
    BY <1>2, <1>6 DEF PauseInv, PauseOk
  <2>3. \A k \in DOMAIN ready' : ready'[k].op \in Operations => k = Len(ready) + 1
    BY <2>1, <2>2
  <2>4. \A k \in DOMAIN ready' : ready'[k].op \in Operations =>
          /\ ready'[k].op = "snapshot" => ready'[k].image \in Images
          /\ \A l \in DOMAIN ready' : ready'[l].op \in Operations => l = k
    BY <1>4, <2>1, <2>3
  <2>5. \A k \in DOMAIN ready' :
          ready'[k].op \notin Operations => img[ready'[k].image].up # "new"
    BY <1>4, <1>6, <2>1 DEF PauseInv, PauseOk
  <2>6. owner.phase \notin {"quiesce", "settle", "operate", "compact", "resume"}
    BY <1>6 DEF Pausing, Phases
  <2> QED BY <1>2, <1>3, <1>6, <2>4, <2>5, <2>6 DEF PauseInv, PauseOk
<1>8. OwnerInv'
  BY <1>2 DEF ExchangeInv, OwnerInv, OwnerOk
<1>9. QuiescentInv'
  BY <1>2, <1>3 DEF ExchangeInv, QuiescentInv, QuiescentOk, Gen, Waiting
<1>10. PortInv'
  BY <1>2, <1>3 DEF ExchangeInv, PortInv, PortsOk, Healthy, Gen
<1> QED BY <1>5, <1>7, <1>8, <1>9, <1>10 DEF ExchangeInv

\* Free space falls below the reserve.
LEMMA PressureInv ==
  ASSUME ExchangeInv, Pressure PROVE ExchangeInv'
<1>1. /\ host' = [host EXCEPT !.pressured = TRUE]
      /\ UNCHANGED <<img, events, replies, ready, owner, manifest, excused>>
  BY DEF Pressure
<1>2. HostKept /\ host'.gate = host.gate
  BY <1>1 DEF HostKept, HostType, ExchangeInv, TypeInv, TypeOk
<1>3. PICK i : i \in Images
  BY ExchangeConstants
<1>4. /\ img' = [img EXCEPT ![i] = img[i]] /\ img[i] \in PortType
      /\ img[i].failed => img[i].turn = "none"
      /\ excused' \in BOOLEAN
  BY <1>1, PortOf, <1>3 DEF ExchangeInv, TypeInv, TypeOk
<1>5. ~img[i].failed /\ ~host'.gate =>
        HealthyInv(i, img[i], events[i], replies[i], owner, host.generation, manifest[i])
  BY <1>2, <1>3, PortOf
<1>6. img[i].entries > 0 => img[i].entries > 0 \/ ~host.paused
  OBVIOUS
<1> QED BY <1>1, <1>2, <1>3, <1>4, <1>5, <1>6, OnePort

\* A host that shuts down closes the images that were never attached.
LEMMA ShutdownInv ==
  ASSUME ExchangeInv, Shutdown PROVE ExchangeInv'
<1>1. /\ host' = [host EXCEPT !.closed = TRUE]
      /\ img' = [i \in Images |-> [img[i] EXCEPT !.up = IF @ = "new" THEN "off" ELSE @]]
      /\ events' = [i \in Images |-> IF img[i].up = "new" THEN Closed ELSE events[i]]
      /\ UNCHANGED <<replies, ready, owner, manifest, excused>>
  BY DEF Shutdown
<1>2. HostKept /\ host'.gate = host.gate
  BY <1>1 DEF HostKept, HostType, ExchangeInv, TypeInv, TypeOk
<1>3. Closed \in Slots(EventType) /\ Head(Closed).op = "closed"
  <2>1. Event("closed", 0) \in EventType /\ Event("closed", 0).op = "closed"
    BY DEF Event, EventType, EventOps
  <2> QED BY <2>1, SlotOf DEF Closed
<1>4. ASSUME NEW j \in Images
      PROVE  /\ img'[j] \in PortType /\ img'[j].up # "new"
             /\ img'[j].entries = img[j].entries
             /\ events'[j] \in Slots(EventType)
             /\ img'[j].failed => img'[j].turn = "none"
             /\ Healthy(j)' => HealthyInv(j, img'[j], events'[j], replies'[j],
                                          owner', Gen', manifest'[j])
  <2>1. CASE img[j].up # "new"
    <3>1. img'[j] = [img[j] EXCEPT !.up = img[j].up] /\ events'[j] = events[j]
      BY <1>1, <2>1
    <3>2. img'[j] = img[j]
      BY <3>1, PortOf DEF PortType
    <3> QED BY <1>1, <1>2, <2>1, <3>1, <3>2, PortOf DEF HostKept, Healthy, Gen
  <2>2. CASE img[j].up = "new"
    <3>1. img'[j] = [img[j] EXCEPT !.up = "off"] /\ events'[j] = Closed
      BY <1>1, <2>2
    <3>2. PICK p : p = img'[j]
      OBVIOUS
    <3>3. /\ p \in PortType /\ p.up = "off" /\ p.entries = img[j].entries
          /\ p.failed = img[j].failed /\ p.turn = img[j].turn
          /\ p.compacted = img[j].compacted
          /\ p.durable = img[j].durable /\ p.issued = img[j].issued
      BY <3>1, <3>2, PortOf DEF PortType
    <3>4. ~p.failed /\ ~host.gate =>
            HealthyInv(j, p, Closed, replies[j], owner, host.generation, manifest[j])
      BY <1>3, <2>2, <3>3, PortOf DEF HealthyInv
    <3> QED BY <1>1, <1>2, <1>3, <3>1, <3>2, <3>3, <3>4, PortOf DEF HostKept, Healthy, Gen
  <2> QED BY <2>1, <2>2
<1>5. TypeInv'
  <2>1. img' \in [Images -> PortType] /\ events' \in [Images -> Slots(EventType)]
    BY <1>1, <1>4
  <2> QED BY <1>1, <1>2, <2>1 DEF ExchangeInv, TypeInv, TypeOk, HostKept
<1>6. OwnerInv'
  BY <1>1 DEF ExchangeInv, OwnerInv, OwnerOk
<1>7. PauseInv'
  <2>1. Entered' = Entered
    BY <1>4 DEF Entered
  <2>2. \A k \in DOMAIN ready : ready[k].op \notin Operations => ready[k].image \in Images
    BY DEF ExchangeInv, TypeInv, TypeOk, ReadyType
  <2> QED BY <1>1, <1>2, <1>4, <2>1, <2>2 DEF ExchangeInv, PauseInv, PauseOk, HostKept
<1>8. QuiescentInv'
  BY <1>1, <1>2 DEF ExchangeInv, QuiescentInv, QuiescentOk, Gen, Waiting, HostKept
<1>9. PortInv'
  BY <1>4 DEF PortInv, PortsOk
<1> QED BY <1>5, <1>6, <1>7, <1>8, <1>9 DEF ExchangeInv

\* What an answer w to the event e makes of the port p.
Answered(p, e, q, w) ==
  /\ q \in PortType /\ q.up = p.up /\ q.failed = p.failed /\ q.entries = p.entries
  /\ q.issued = p.issued /\ q.durable = p.durable /\ q.turn = p.turn
  /\ w \in (ReplyOps \ {"quiesced", "failed"}) \cup {"later"}
  /\ \/ w # "later" /\ q.gen = p.gen /\ q.acked = p.acked
     \/ e.op = "quiesce" /\ w = "later" /\ q.gen = e.gen /\ ~q.acked
     \/ e.op = "resume" /\ w = "applied" /\ q.gen = 0
  /\ w = "selected" => e.op \in {"select", "compactq"} /\ q.active
  /\ q.compacted = IF e.op = "published" THEN p.through ELSE p.compacted
  /\ e.op = "deferred" => w = "applied"
  /\ w # "later" => w \in Expected[e.op]
  /\ w \in {"selected", "reclaim", "rotation"} => q.active \/ q.active = p.active
  /\ w # "later" /\ e.op \in {"quiesce", "resume"} => q.active = p.active

\* The replies each event expects.
LEMMA ExpectedIs ==
  /\ Expected["select"] = {"selected", "none", "reclaim"}
  /\ Expected["compactq"] = {"selected", "none"}
  /\ Expected["published"] = {"reclaim"} /\ Expected["reclaimed"] = {"applied"}
  /\ Expected["allocate"] = {"rotation", "deferred"} /\ Expected["rotated"] = {"applied"}
  /\ Expected["deferred"] = {"applied"} /\ Expected["quiesce"] = {"quiesced", "deferred"}
  /\ Expected["resume"] = {"applied"}
BY DEF Expected

\* Every answer of Port::poll leaves the port as Answered says.
LEMMA AnswersAnswered ==
  ASSUME NEW p \in PortType, NEW e \in EventType, NEW a \in Answers(p, e), a[2] # "error"
  PROVE  Answered(p, e, a[1], a[2])
<1> DEFINE A(q, w) == Answered(p, e, q, w)
<1>0. e.op \in EventOps /\ e.gen \in Nat
  BY DEF EventType
<1>d. /\ Deferred(p) \in PortType /\ Deferred(p).up = p.up
      /\ Deferred(p).failed = p.failed /\ Deferred(p).entries = p.entries
      /\ Deferred(p).issued = p.issued /\ Deferred(p).durable = p.durable
      /\ Deferred(p).turn = p.turn /\ Deferred(p).gen = p.gen
      /\ Deferred(p).acked = p.acked /\ Deferred(p).compacted = p.compacted
      /\ Deferred(p).through = p.through /\ Deferred(p).rotation = p.rotation
      /\ Deferred(p).rotating = p.rotating
  BY DEF Deferred, PortType
<1>1. CASE e.op = "quiesce"
  <2>1. PICK n \in {"none", "roll", "fresh"} :
          n = IF p.rotating THEN p.rotation ELSE "none"
    BY DEF PortType
  <2>2. PICK d \in PortType : d = Deferred(p)
    BY <1>d
  <2>3. PICK q : q = [d EXCEPT !.gen = e.gen, !.acked = FALSE, !.rotation = n]
    OBVIOUS
  <2>4. a = <<p, "deferred">> \/ a = <<q, "later">>
    BY <1>1, <1>d, <2>1, <2>2, <2>3 DEF Answers
  <2>5. /\ q \in PortType /\ q.up = p.up /\ q.failed = p.failed /\ q.entries = p.entries
        /\ q.issued = p.issued /\ q.durable = p.durable /\ q.turn = p.turn
        /\ q.gen = e.gen /\ ~q.acked /\ q.compacted = p.compacted
    BY ZenonT(60), <1>0, <1>d, <2>2, <2>3 DEF PortType
  <2> QED BY <1>1, <2>4, <2>5, ExpectedIs DEF Answered, ReplyOps
<1>2. CASE e.op = "resume"
  <2>1. a = <<[p EXCEPT !.gen = 0, !.acked = FALSE], "applied">>
    BY <1>2 DEF Answers
  <2> QED BY <1>2, <2>1, ExpectedIs DEF Answered, ReplyOps, PortType
<1>3. CASE e.op = "compactq"
  <2>1. PICK q : q = [p EXCEPT !.active = TRUE, !.granted = TRUE, !.through = p.durable]
    OBVIOUS
  <2>2. a = <<q, "selected">> \/ a = <<Deferred(p), "none">>
    BY <1>3, <2>1 DEF Answers
  <2>3. /\ q \in PortType /\ q.up = p.up /\ q.failed = p.failed /\ q.entries = p.entries
        /\ q.issued = p.issued /\ q.durable = p.durable /\ q.turn = p.turn
        /\ q.gen = p.gen /\ q.acked = p.acked /\ q.compacted = p.compacted /\ q.active
    BY <2>1 DEF PortType
  <2> QED BY <1>3, <1>d, <2>2, <2>3, ExpectedIs DEF Answered, ReplyOps
<1>4. CASE e.op = "allocate"
  <2>1. PICK q : q = [p EXCEPT !.rotating = TRUE, !.active = TRUE, !.granted = TRUE]
    OBVIOUS
  <2>2. a = <<Deferred(p), "deferred">> \/ a = <<q, "rotation">>
    BY <1>4, <2>1 DEF Answers
  <2>3. /\ q \in PortType /\ q.up = p.up /\ q.failed = p.failed /\ q.entries = p.entries
        /\ q.issued = p.issued /\ q.durable = p.durable /\ q.turn = p.turn
        /\ q.gen = p.gen /\ q.acked = p.acked /\ q.compacted = p.compacted /\ q.active
    BY <2>1 DEF PortType
  <2> QED BY <1>4, <1>d, <2>2, <2>3, ExpectedIs DEF Answered, ReplyOps
<1>5. CASE e.op = "rotated"
  <2>1. a = <<[p EXCEPT !.rotating = FALSE, !.rotation = "none", !.active = FALSE], "applied">>
    BY <1>5 DEF Answers
  <2> QED BY <1>5, <2>1, ExpectedIs DEF Answered, ReplyOps, PortType
<1>6. CASE e.op = "deferred"
  <2>1. PICK d \in PortType : d = Deferred(p)
    BY <1>d
  <2>2. a = <<[d EXCEPT !.rotating = FALSE], "applied">>
    BY <1>6, <2>1 DEF Answers
  <2>3. PICK q : q = [d EXCEPT !.rotating = FALSE]
    OBVIOUS
  <2>4. /\ q \in PortType /\ q.up = p.up /\ q.failed = p.failed /\ q.entries = p.entries
        /\ q.issued = p.issued /\ q.durable = p.durable /\ q.turn = p.turn
        /\ q.gen = p.gen /\ q.acked = p.acked /\ q.compacted = p.compacted
    BY ZenonT(60), <1>d, <2>1, <2>3 DEF PortType
  <2> QED BY <1>6, <2>2, <2>3, <2>4, ExpectedIs DEF Answered, ReplyOps
<1>7. CASE e.op = "select"
  <2>1. PICK q : q = [p EXCEPT !.active = TRUE, !.granted = TRUE, !.through = p.durable]
    OBVIOUS
  <2>2. PICK u : u = [p EXCEPT !.active = TRUE, !.granted = TRUE]
    OBVIOUS
  <2>3. PICK v : v = [p EXCEPT !.active = FALSE, !.granted = TRUE]
    OBVIOUS
  <2>4. a = <<q, "selected">> \/ a = <<u, "reclaim">> \/ a = <<v, "none">>
    BY <1>7, <2>1, <2>2, <2>3 DEF Answers
  <2>5. /\ q \in PortType /\ q.up = p.up /\ q.failed = p.failed /\ q.entries = p.entries
        /\ q.issued = p.issued /\ q.durable = p.durable /\ q.turn = p.turn
        /\ q.gen = p.gen /\ q.acked = p.acked /\ q.compacted = p.compacted /\ q.active
    BY <2>1 DEF PortType
  <2>6. /\ u \in PortType /\ u.up = p.up /\ u.failed = p.failed /\ u.entries = p.entries
        /\ u.issued = p.issued /\ u.durable = p.durable /\ u.turn = p.turn
        /\ u.gen = p.gen /\ u.acked = p.acked /\ u.compacted = p.compacted /\ u.active
    BY <2>2 DEF PortType
  <2>7. /\ v \in PortType /\ v.up = p.up /\ v.failed = p.failed /\ v.entries = p.entries
        /\ v.issued = p.issued /\ v.durable = p.durable /\ v.turn = p.turn
        /\ v.gen = p.gen /\ v.acked = p.acked /\ v.compacted = p.compacted
    BY <2>3 DEF PortType
  <2> QED BY <1>7, <2>4, <2>5, <2>6, <2>7, ExpectedIs DEF Answered, ReplyOps
<1>8. CASE e.op = "published"
  <2>1. a = <<[p EXCEPT !.compacted = p.through], "reclaim">>
    BY <1>8 DEF Answers
  <2> QED BY <1>8, <2>1, ExpectedIs DEF Answered, ReplyOps, PortType
<1>9. CASE e.op = "reclaimed"
  <2>0. PICK b \in BOOLEAN : b = (p.entries > 0)
    <3>1. (p.entries > 0) \in BOOLEAN
      BY DEF PortType
    <3> QED BY <3>1, Zenon
  <2>1. a = <<[p EXCEPT !.retry = b, !.active = FALSE], "applied">>
    BY <1>9, <2>0 DEF Answers
  <2> QED BY <1>9, <2>1, ExpectedIs DEF Answered, ReplyOps, PortType
<1>10. CASE e.op \in {"failed", "closed"}
  BY <1>10 DEF Answers
<1> QED BY <1>0, <1>1, <1>2, <1>3, <1>4, <1>5, <1>6, <1>7, <1>8, <1>9, <1>10 DEF EventOps

\* An event is answered in its own slot, and only a turn that was given back
\* leaves a reply nobody awaits.
LEMMA PollInv ==
  ASSUME ExchangeInv, NEW i \in Images, Poll(i) PROVE ExchangeInv'
<1>0. /\ HostKept /\ host'.gate = host.gate /\ excused' \in BOOLEAN
      /\ events' = [events EXCEPT ![i] = <<>>] /\ <<>> \in Slots(EventType)
      /\ UNCHANGED <<ready, host, owner, manifest>>
      /\ img[i].up = "on" /\ ~img[i].failed /\ img[i].turn = "none" /\ events[i] # <<>>
  BY PortOf, SlotOf DEF HostKept, Poll
<1>1. CASE host.gate
  <2>1. img' = [img EXCEPT ![i] = Failed(img[i], "stopped")]
        /\ replies' = IF replies[i] = <<>>
             THEN [replies EXCEPT ![i] = <<Reply("failed", "abort", 0)>>]
             ELSE replies
    BY <1>1 DEF Poll
  <2>2. PICK p : p = Failed(img[i], "stopped")
    OBVIOUS
  <2>3. p \in PortType /\ p.up = "stopped" /\ p.failed /\ p.entries = 0 /\ p.turn = "none"
    BY <2>2, PortOf, FailedPort DEF Ups
  <2>4. PICK r \in Slots(ReplyType) : replies' = [replies EXCEPT ![i] = r]
    <3>1. Reply("failed", "abort", 0) \in ReplyType
      BY DEF Reply, ReplyType, ReplyOps
    <3>2. <<Reply("failed", "abort", 0)>> \in Slots(ReplyType)
      BY <3>1, SlotOf
    <3>3. replies = [replies EXCEPT ![i] = replies[i]] /\ replies[i] \in Slots(ReplyType)
      BY DEF ExchangeInv, TypeInv, TypeOk
    <3> QED BY <2>1, <3>2, <3>3
  <2>5. /\ p.entries > 0 => img[i].entries > 0 \/ ~host.paused
        /\ p.failed => p.turn = "none"
        /\ p.up = "new" => img[i].up = "new"
    BY <2>3
  <2> QED BY <1>0, <2>1, <2>2, <2>3, <2>4, <2>5, OneImage
<1>2. CASE Abort(i, "stopped")
  BY <1>0, <1>2, AbortInv
<1>3. CASE ~host.gate /\ ~Abort(i, "stopped")
  <2>1. PICK e : e = Head(events[i])
    OBVIOUS
  <2>2. PICK a \in Answers(img[i], e) :
          /\ a[2] # "error" /\ (a[2] = "later" \/ replies[i] = <<>>)
          /\ img' = [img EXCEPT ![i] = a[1]]
          /\ replies' = IF a[2] = "later" THEN replies
               ELSE [replies EXCEPT ![i] = <<Reply(a[2], e.op, 0)>>]
    BY <1>3, <2>1 DEF Poll
  <2>3. e \in EventType /\ e.op \in EventOps /\ e.gen \in Nat
    BY <1>0, <2>1, PortOf, SlotHead DEF EventType
  <2>4. PICK p, q, w : p = img[i] /\ q = a[1] /\ w = a[2]
    OBVIOUS
  <2>5. Answered(p, e, q, w) /\ p \in PortType
    BY <2>2, <2>3, <2>4, PortOf, AnswersAnswered
  <2>6. PICK r : r = IF w = "later" THEN replies[i] ELSE <<Reply(w, e.op, 0)>>
    OBVIOUS
  <2>7. replies' = [replies EXCEPT ![i] = r]
    BY <2>2, <2>4, <2>6 DEF ExchangeInv, TypeInv, TypeOk
  <2>8. w # "later" => Reply(w, e.op, 0) \in ReplyType
    BY <2>3, <2>5 DEF Answered, Reply, ReplyType
  <2>9. /\ r \in Slots(ReplyType)
        /\ w # "later" => Head(r).op = w /\ Head(r).for = e.op /\ replies[i] = <<>>
        /\ w = "later" => r = replies[i]
    <3>1. CASE w = "later"
      BY <2>6, <3>1, PortOf
    <3>2. CASE w # "later"
      <4>1. r \in Slots(ReplyType) /\ Head(r) = Reply(w, e.op, 0)
        BY <2>6, <2>8, <3>2, SlotOf
      <4> QED BY <2>2, <2>4, <3>2, <4>1 DEF Reply
    <3> QED BY <3>1, <3>2
  <2>10. HealthyInv(i, p, events[i], replies[i], owner, host.generation, manifest[i])
         /\ OnInv(i, p, events[i], replies[i], owner, host.generation)
    BY <1>0, <1>3, <2>4, PortOf DEF HealthyInv
  <2>11. e.op = "quiesce" => owner.quiescent[i] = 0 /\ ~Asked(i, owner)
    <3> SUFFICES ASSUME e.op = "quiesce"
                 PROVE  owner.quiescent[i] = 0 /\ ~Asked(i, owner)
      OBVIOUS
    <3>1. owner.image = i /\ owner.event = "quiesce"
      BY <1>0, <2>1, <2>10 DEF OnInv
    <3> QED BY <1>3, <3>1, ImagesNat DEF ExchangeInv, OwnerInv, OwnerOk, QuiescentInv,
               QuiescentOk, Waiting, Asked
  <2>12. e.op = "resume" => ~Asked(i, owner)
    <3> SUFFICES ASSUME e.op = "resume" PROVE ~Asked(i, owner)
      OBVIOUS
    <3>1. owner.image = i /\ owner.event = "resume"
      BY <1>0, <2>1, <2>10 DEF OnInv
    <3> QED BY <3>1 DEF ExchangeInv, OwnerInv, OwnerOk, Asked
  <2>13. /\ \/ owner.image = i /\ e.op = owner.event /\ e.gen = host.generation
            \/ owner.image # i /\ e.op = "deferred"
         /\ p.gen = 0 \/ p.acked
         /\ replies[i] # <<>> =>
              /\ Head(replies[i]).op = "applied" /\ Head(replies[i]).for = "deferred"
              /\ owner.image = i =>
                   owner.event \in {"select", "allocate", "compactq", "quiesce", "deferred"}
         /\ owner.quiescent[i] # 0 => owner.image = i /\ replies[i] = <<>>
         /\ Asked(i, owner) => /\ owner.quiescent[i] = host.generation
                               /\ p.gen = host.generation /\ p.acked /\ p.turn = "none"
    BY <1>0, <2>1, <2>10 DEF OnInv
  <2>14. OnInv(i, q, <<>>, r, owner, host.generation)
    BY <1>0, <2>4, <2>5, <2>9, <2>11, <2>12, <2>13 DEF OnInv, Answered, ReplyOps
  <2>15. HealthyInv(i, q, <<>>, r, owner, host.generation, manifest[i])
    <3>1. manifest[i] = q.compacted
      BY <1>0, <2>1, <2>5, <2>10 DEF HealthyInv, Answered
    <3>2. q.up = "on" /\ q.entries = p.entries /\ q.durable = p.durable /\ q.issued = p.issued
      BY <1>0, <2>4, <2>5 DEF Answered
    <3>3. r # <<>> => Head(r).op # "quiesced"
      BY <2>5, <2>9, <2>13 DEF Answered, ReplyOps
    <3>4. r # <<>> /\ Head(r).op = "selected" =>
            q.active /\ Head(r).for \in {"select", "compactq"}
      BY <2>5, <2>9, <2>13 DEF Answered
    <3>5. owner.quiescent[i] # 0 => p.entries = 0 /\ p.durable = p.issued
      BY <2>10 DEF HealthyInv
    <3> QED BY <2>14, <3>1, <3>2, <3>3, <3>4, <3>5 DEF HealthyInv
  <2>16. /\ q \in PortType
         /\ q.entries > 0 => img[i].entries > 0 \/ ~host.paused
         /\ q.failed => q.turn = "none"
         /\ q.up = "new" => img[i].up = "new"
         /\ img' = [img EXCEPT ![i] = q]
    BY <1>0, <2>2, <2>4, <2>5 DEF Answered
  <2> QED BY <1>0, <2>7, <2>9, <2>15, <2>16, OneImage
<1> QED BY <1>1, <1>2, <1>3

-----------------------------------------------------------------------------
(* The owner between two exchanges: what it may do with an error, what it  *)
(* may send and what it may simply go on with.                             *)

GaveUp(o) == [o EXCEPT !.phase = "unnotify", !.event = "none"]

\* The owner o awaits nothing; image i may have let it down.
MayFail(rs, rd, o, ms, i) ==
  /\ TypeOk(rs, rd, o, ms) /\ OwnerOk(o) /\ PauseOk(rd, o) /\ QuiescentOk(o)
  /\ o.event = "none" /\ (o.phase = "turn" => i \in Images)
  /\ \A j \in Images : img[j].failed => img[j].turn = "none"
  /\ \A j \in Images : Healthy(j) =>
       /\ j # i => HealthyInv(j, img[j], events[j], rs[j], o, Gen, ms[j])
       /\ o.phase \in {"drain", "settle"} \/ (o.phase = "quiesce" /\ ~o.uncertain) =>
            HealthyInv(j, img[j], events[j], rs[j], GaveUp(o), Gen, ms[j])

\* A port the owner neither speaks to nor stops listening to.
LEMMA OtherPort ==
  ASSUME NEW i, NEW p, NEW e, NEW r, NEW o, NEW o2, NEW g, NEW m,
         HealthyInv(i, p, e, r, o, g, m), o.image # i, o2.image # i,
         Asked(i, o2) => Asked(i, o),
         \/ o2.quiescent[i] = o.quiescent[i]
         \/ o2.quiescent[i] = 0 /\ ~Asked(i, o2)
  PROVE  HealthyInv(i, p, e, r, o2, g, m)
<1>1. ASSUME OnInv(i, p, e, r, o, g) PROVE OnInv(i, p, e, r, o2, g)
  BY <1>1 DEF OnInv
<1> QED BY <1>1 DEF HealthyInv

\* The owner back at its queue.
LEMMA IdleOwner ==
  ASSUME NEW o \in OwnerType
  PROVE  /\ Idle(o) \in OwnerType /\ Idle(o).phase = "idle" /\ Idle(o).event = "none"
         /\ Idle(o).image = 0 /\ Idle(o).operation = "none"
         /\ Idle(o).quiescent = o.quiescent /\ ~Idle(o).checked
BY DEF Idle, OwnerType, Phases

\* The host after pause.fail.
LEMMA FailedHost ==
  ASSUME host \in HostType
  PROVE  HostFailed \in HostType /\ HostFailed.gate
BY DEF HostFailed, HostType

\* The state a step of the owner leaves when nothing else moves.
LEMMA MoveInv ==
  ASSUME NEW rs, NEW rd, NEW o, NEW ms, ExchangeAt(rs, rd, o, ms),
         owner' = o, replies' = rs, ready' = rd, manifest' = ms,
         UNCHANGED <<img, events>>, HostKept, host'.gate = host.gate,
         excused' \in BOOLEAN
  PROVE  ExchangeInv'
<1>1. TypeInv'
  BY DEF ExchangeAt, TypeInv, TypeOk, HostKept
<1>2. OwnerInv'
  BY DEF ExchangeAt, OwnerInv
<1>3. PauseInv'
  BY DEF ExchangeAt, PauseInv, PauseOk, Entered, HostKept
<1>4. QuiescentInv'
  BY DEF ExchangeAt, QuiescentInv, QuiescentOk, Gen, HostKept
<1>5. PortInv'
  BY DEF ExchangeAt, PortInv, PortsOk, Healthy, Gen, HostKept
<1> QED BY <1>1, <1>2, <1>3, <1>4, <1>5 DEF ExchangeInv

\* The host fails in the middle of a pause: nothing resumes.
LEMMA HostFailsInv ==
  ASSUME NEW rs, NEW rd, NEW o, NEW ms, NEW i, MayFail(rs, rd, o, ms, i),
         o.phase \in Pausing, owner' = Idle(o), host' = HostFailed,
         UNCHANGED <<img, events>>,
         replies' = rs, ready' = rd, manifest' = ms, excused' \in BOOLEAN
  PROVE  ExchangeInv'
<1>0. /\ TypeOk(rs, rd, o, ms) /\ PauseOk(rd, o)
      /\ o \in OwnerType /\ host \in HostType
  BY DEF MayFail, TypeOk
<1>q. PICK q : q = Idle(o)
  OBVIOUS
<1>r. /\ q \in OwnerType /\ q.phase = "idle" /\ q.event = "none"
      /\ q.image = 0 /\ q.operation = "none" /\ q.quiescent = o.quiescent
  BY <1>0, <1>q, IdleOwner
<1>1. host' \in HostType /\ host'.gate
  BY <1>0, FailedHost
<1>2. TypeInv'
  BY <1>0, <1>q, <1>r, <1>1 DEF TypeInv, TypeOk
<1>3. OwnerInv'
  BY <1>q, <1>r DEF OwnerInv, OwnerOk
<1>4. PauseInv'
  <2>1. q.phase \notin Pausing
    BY <1>r DEF Pausing, Phases
  <2>2. \A k \in DOMAIN rd : rd[k].op \notin Operations
    BY <1>0 DEF PauseOk
  <2>3. \A k \in DOMAIN rd : img[rd[k].image].up # "new"
    BY <1>0, <2>2 DEF PauseOk
  <2> QED BY <1>q, <1>r, <1>1, <2>1, <2>2, <2>3 DEF PauseInv, PauseOk
<1>5. QuiescentInv'
  BY <1>1 DEF QuiescentInv, QuiescentOk
<1>6. PortInv'
  BY <1>1 DEF PortInv, PortsOk, Healthy, MayFail
<1> QED BY <1>2, <1>3, <1>4, <1>5, <1>6 DEF ExchangeInv

\* An error: the image fails, the pause is given up, or the host fails.
LEMMA FailsInv ==
  ASSUME NEW rs, NEW rd, NEW o, NEW ms, NEW i, MayFail(rs, rd, o, ms, i),
         Fails(o, i), replies' = rs, ready' = rd, manifest' = ms, excused' \in BOOLEAN
  PROVE  ExchangeInv'
<1>0. /\ TypeOk(rs, rd, o, ms) /\ OwnerOk(o) /\ PauseOk(rd, o) /\ QuiescentOk(o)
      /\ o \in OwnerType /\ host \in HostType /\ o.event = "none" /\ o.image = 0
  BY DEF MayFail, TypeOk, OwnerOk
<1>i. \A k \in DOMAIN rd : rd[k].op \notin Operations => rd[k].image \in Images
  BY <1>0 DEF TypeOk, ReadyType
<1>q. PICK q : q = Idle(o)
  OBVIOUS
<1>r. /\ q \in OwnerType /\ q.phase = "idle" /\ q.event = "none"
      /\ q.image = 0 /\ q.operation = "none" /\ q.quiescent = o.quiescent
  BY <1>0, <1>q, IdleOwner
<1>s. OwnerOk(q)
  BY <1>r DEF OwnerOk
<1>1. CASE /\ o.phase = "turn" /\ owner' = Idle(o) /\ UNCHANGED host
           /\ img' = [img EXCEPT ![i] = Failed(img[i], img[i].up)]
           /\ events' = IF events[i] = <<>>
                          THEN [events EXCEPT ![i] = <<Event("failed", 0)>>]
                          ELSE events
  <2>0. i \in Images /\ img[i] \in PortType
    BY <1>0, <1>1 DEF MayFail, TypeOk
  <2>1. PICK p : p = Failed(img[i], img[i].up)
    OBVIOUS
  <2>2. p \in PortType /\ p.up = img[i].up /\ p.failed /\ p.entries = 0 /\ p.turn = "none"
    <3>1. img[i].up \in Ups
      BY <2>0 DEF PortType, Ups
    <3> QED BY <2>0, <2>1, <3>1, FailedPort
  <2>3. img' = [img EXCEPT ![i] = p] /\ owner' = q
    BY <1>1, <1>q, <2>1
  <2>4. /\ events' \in [Images -> Slots(EventType)]
        /\ \A j \in Images \ {i} : events'[j] = events[j]
    <3>1. Event("failed", 0) \in EventType
      BY DEF Event, EventType, EventOps
    <3>2. <<Event("failed", 0)>> \in Slots(EventType)
      BY <3>1, SlotOf
    <3> QED BY <1>0, <1>1, <2>0, <3>2 DEF TypeOk
  <2>5. img'[i] = p /\ \A j \in Images \ {i} : img'[j] = img[j]
    BY <1>0, <2>0, <2>3 DEF TypeOk
  <2>6. TypeInv'
    BY <1>0, <1>1, <1>r, <2>2, <2>3, <2>4 DEF TypeInv, TypeOk
  <2>7. OwnerInv'
    BY <1>s, <2>3 DEF OwnerInv
  <2>8. PauseInv'
    <3>1. q.phase \notin Pausing /\ o.phase \notin Pausing
      BY <1>1, <1>r DEF Pausing
    <3>2. \A j \in Images : img'[j].up = img[j].up
      BY <2>2, <2>5
    <3> QED BY <1>0, <1>1, <1>i, <1>r, <2>3, <3>1, <3>2 DEF PauseInv, PauseOk
  <2>9. QuiescentInv'
    <3>1. ~host.gate => \A j \in Images : o.quiescent[j] = 0
      BY <1>0, <1>1 DEF QuiescentOk, Pausing
    <3> QED BY <1>1, <1>r, <2>3, <3>1 DEF QuiescentInv, QuiescentOk
  <2>10. PortInv'
    <3> SUFFICES ASSUME NEW j \in Images
                 PROVE  /\ img'[j].failed => img'[j].turn = "none"
                        /\ Healthy(j)' => HealthyInv(j, img'[j], events'[j], replies'[j],
                                                     owner', Gen', manifest'[j])
      BY DEF PortInv, PortsOk
    <3>1. CASE j = i
      BY <2>2, <2>5, <3>1 DEF Healthy
    <3>2. CASE j # i
      <4>1. Healthy(j) => HealthyInv(j, img[j], events[j], rs[j], o, Gen, ms[j])
        BY <3>2 DEF MayFail
      <4>2. ~Asked(j, q)
        BY <1>r DEF Asked
      <4>3. j # 0
        BY ImagesNat
      <4>4. Healthy(j) => HealthyInv(j, img[j], events[j], rs[j], q, Gen, ms[j])
        BY <1>0, <1>r, <4>1, <4>2, <4>3, OtherPort
      <4> QED BY <1>1, <2>3, <2>4, <2>5, <3>2, <4>4 DEF MayFail, Healthy, Gen
    <3> QED BY <3>1, <3>2
  <2> QED BY <2>6, <2>7, <2>8, <2>9, <2>10 DEF ExchangeInv
<1>2. CASE /\ o.phase \in {"drain", "settle"} \/ (o.phase = "quiesce" /\ ~o.uncertain)
           /\ owner' = [o EXCEPT !.phase = "unnotify", !.event = "none"]
           /\ UNCHANGED <<img, events, host>>
  <2>1. PICK u : u = GaveUp(o)
    OBVIOUS
  <2>2. /\ u \in OwnerType /\ u.phase = "unnotify" /\ u.event = "none" /\ u.image = 0
        /\ u.operation = o.operation /\ u.target = o.target
        /\ u.quiescent = o.quiescent
    BY <1>0, <2>1 DEF GaveUp, OwnerType, Phases
  <2>3. TypeOk(rs, rd, u, ms) /\ OwnerOk(u)
    BY <1>0, <2>2 DEF TypeOk, OwnerOk
  <2>4. PauseOk(rd, u)
    BY <1>0, <1>2, <2>2 DEF PauseOk, Pausing, Phases
  <2>5. QuiescentOk(u)
    BY <1>0, <1>2, <2>2 DEF QuiescentOk, Pausing, Phases
  <2>6. PortsOk(rs, u, ms)
    <3> SUFFICES ASSUME NEW j \in Images
                 PROVE  /\ img[j].failed => img[j].turn = "none"
                        /\ Healthy(j) => HealthyInv(j, img[j], events[j], rs[j], u, Gen, ms[j])
      BY DEF PortsOk
    <3> QED BY <1>2, <2>1 DEF MayFail
  <2>7. ExchangeAt(rs, rd, u, ms)
    BY <2>3, <2>4, <2>5, <2>6 DEF ExchangeAt
  <2>8. HostKept /\ host'.gate = host.gate
    BY <1>0, <1>2 DEF HostKept
  <2> QED BY <1>2, <2>1, <2>7, <2>8, MoveInv DEF GaveUp
<1>3. CASE /\ \/ o.phase \in {"compact", "resume", "unnotify", "unresume"}
              \/ o.phase = "quiesce" /\ o.uncertain
           /\ owner' = Idle(o) /\ host' = HostFailed
           /\ UNCHANGED <<img, events>>
  <2>1. o.phase \in Pausing
    BY <1>3 DEF Pausing, Phases
  <2> QED BY <1>3, <2>1, HostFailsInv
<1> QED BY <1>1, <1>2, <1>3 DEF Fails

\* An owner that awaits nobody may fail, whatever its phase.
LEMMA AtRest ==
  ASSUME NEW rs, NEW rd, NEW o, NEW ms, NEW i, ExchangeAt(rs, rd, o, ms),
         o.event = "none", o.phase = "turn" => i \in Images
  PROVE  MayFail(rs, rd, o, ms, i)
<1>1. /\ TypeOk(rs, rd, o, ms) /\ OwnerOk(o) /\ PauseOk(rd, o) /\ QuiescentOk(o)
      /\ PortsOk(rs, o, ms) /\ o \in OwnerType /\ o.image = 0
  BY DEF ExchangeAt, TypeOk, OwnerOk
<1>2. PICK u : u = GaveUp(o)
  OBVIOUS
<1>3. u.phase = "unnotify" /\ u.image = 0 /\ u.quiescent = o.quiescent
  BY <1>1, <1>2 DEF GaveUp, OwnerType
<1>4. ASSUME NEW j \in Images, Healthy(j)
      PROVE  HealthyInv(j, img[j], events[j], rs[j], u, Gen, ms[j])
  <2>1. HealthyInv(j, img[j], events[j], rs[j], o, Gen, ms[j])
    BY <1>1, <1>4 DEF PortsOk
  <2>2. ~Asked(j, u) /\ j # 0
    BY <1>3, ImagesNat DEF Asked
  <2> QED BY <1>1, <1>3, <2>1, <2>2, OtherPort
<1> QED BY <1>1, <1>2, <1>4 DEF MayFail, PortsOk

\* The events an image may find while its reply to a turn given back is unread.
Overtaking == {"select", "allocate", "compactq", "quiesce", "deferred"}

\* The event op suits the owner's phase and the image i.
CanSend(rs, o, ms, i, op) ==
  /\ op \in EventOps \ {"failed", "closed"}
  /\ op \in {"select", "allocate", "rotated"} => o.phase = "turn"
  /\ op = "compactq" => o.phase = "compact"
  /\ op \in {"published", "reclaimed"} => o.phase \in {"turn", "compact"}
  /\ op = "quiesce" => o.phase = "quiesce" /\ o.uncertain
  /\ op = "resume" => o.phase \in {"resume", "unresume"}
  /\ op = "deferred" => o.phase \in {"turn", "compact", "drain", "settle", "unnotify"}
  /\ ~host.gate =>
       /\ o.phase = "compact" => o.quiescent[i] # 0
       /\ o.phase # "compact" /\ op = "deferred" => o.quiescent[i] = 0
       /\ o.phase = "quiesce" => o.quiescent[i] = 0 /\ i \notin o.todo
  /\ Healthy(i) /\ events[i] = <<>> =>
       /\ \E b, m :
            /\ HealthyInv(i, img[i], <<>>, rs[i], b, Gen, m)
            /\ b.image = 0 /\ b.quiescent = o.quiescent
            /\ o.phase \in {"settle", "operate", "compact"} => Asked(i, b)
            /\ op = "published" \/ m = ms[i]
       /\ img[i].up # "new"
       /\ op = "published" =>
            img[i].up = "on" /\ img[i].active /\ ms[i] = img[i].through
       /\ op \notin Overtaking /\ img[i].up = "on" => rs[i] = <<>>

\* Endpoint::exchange up to its wait.
LEMMA SendInv ==
  ASSUME NEW rs, NEW rd, NEW o, NEW ms, NEW i \in Images, NEW op,
         MayFail(rs, rd, o, ms, i), CanSend(rs, o, ms, i, op), Send(o, i, op),
         replies' = rs, ready' = rd, manifest' = ms, excused' \in BOOLEAN
  PROVE  ExchangeInv'
<1>1. CASE ~(Healthy(i) /\ events[i] = <<>>)
  BY <1>1, FailsInv DEF Send
<1>2. CASE Healthy(i) /\ events[i] = <<>>
  <2>0. /\ TypeOk(rs, rd, o, ms) /\ OwnerOk(o) /\ PauseOk(rd, o) /\ QuiescentOk(o)
        /\ o \in OwnerType /\ host \in HostType /\ o.event = "none" /\ o.image = 0
        /\ Gen \in Nat /\ i # 0
    BY ImagesNat DEF MayFail, TypeOk, OwnerOk, Gen, HostType
  <2>1. PICK u : u = [o EXCEPT !.event = op, !.image = i]
    OBVIOUS
  <2>2. PICK e : e = <<Event(op, Gen)>>
    OBVIOUS
  <2>3. events' = [events EXCEPT ![i] = e] /\ owner' = u /\ UNCHANGED <<img, host>>
    BY <1>2, <2>1, <2>2 DEF Send
  <2>4. op \in EventOps \ {"failed", "closed"} /\ op # "none"
    BY DEF CanSend, EventOps
  <2>5. /\ u \in OwnerType /\ u.phase = o.phase /\ u.event = op /\ u.image = i
        /\ u.operation = o.operation /\ u.target = o.target /\ u.todo = o.todo
        /\ u.quiescent = o.quiescent /\ u.uncertain = o.uncertain
    BY <2>0, <2>1, <2>4 DEF OwnerType
  <2>6. e \in Slots(EventType) /\ e # <<>> /\ Head(e).op = op /\ Head(e).gen = Gen
    <3>1. Event(op, Gen) \in EventType
      BY <2>0, <2>4 DEF Event, EventType
    <3>2. e \in Slots(EventType) /\ Head(e) = Event(op, Gen) /\ e # <<>>
      BY <2>2, <3>1, SlotOf
    <3> QED BY <3>2 DEF Event
  <2>7. TypeInv'
    BY <2>0, <2>3, <2>5, <2>6 DEF TypeInv, TypeOk
  <2>8. OwnerInv'
    <3>1. OwnerOk(u)
      BY <2>0, <2>4, <2>5 DEF CanSend, OwnerOk
    <3> QED BY <2>3, <3>1 DEF OwnerInv
  <2>9. PauseInv'
    BY <2>0, <2>3, <2>5 DEF PauseInv, PauseOk, Entered
  <2>10. QuiescentInv'
    BY <2>0, <2>3, <2>5 DEF QuiescentInv, QuiescentOk, Gen, CanSend
  <2>11. HealthyInv(i, img[i], e, rs[i], u, Gen, ms[i])
    <3>1. PICK b, m :
            /\ HealthyInv(i, img[i], <<>>, rs[i], b, Gen, m)
            /\ b.image = 0 /\ b.quiescent = o.quiescent
            /\ o.phase \in {"settle", "operate", "compact"} => Asked(i, b)
            /\ op = "published" \/ m = ms[i]
      BY <1>2 DEF CanSend
    <3>2. /\ img[i].up # "new"
          /\ op = "published" =>
               img[i].up = "on" /\ img[i].active /\ ms[i] = img[i].through
          /\ op \notin Overtaking /\ img[i].up = "on" => rs[i] = <<>>
      BY <1>2 DEF CanSend
    <3>3. op # "published" => ms[i] = img[i].compacted
      BY <3>1 DEF HealthyInv
    <3>4. Asked(i, u) => Asked(i, b)
      BY <2>5, <3>1 DEF Asked
    <3>5. ASSUME img[i].up = "on" PROVE OnInv(i, img[i], e, rs[i], u, Gen)
      <4>1. OnInv(i, img[i], <<>>, rs[i], b, Gen)
        BY <3>1, <3>5 DEF HealthyInv
      <4>2. /\ rs[i] # <<>> =>
                 Head(rs[i]).op = "applied" /\ Head(rs[i]).for = "deferred" /\ op \in Overtaking
            /\ img[i].gen = 0 \/ img[i].acked
            /\ o.quiescent[i] # 0 => rs[i] = <<>>
        BY <2>0, <3>1, <3>2, <3>5, <4>1 DEF OnInv
      <4> QED BY <2>5, <2>6, <3>1, <3>4, <4>1, <4>2 DEF OnInv, Overtaking
    <3> QED BY <2>5, <2>6, <3>1, <3>2, <3>3, <3>5 DEF HealthyInv
  <2>12. PortInv'
    <3> SUFFICES ASSUME NEW j \in Images
                 PROVE  /\ img'[j].failed => img'[j].turn = "none"
                        /\ Healthy(j)' => HealthyInv(j, img'[j], events'[j], replies'[j],
                                                     owner', Gen', manifest'[j])
      BY DEF PortInv, PortsOk
    <3>1. CASE j = i
      BY <2>0, <2>3, <2>11, <3>1 DEF MayFail, TypeOk, Healthy, Gen
    <3>2. CASE j # i
      <4>1. Healthy(j) => HealthyInv(j, img[j], events[j], rs[j], o, Gen, ms[j])
        BY <3>2 DEF MayFail
      <4>2. Asked(j, u) => Asked(j, o)
        BY <2>0, <2>5, ImagesNat DEF Asked
      <4>3. j # 0
        BY ImagesNat
      <4>4. Healthy(j) => HealthyInv(j, img[j], events[j], rs[j], u, Gen, ms[j])
        BY <2>0, <2>5, <3>2, <4>1, <4>2, <4>3, OtherPort
      <4>5. events'[j] = events[j]
        BY <2>0, <2>3, <3>2 DEF TypeOk
      <4> QED BY <2>3, <4>4, <4>5 DEF MayFail, Healthy, Gen
    <3> QED BY <3>1, <3>2
  <2> QED BY <2>7, <2>8, <2>9, <2>10, <2>12 DEF ExchangeInv
<1> QED BY <1>1, <1>2

\* An image that detached is passed over.
LEMMA PassInv ==
  ASSUME NEW rs, NEW rd, NEW o, NEW ms, NEW i, NEW next,
         MayFail(rs, rd, o, ms, i), Healthy(i) => ExchangeAt(rs, rd, next, ms),
         Pass(o, i, next),
         replies' = rs, ready' = rd, manifest' = ms, excused' \in BOOLEAN
  PROVE  ExchangeInv'
<1>1. CASE ~Healthy(i)
  BY <1>1, FailsInv DEF Pass
<1>2. CASE Healthy(i)
  <2>1. owner' = next /\ UNCHANGED <<img, events, host>>
    BY <1>2 DEF Pass
  <2>2. HostKept /\ host'.gate = host.gate
    BY <2>1 DEF HostKept, MayFail, TypeOk
  <2> QED BY <1>2, <2>1, <2>2, MoveInv
<1> QED BY <1>1, <1>2

\* A port as the owner goes on from o to o2, both at rest.
StillAsked(o, o2, j) ==
  /\ Asked(j, o2) /\ img[j].up = "on" => Asked(j, o) /\ o2.quiescent[j] = o.quiescent[j]
  /\ o2.quiescent[j] \in {0, o.quiescent[j]}

\* The owner o, at rest, goes on as o2 within the same pause.
LEMMA GoesOn ==
  ASSUME NEW rs, NEW rd, NEW o, NEW o2 \in OwnerType, NEW ms, ExchangeAt(rs, rd, o, ms),
         o.event = "none", o2.event = "none", o2.image = 0,
         o2.operation = "snapshot" => o2.target \in Images,
         PauseOk(rd, o2), QuiescentOk(o2),
         \A j \in Images : Healthy(j) => StillAsked(o, o2, j)
  PROVE  ExchangeAt(rs, rd, o2, ms)
<1>1. TypeOk(rs, rd, o2, ms) /\ OwnerOk(o) /\ PortsOk(rs, o, ms) /\ o.image = 0
  BY DEF ExchangeAt, TypeOk, OwnerOk
<1>2. OwnerOk(o2)
  BY DEF OwnerOk
<1>3. PortsOk(rs, o2, ms)
  <2> SUFFICES ASSUME NEW j \in Images
               PROVE  /\ img[j].failed => img[j].turn = "none"
                      /\ Healthy(j) => HealthyInv(j, img[j], events[j], rs[j], o2, Gen, ms[j])
    BY DEF PortsOk
  <2>1. j # 0
    BY ImagesNat
  <2>2. Healthy(j) => HealthyInv(j, img[j], events[j], rs[j], o, Gen, ms[j])
    BY <1>1 DEF PortsOk
  <2>3. ASSUME Healthy(j), img[j].up = "on", OnInv(j, img[j], events[j], rs[j], o, Gen)
        PROVE  OnInv(j, img[j], events[j], rs[j], o2, Gen)
    BY <1>1, <2>1, <2>3 DEF OnInv, StillAsked
  <2>4. Healthy(j) => HealthyInv(j, img[j], events[j], rs[j], o2, Gen, ms[j])
    BY <1>1, <2>1, <2>2, <2>3 DEF HealthyInv, StillAsked
  <2> QED BY <1>1, <2>4 DEF PortsOk
<1> QED BY <1>1, <1>2, <1>3 DEF ExchangeAt

\* The invariant at the variables themselves.
LEMMA InvAt ==
  ASSUME ExchangeInv PROVE ExchangeAt(replies, ready, owner, manifest)
BY DEF ExchangeInv, ExchangeAt, TypeInv, OwnerInv, PauseInv, QuiescentInv, PortInv

\* The same as GoesOn, but for the image i it is about to ask.
LEMMA GoesOnBut ==
  ASSUME NEW rs, NEW rd, NEW o, NEW o2 \in OwnerType, NEW ms, NEW i,
         ExchangeAt(rs, rd, o, ms),
         o.event = "none", o2.event = "none", o2.image = 0, o2.phase = "turn" => i \in Images,
         o2.operation = "snapshot" => o2.target \in Images,
         PauseOk(rd, o2), QuiescentOk(o2),
         o2.phase \notin {"drain", "settle"},
         \A j \in Images : Healthy(j) =>
           \/ StillAsked(o, o2, j)
           \/ j = i /\ o2.phase = "quiesce" /\ o2.uncertain
  PROVE  MayFail(rs, rd, o2, ms, i)
<1>1. /\ TypeOk(rs, rd, o2, ms) /\ OwnerOk(o) /\ PortsOk(rs, o, ms) /\ o.image = 0
  BY DEF ExchangeAt, TypeOk, OwnerOk
<1>2. OwnerOk(o2)
  BY DEF OwnerOk
<1>3. ASSUME NEW j \in Images, Healthy(j), StillAsked(o, o2, j)
      PROVE  HealthyInv(j, img[j], events[j], rs[j], o2, Gen, ms[j])
  <2>1. j # 0
    BY ImagesNat
  <2>2. HealthyInv(j, img[j], events[j], rs[j], o, Gen, ms[j])
    BY <1>1, <1>3 DEF PortsOk
  <2>3. ASSUME img[j].up = "on", OnInv(j, img[j], events[j], rs[j], o, Gen)
        PROVE  OnInv(j, img[j], events[j], rs[j], o2, Gen)
    BY <1>1, <1>3, <2>1, <2>3 DEF OnInv, StillAsked
  <2> QED BY <1>1, <1>3, <2>1, <2>2, <2>3 DEF HealthyInv, StillAsked
<1>4. PICK u : u = GaveUp(o2)
  OBVIOUS
<1>5. u.phase = "unnotify" /\ u.image = 0 /\ u.quiescent = o2.quiescent
  BY <1>4 DEF GaveUp, OwnerType
<1>6. ASSUME NEW j \in Images, Healthy(j), StillAsked(o, o2, j)
      PROVE  HealthyInv(j, img[j], events[j], rs[j], u, Gen, ms[j])
  <2>1. ~Asked(j, u) /\ j # 0
    BY <1>5, ImagesNat DEF Asked
  <2> QED BY <1>3, <1>5, <1>6, <2>1, OtherPort
<1>7. ASSUME NEW j \in Images, Healthy(j)
      PROVE  /\ j # i => HealthyInv(j, img[j], events[j], rs[j], o2, Gen, ms[j])
             /\ o2.phase = "quiesce" /\ ~o2.uncertain =>
                  HealthyInv(j, img[j], events[j], rs[j], GaveUp(o2), Gen, ms[j])
  BY <1>3, <1>4, <1>6, <1>7
<1>8. \A j \in Images : img[j].failed => img[j].turn = "none"
  BY <1>1 DEF PortsOk
<1>9. PauseOk(rd, o2) /\ QuiescentOk(o2)
  OBVIOUS
<1> QED BY <1>1, <1>2, <1>7, <1>8, <1>9 DEF MayFail

\* The first image of a set of images.
First(S) == CHOOSE k \in S : \A j \in S : k <= j
\* The first image of a non-empty set.
LEMMA FirstIn ==
  ASSUME NEW S \in SUBSET Images, S # {} PROVE First(S) \in S
<1> DEFINE R == OpToRel(<, Nat)
<1>1. IsWellFoundedOn(R, Nat)
  BY NatLessThanWellFounded
<1>2. S \in SUBSET Nat
  BY ImagesNat
<1>3. \A a, b \in Nat : <<a, b>> \in R <=> a < b
  BY DEF OpToRel
<1> HIDE DEF R
<1>4. PICK k \in S : \A j \in S : ~(<<j, k>> \in R)
  BY <1>1, <1>2, WFMin
<1>5. \A j \in S : ~(j < k)
  BY <1>2, <1>3, <1>4
<1>6. \A j \in S : k <= j
  BY <1>2, <1>5
<1> QED BY <1>6 DEF First

\* The queue without its first entry.
LEMMA ReadyTail ==
  ASSUME NEW rd \in Seq(ReadyType), rd # <<>>, NEW o, PauseOk(rd, o)
  PROVE  /\ Tail(rd) \in Seq(ReadyType) /\ PauseOk(Tail(rd), o)
         /\ Head(rd) \in ReadyType
         /\ Head(rd).op \in Operations =>
              /\ host.claimed
              /\ Head(rd).op = "snapshot" => Head(rd).image \in Images
              /\ \A k \in DOMAIN Tail(rd) : Tail(rd)[k].op \notin Operations
         /\ Head(rd).op \notin Operations =>
              Head(rd).image \in Images /\ img[Head(rd).image].up # "new"
         /\ o.phase \in Pausing => Head(rd).op \notin Operations
<1>1. PICK t : t = Tail(rd)
  OBVIOUS
<1>2. /\ t \in Seq(ReadyType) /\ DOMAIN t = 1 .. Len(t) /\ DOMAIN rd = 1 .. Len(t) + 1
      /\ Len(t) \in Nat /\ \A k \in DOMAIN t : t[k] = rd[k + 1]
      /\ Head(rd) = rd[1] /\ Head(rd) \in ReadyType
  BY <1>1
<1>3. \A k \in DOMAIN t : k + 1 \in DOMAIN rd /\ k + 1 # 1
  BY <1>2
<1>4. 1 \in DOMAIN rd
  BY <1>2
<1>5. \A k \in DOMAIN t : t[k].op \in Operations =>
       /\ host.claimed /\ o.phase \notin Pausing
       /\ t[k].op = "snapshot" => t[k].image \in Images
       /\ \A l \in DOMAIN t : t[l].op \in Operations => l = k
  <2> SUFFICES ASSUME NEW k \in DOMAIN t, t[k].op \in Operations
               PROVE  /\ host.claimed /\ o.phase \notin Pausing
                      /\ t[k].op = "snapshot" => t[k].image \in Images
                      /\ \A l \in DOMAIN t : t[l].op \in Operations => l = k
    OBVIOUS
  <2>1. t[k] = rd[k + 1] /\ k + 1 \in DOMAIN rd
    BY <1>2, <1>3
  <2>2. /\ host.claimed /\ o.phase \notin Pausing
        /\ t[k].op = "snapshot" => t[k].image \in Images
        /\ \A l \in DOMAIN rd : rd[l].op \in Operations => l = k + 1
    BY <2>1 DEF PauseOk
  <2>3. ASSUME NEW l \in DOMAIN t, t[l].op \in Operations PROVE l = k
    <3>1. rd[l + 1].op \in Operations /\ l + 1 \in DOMAIN rd
      BY <1>2, <1>3, <2>3
    <3>2. l + 1 = k + 1
      BY <2>2, <3>1
    <3> QED BY <1>2, <3>2
  <2> QED BY <2>2, <2>3
<1>6. \A k \in DOMAIN t : t[k].op \notin Operations => img[t[k].image].up # "new"
  BY <1>2, <1>3 DEF PauseOk
<1>7. ~host.gate /\ o.phase \in {"operate", "compact"} => t = <<>>
  BY DEF PauseOk
<1>8. PauseOk(t, o)
  BY <1>5, <1>6, <1>7 DEF PauseOk
<1>9. Head(rd).op \in Operations =>
              /\ host.claimed /\ o.phase \notin Pausing
              /\ Head(rd).op = "snapshot" => Head(rd).image \in Images
              /\ \A k \in DOMAIN t : t[k].op \notin Operations
  BY <1>2, <1>3, <1>4 DEF PauseOk
<1>10. Head(rd).op \notin Operations =>
              Head(rd).image \in Images /\ img[Head(rd).image].up # "new"
  BY <1>2, <1>4 DEF PauseOk, ReadyType
<1> QED BY <1>1, <1>2, <1>8, <1>9, <1>10

-----------------------------------------------------------------------------
(* The owner's steps.                                                      *)

\* Queued turns are given back, or dropped once their image acknowledged.
LEMMA DrainReadyInv ==
  ASSUME ExchangeInv, DrainReady PROVE ExchangeInv'
<1>0. ExchangeAt(replies, ready, owner, manifest)
  BY InvAt
<1>1. /\ owner.phase \in {"drain", "settle", "unnotify"} /\ owner.event = "none"
      /\ ready # <<>> /\ ready' = Tail(ready)
      /\ UNCHANGED <<replies, manifest, excused>>
  BY DEF DrainReady, Waiting
<1>2. PICK rd : rd = Tail(ready)
  OBVIOUS
<1>3. PICK i : i = Head(ready).image
  OBVIOUS
<1>4. /\ ready \in Seq(ReadyType) /\ PauseOk(ready, owner) /\ owner.phase \in Pausing
      /\ excused' \in BOOLEAN /\ host \in HostType
  BY <1>0, <1>1 DEF ExchangeAt, TypeOk, Pausing, Phases
<1>5. i \in Images /\ rd \in Seq(ReadyType) /\ PauseOk(rd, owner)
  BY <1>1, <1>2, <1>3, <1>4, ReadyTail
<1>6. ExchangeAt(replies, rd, owner, manifest)
  BY <1>0, <1>5 DEF ExchangeAt, TypeOk
<1>7. MayFail(replies, rd, owner, manifest, i)
  BY <1>1, <1>5, <1>6, AtRest
<1>8. CASE UNCHANGED <<img, events, owner, host>>
  <2>1. HostKept /\ host'.gate = host.gate
    BY <1>4, <1>8 DEF HostKept
  <2> QED BY <1>1, <1>2, <1>4, <1>6, <1>8, <2>1, MoveInv
<1>9. CASE owner.quiescent[i] = 0 /\ Attached(i) /\ Send(owner, i, "deferred")
  <2>1. ASSUME Healthy(i), events[i] = <<>>
        PROVE  /\ HealthyInv(i, img[i], <<>>, replies[i], owner, Gen, manifest[i])
               /\ owner.image = 0
               /\ owner.phase \in {"settle", "operate", "compact"} => Asked(i, owner)
    BY <1>0, <1>1, <1>5, <2>1 DEF ExchangeAt, PortsOk, OwnerOk, Asked
  <2>2. img[i].up # "new"
    BY <1>9 DEF Attached
  <2>3. CanSend(replies, owner, manifest, i, "deferred")
    BY <1>1, <1>9, <2>1, <2>2 DEF CanSend, Overtaking, EventOps
  <2> QED BY <1>1, <1>2, <1>4, <1>5, <1>7, <1>9, <2>3, SendInv
<1>10. CASE Pass(owner, i, owner)
  BY <1>1, <1>2, <1>4, <1>6, <1>7, <1>10, PassInv
<1> QED BY <1>3, <1>8, <1>9, <1>10 DEF DrainReady, Cancel

\* The host and the queue, as the lemmas on the owner need them.
LEMMA Resting ==
  ASSUME ExchangeInv, owner.event = "none"
  PROVE  /\ ExchangeAt(replies, ready, owner, manifest) /\ owner \in OwnerType
         /\ PauseOk(ready, owner) /\ QuiescentOk(owner) /\ OwnerOk(owner)
         /\ owner.image = 0 /\ host \in HostType /\ excused \in BOOLEAN
         /\ Gen \in Nat
         /\ \A i : (owner.phase = "turn" => i \in Images) =>
              MayFail(replies, ready, owner, manifest, i)
<1>1. ExchangeAt(replies, ready, owner, manifest)
  BY InvAt
<1>2. /\ owner \in OwnerType /\ PauseOk(ready, owner) /\ QuiescentOk(owner)
      /\ OwnerOk(owner) /\ owner.image = 0 /\ host \in HostType /\ excused \in BOOLEAN
  BY <1>1 DEF ExchangeAt, TypeOk, OwnerOk
<1>3. Gen \in Nat
  BY <1>2 DEF HostType, Gen
<1> QED BY <1>1, <1>2, <1>3, AtRest

\* The owner goes on by itself.
LEMMA StepsInv ==
  ASSUME ExchangeInv, owner.event = "none", NEW o \in OwnerType,
         o.event = "none", o.image = 0,
         o.operation = owner.operation, o.target = owner.target,
         PauseOk(ready, o), QuiescentOk(o),
         \A j \in Images : Healthy(j) => StillAsked(owner, o, j),
         owner' = o, HostKept, host'.gate = host.gate, excused' \in BOOLEAN,
         UNCHANGED <<img, events, replies, ready, manifest>>
  PROVE  ExchangeInv'
<1>1. ExchangeAt(replies, ready, owner, manifest) /\ OwnerOk(owner)
  BY Resting
<1>2. o.operation = "snapshot" => o.target \in Images
  BY <1>1 DEF OwnerOk
<1>3. ExchangeAt(replies, ready, o, manifest)
  BY <1>1, <1>2, GoesOn
<1> QED BY <1>3, MoveInv

\* Guests and queue are drained: the images are quiesced next.
LEMMA DrainedInv ==
  ASSUME ExchangeInv, Drained PROVE ExchangeInv'
<1>1. PICK o : o = [owner EXCEPT !.phase = "quiesce", !.todo = Images]
  OBVIOUS
<1>2. /\ owner.phase = "drain" /\ owner.event = "none" /\ owner' = o /\ ~Entered
      /\ UNCHANGED <<img, events, replies, ready, host, manifest, excused>>
  BY <1>1 DEF Drained, At, Waiting
<1>3. /\ owner \in OwnerType /\ PauseOk(ready, owner) /\ QuiescentOk(owner)
      /\ owner.image = 0 /\ host \in HostType /\ excused \in BOOLEAN
  BY <1>2, Resting
<1>4. /\ o \in OwnerType /\ o.phase = "quiesce" /\ o.event = "none" /\ o.image = 0
      /\ o.operation = owner.operation /\ o.target = owner.target
      /\ o.todo = Images /\ o.quiescent = owner.quiescent
  BY <1>1, <1>2, <1>3 DEF OwnerType, Phases
<1>5. PauseOk(ready, o)
  BY <1>2, <1>3, <1>4 DEF PauseOk, Pausing, Phases
<1>6. QuiescentOk(o)
  BY <1>2, <1>3, <1>4 DEF QuiescentOk, Pausing, Phases
<1>7. \A j \in Images : StillAsked(owner, o, j)
  BY <1>4 DEF StillAsked, Asked
<1>8. HostKept /\ host'.gate = host.gate
  BY <1>2, <1>3 DEF HostKept
<1> QED BY <1>2, <1>3, <1>4, <1>5, <1>6, <1>7, <1>8, StepsInv

\* The guests did not leave in time.
LEMMA DrainExpiredInv ==
  ASSUME ExchangeInv, DrainExpired PROVE ExchangeInv'
<1>1. /\ owner.phase = "drain" /\ owner.event = "none" /\ Fails(owner, 0) /\ excused' = TRUE
      /\ UNCHANGED <<replies, ready, manifest>>
  BY DEF DrainExpired, At, Waiting
<1>2. MayFail(replies, ready, owner, manifest, 0)
  BY <1>1, Resting
<1> QED BY <1>1, <1>2, FailsInv

\* Late notifications are drained: the operation begins.
LEMMA BeginInv ==
  ASSUME ExchangeInv, Begin PROVE ExchangeInv'
<1>1. PICK o : o = [owner EXCEPT !.phase = "operate"]
  OBVIOUS
<1>2. /\ owner.phase = "settle" /\ owner.event = "none" /\ owner' = o /\ ready = <<>>
      /\ host' = [host EXCEPT !.running = TRUE]
      /\ UNCHANGED <<img, events, replies, ready, manifest, excused>>
  BY <1>1 DEF Begin, At, Waiting
<1>3. /\ owner \in OwnerType /\ PauseOk(ready, owner) /\ QuiescentOk(owner)
      /\ owner.image = 0 /\ host \in HostType /\ excused \in BOOLEAN
  BY <1>2, Resting
<1>4. /\ o \in OwnerType /\ o.phase = "operate" /\ o.event = "none" /\ o.image = 0
      /\ o.operation = owner.operation /\ o.target = owner.target
      /\ o.todo = owner.todo /\ o.quiescent = owner.quiescent
  BY <1>1, <1>2, <1>3 DEF OwnerType, Phases
<1>5. PauseOk(ready, o)
  BY <1>2, <1>3, <1>4 DEF PauseOk, Pausing, Phases
<1>6. QuiescentOk(o)
  BY <1>2, <1>3, <1>4 DEF QuiescentOk, Pausing, Phases
<1>7. \A j \in Images : StillAsked(owner, o, j)
  BY <1>2, <1>4 DEF StillAsked, Asked
<1>8. HostKept /\ host'.gate = host.gate
  BY <1>2, <1>3 DEF HostKept, HostType
<1> QED BY <1>2, <1>3, <1>4, <1>5, <1>6, <1>7, <1>8, StepsInv

\* Every image that acknowledged is to be resumed.
LEMMA ResumingOwner ==
  ASSUME ExchangeInv, owner.event = "none",
         owner.phase \in {"operate", "compact", "unnotify"},
         NEW phase \in {"resume", "unresume"},
         phase = "resume" => owner.phase # "unnotify",
         NEW o, o = [Resuming(owner) EXCEPT !.phase = phase]
  PROVE  /\ o \in OwnerType /\ o.event = "none" /\ o.image = 0
         /\ o.operation = owner.operation /\ o.target = owner.target
         /\ PauseOk(ready, o) /\ QuiescentOk(o)
         /\ \A j \in Images : StillAsked(owner, o, j)
<1>1. /\ owner \in OwnerType /\ PauseOk(ready, owner) /\ QuiescentOk(owner)
      /\ owner.image = 0 /\ Gen \in Nat
  BY Resting
<1>2. PICK S : S = {i \in Images : owner.quiescent[i] = Gen}
  OBVIOUS
<1>3. /\ o \in OwnerType /\ o.phase = phase /\ o.event = "none" /\ o.image = 0
      /\ o.operation = owner.operation /\ o.target = owner.target
      /\ o.todo = S /\ o.quiescent = owner.quiescent
  <2>1. S \in SUBSET Images
    BY <1>2
  <2>2. o = [owner EXCEPT !.phase = phase, !.todo = S]
    BY <1>1, <1>2 DEF Resuming, OwnerType
  <2> QED BY <1>1, <2>1, <2>2 DEF OwnerType, Phases
<1>4. PauseOk(ready, o)
  BY <1>1, <1>3 DEF PauseOk, Pausing, Phases
<1>5. QuiescentOk(o)
  <2>1. Gen > 0
    BY <1>1 DEF PauseOk, Pausing, Phases, Gen
  <2>2. ~host.gate => S = {i \in Images : owner.quiescent[i] # 0}
    BY <1>1, <1>2, <2>1 DEF QuiescentOk
  <2> QED BY <1>1, <1>3, <2>2 DEF QuiescentOk, Pausing, Phases
<1>6. \A j \in Images : StillAsked(owner, o, j)
  BY <1>3 DEF StillAsked, Asked
<1> QED BY <1>3, <1>4, <1>5, <1>6

\* The error path turns to the images it has to resume.
LEMMA UnwindInv ==
  ASSUME ExchangeInv, Unwind PROVE ExchangeInv'
<1>1. PICK o : o = [Resuming(owner) EXCEPT !.phase = "unresume"]
  OBVIOUS
<1>2. /\ owner.phase = "unnotify" /\ owner.event = "none" /\ owner' = o
      /\ UNCHANGED <<img, events, replies, ready, host, manifest, excused>>
  BY <1>1 DEF Unwind, At, Waiting
<1>3. HostKept /\ host'.gate = host.gate /\ excused' \in BOOLEAN
  BY <1>2, Resting DEF HostKept
<1> QED BY <1>1, <1>2, <1>3, ResumingOwner, StepsInv

\* The owner ends with its host.
LEMMA EndsInv ==
  ASSUME ExchangeInv, Ends PROVE ExchangeInv'
<1>1. PICK o : o = [owner EXCEPT !.phase = "ended"]
  OBVIOUS
<1>2. /\ owner.phase = "idle" /\ owner.event = "none" /\ owner' = o /\ ready = <<>>
      /\ UNCHANGED <<img, events, replies, ready, host, manifest, excused>>
  BY <1>1 DEF Ends, At, Waiting
<1>3. /\ owner \in OwnerType /\ PauseOk(ready, owner) /\ QuiescentOk(owner)
      /\ owner.image = 0 /\ host \in HostType /\ excused \in BOOLEAN
  BY <1>2, Resting
<1>4. /\ o \in OwnerType /\ o.phase = "ended" /\ o.event = "none" /\ o.image = 0
      /\ o.operation = owner.operation /\ o.target = owner.target
      /\ o.todo = owner.todo /\ o.quiescent = owner.quiescent
  BY <1>1, <1>2, <1>3 DEF OwnerType, Phases
<1>5. PauseOk(ready, o)
  BY <1>2, <1>3, <1>4 DEF PauseOk, Pausing, Phases
<1>6. QuiescentOk(o)
  BY <1>2, <1>3, <1>4 DEF QuiescentOk, Pausing, Phases
<1>7. \A j \in Images : StillAsked(owner, o, j)
  BY <1>2, <1>4 DEF StillAsked, Asked
<1>8. HostKept /\ host'.gate = host.gate
  BY <1>2, <1>3 DEF HostKept
<1> QED BY <1>2, <1>3, <1>4, <1>5, <1>6, <1>7, <1>8, StepsInv

\* An operation is over: the quiescent images are resumed.
LEMMA ResumesInv ==
  ASSUME ExchangeInv, owner.event = "none", owner.phase \in {"operate", "compact"},
         owner' = Resuming(owner), HostKept, host'.gate = host.gate,
         excused' \in BOOLEAN, UNCHANGED <<img, events, replies, ready, manifest>>
  PROVE  ExchangeInv'
<1>1. PICK o : o = [Resuming(owner) EXCEPT !.phase = "resume"]
  OBVIOUS
<1>2. owner \in OwnerType
  BY Resting
<1>3. o = Resuming(owner)
  BY <1>1, <1>2 DEF Resuming, OwnerType
<1> QED BY <1>1, <1>3, ResumingOwner, StepsInv

\* A sweep under healthy gates, then compactions of the images that acknowledged.
LEMMA CollectInv ==
  ASSUME ExchangeInv, Collect PROVE ExchangeInv'
<1>1. /\ owner.phase = "operate" /\ owner.event = "none"
      /\ UNCHANGED <<img, events, replies, ready, manifest>>
  BY DEF Collect, At, Waiting
<1>2. /\ owner \in OwnerType /\ PauseOk(ready, owner) /\ QuiescentOk(owner)
      /\ owner.image = 0 /\ host \in HostType /\ excused' \in BOOLEAN
      /\ MayFail(replies, ready, owner, manifest, 0) /\ Gen \in Nat
  <2>1. excused' \in BOOLEAN
    <3>1. CASE OperationErrs
      BY <3>1 DEF OperationErrs
    <3>2. CASE UNCHANGED excused
      BY <1>1, <3>2, Resting
    <3> QED BY <3>1, <3>2 DEF Collect
  <2> QED BY <1>1, <2>1, Resting
<1>3. CASE owner' = Idle(owner) /\ host' = HostFailed
  <2>1. owner.phase \in Pausing
    BY <1>1 DEF Pausing, Phases
  <2> QED BY <1>1, <1>2, <1>3, <2>1, HostFailsInv
<1>4. ASSUME NEW still \in {FALSE, host.pressured},
             host' = [host EXCEPT !.pressured = still],
             owner' = IF still
                  THEN [owner EXCEPT !.phase = "compact",
                          !.todo = {i \in Images : owner.quiescent[i] = Gen}]
                  ELSE Resuming(owner)
      PROVE  ExchangeInv'
  <2>1. HostKept /\ host'.gate = host.gate
    BY <1>2, <1>4 DEF HostKept, HostType
  <2>2. CASE ~still
    BY <1>1, <1>2, <1>4, <2>1, <2>2, ResumesInv
  <2>3. CASE still
    <3>1. PICK S : S = {i \in Images : owner.quiescent[i] = Gen}
      OBVIOUS
    <3>2. PICK o : o = [owner EXCEPT !.phase = "compact", !.todo = S]
      OBVIOUS
    <3>3. S \in SUBSET Images
      BY <3>1
    <3>4. /\ o \in OwnerType /\ o.phase = "compact" /\ o.event = "none" /\ o.image = 0
          /\ o.operation = owner.operation /\ o.target = owner.target
          /\ o.todo = S /\ o.quiescent = owner.quiescent
      BY <1>1, <1>2, <3>2, <3>3 DEF OwnerType, Phases
    <3>5. PauseOk(ready, o)
      BY <1>1, <1>2, <3>4 DEF PauseOk, Pausing, Phases
    <3>6. QuiescentOk(o)
      <4>1. Gen > 0
        BY <1>1, <1>2 DEF PauseOk, Pausing, Phases, Gen
      <4>2. \A i \in S : owner.quiescent[i] # 0
        BY <1>2, <3>1, <4>1
      <4> QED BY <1>1, <1>2, <3>4, <4>2 DEF QuiescentOk, Pausing, Phases
    <3>7. \A j \in Images : StillAsked(owner, o, j)
      BY <1>1, <3>4 DEF StillAsked, Asked
    <3>8. owner' = o
      BY <1>4, <2>3, <3>1, <3>2
    <3> QED BY <1>1, <1>2, <2>1, <3>4, <3>5, <3>6, <3>7, <3>8, StepsInv
  <2> QED BY <2>2, <2>3
<1> QED BY <1>3, <1>4 DEF Collect, OperationErrs

\* What the owner needs to start the compaction of an image that acknowledged.
LEMMA SendsCompact ==
  ASSUME ExchangeInv, owner.event = "none", owner.phase \in {"operate", "compact"},
         NEW o \in OwnerType, o.phase = "compact", o.event = "none", o.image = 0,
         o.operation = owner.operation, o.target = owner.target,
         o.todo = owner.todo, o.quiescent = owner.quiescent,
         NEW i \in Images, ~host.gate => owner.quiescent[i] # 0, Send(o, i, "compactq"),
         excused' \in BOOLEAN, UNCHANGED <<replies, ready, manifest>>
  PROVE  ExchangeInv'
<1>1. /\ owner \in OwnerType /\ PauseOk(ready, owner) /\ QuiescentOk(owner)
      /\ owner.image = 0 /\ OwnerOk(owner)
      /\ ExchangeAt(replies, ready, owner, manifest)
  BY Resting
<1>2. PauseOk(ready, o)
  BY <1>1 DEF PauseOk, Pausing, Phases
<1>3. QuiescentOk(o)
  BY <1>1 DEF QuiescentOk, Pausing, Phases
<1>4. \A j \in Images : StillAsked(owner, o, j)
  BY DEF StillAsked, Asked
<1>5. o.operation = "snapshot" => o.target \in Images
  BY <1>1 DEF OwnerOk
<1>6. ExchangeAt(replies, ready, o, manifest)
  BY <1>1, <1>2, <1>3, <1>4, <1>5, GoesOn
<1>7. MayFail(replies, ready, o, manifest, i)
  BY <1>6, AtRest
<1>8. ASSUME Healthy(i), events[i] = <<>>
      PROVE  /\ HealthyInv(i, img[i], <<>>, replies[i], o, Gen, manifest[i])
             /\ Asked(i, o) /\ img[i].up # "new"
  <2>1. HealthyInv(i, img[i], <<>>, replies[i], o, Gen, manifest[i])
    BY <1>6, <1>8 DEF ExchangeAt, PortsOk
  <2>2. img[i].up # "new"
    BY <1>8, <2>1 DEF HealthyInv, Healthy
  <2> QED BY <2>1, <2>2 DEF Asked
<1>9. CanSend(replies, o, manifest, i, "compactq")
  BY <1>8 DEF CanSend, Overtaking, EventOps
<1> QED BY <1>7, <1>9, SendInv

\* The next quiescent compaction, or none is left.
LEMMA CompactNextInv ==
  ASSUME ExchangeInv, CompactNext PROVE ExchangeInv'
<1>1. /\ owner.phase = "compact" /\ owner.event = "none"
      /\ UNCHANGED <<replies, ready, manifest>>
      /\ excused' = (excused \/ \E i \in owner.todo : img[i].up # "on")
  BY DEF CompactNext, At, Waiting
<1>2. /\ owner \in OwnerType /\ PauseOk(ready, owner) /\ QuiescentOk(owner)
      /\ owner.image = 0 /\ host \in HostType /\ excused \in BOOLEAN
  BY <1>1, Resting
<1>3. excused' \in BOOLEAN
  BY <1>1
<1>4. CASE owner.todo = {}
  <2>1. owner' = Resuming(owner) /\ UNCHANGED <<img, events, host>>
    BY <1>4 DEF CompactNext
  <2>2. HostKept /\ host'.gate = host.gate
    BY <1>2, <2>1 DEF HostKept
  <2> QED BY <1>1, <1>3, <2>1, <2>2, ResumesInv
<1>5. CASE owner.todo # {}
  <2>1. PICK i : i = First(owner.todo)
    OBVIOUS
  <2>2. PICK o : o = [owner EXCEPT !.advanced = FALSE]
    OBVIOUS
  <2>3. Send(o, i, "compactq")
    BY <1>5, <2>1, <2>2 DEF CompactNext, First
  <2>4. i \in owner.todo /\ i \in Images
    BY <1>2, <1>5, <2>1, FirstIn DEF OwnerType
  <2>5. /\ o \in OwnerType /\ o.phase = "compact" /\ o.event = "none" /\ o.image = 0
        /\ o.operation = owner.operation /\ o.target = owner.target
        /\ o.todo = owner.todo /\ o.quiescent = owner.quiescent
    BY <1>1, <1>2, <2>2 DEF OwnerType
  <2>6. ~host.gate => owner.quiescent[i] # 0
    BY <1>1, <1>2, <2>4 DEF QuiescentOk
  <2> QED BY <1>1, <1>3, <2>3, <2>4, <2>5, <2>6, SendsCompact
<1> QED BY <1>4, <1>5

\* The snapshot is compacted for, published or lost.
LEMMA SnapshotInv ==
  ASSUME ExchangeInv, CheckedInv, Snapshot PROVE ExchangeInv'
<1>1. /\ owner.phase = "operate" /\ owner.event = "none" /\ owner.operation = "snapshot"
      /\ UNCHANGED <<replies, ready, manifest>>
  BY DEF Snapshot, At, Waiting
<1>2. /\ owner \in OwnerType /\ PauseOk(ready, owner) /\ QuiescentOk(owner)
      /\ owner.image = 0 /\ host \in HostType /\ excused \in BOOLEAN
      /\ MayFail(replies, ready, owner, manifest, 0) /\ Gen \in Nat /\ OwnerOk(owner)
  BY <1>1, Resting
<1>3. owner.phase \in Pausing
  BY <1>1 DEF Pausing, Phases
<1>4. PICK i : i = owner.target
  OBVIOUS
<1>5. CASE /\ owner' = Idle(owner) /\ host' = HostFailed /\ excused' = TRUE
           /\ UNCHANGED <<img, events>>
  BY <1>1, <1>2, <1>3, <1>5, HostFailsInv
<1>6. CASE /\ owner.checked \/ owner.quiescent[i] = Gen
           /\ Send([owner EXCEPT !.phase = "compact", !.advanced = FALSE,
                                 !.checked = TRUE], i, "compactq")
           /\ excused' = (excused \/ img[i].up # "on")
  <2>1. PICK o : o = [owner EXCEPT !.phase = "compact", !.advanced = FALSE,
                                   !.checked = TRUE]
    OBVIOUS
  <2>2. Send(o, i, "compactq") /\ i \in Images
    BY <1>1, <1>2, <1>4, <1>6, <2>1 DEF OwnerOk
  <2>3. /\ o \in OwnerType /\ o.phase = "compact" /\ o.event = "none" /\ o.image = 0
        /\ o.operation = owner.operation /\ o.target = owner.target
        /\ o.todo = owner.todo /\ o.quiescent = owner.quiescent
    BY <1>1, <1>2, <2>1 DEF OwnerType, Phases
  <2>4. owner.quiescent[i] # 0
    BY <1>1, <1>2, <1>3, <1>4, <1>6 DEF PauseOk, Gen, CheckedInv
  <2>5. excused' \in BOOLEAN
    BY <1>6
  <2> QED BY <1>1, <2>2, <2>3, <2>4, <2>5, SendsCompact
<1>7. CASE owner' = Resuming(owner) /\ UNCHANGED <<img, events, host, excused>>
  <2>1. HostKept /\ host'.gate = host.gate /\ excused' \in BOOLEAN
    BY <1>2, <1>7 DEF HostKept
  <2> QED BY <1>1, <1>7, <2>1, ResumesInv
<1> QED BY <1>4, <1>5, <1>6, <1>7 DEF Snapshot, OperationErrs

\* The owner returns to its queue once no acknowledgement is left.
LEMMA IdlesInv ==
  ASSUME ExchangeInv, owner.event = "none", owner' = Idle(owner),
         ~host.gate => \A j \in Images : owner.quiescent[j] = 0,
         NEW rd \in Seq(ReadyType),
         \A k \in DOMAIN rd : rd[k].op \notin Operations /\ img[rd[k].image].up # "new",
         host' \in HostType, host'.generation = host.generation, host'.gate = host.gate,
         excused' \in BOOLEAN, ready' = rd, UNCHANGED <<img, events, replies, manifest>>
  PROVE  ExchangeInv'
<1>0. /\ ExchangeAt(replies, ready, owner, manifest) /\ owner \in OwnerType /\ owner.image = 0
  BY Resting
<1>1. PICK q : q = Idle(owner)
  OBVIOUS
<1>2. /\ q \in OwnerType /\ q.phase = "idle" /\ q.event = "none"
      /\ q.image = 0 /\ q.operation = "none" /\ q.quiescent = owner.quiescent
  BY <1>0, <1>1, IdleOwner
<1>3. TypeInv'
  BY <1>0, <1>1, <1>2 DEF ExchangeAt, TypeInv, TypeOk
<1>4. OwnerInv'
  BY <1>1, <1>2 DEF OwnerInv, OwnerOk
<1>5. PauseInv'
  BY <1>1, <1>2 DEF PauseInv, PauseOk, Pausing
<1>6. QuiescentInv'
  BY <1>1, <1>2 DEF QuiescentInv, QuiescentOk
<1>7. PortInv'
  <2> SUFFICES ASSUME NEW j \in Images
               PROVE  /\ img[j].failed => img[j].turn = "none"
                      /\ Healthy(j) =>
                           HealthyInv(j, img[j], events[j], replies[j], q, Gen, manifest[j])
    BY <1>1 DEF PortInv, PortsOk, Healthy, Gen
  <2>1. PortsOk(replies, owner, manifest)
    BY <1>0 DEF ExchangeAt
  <2>2. ~Asked(j, q) /\ j # 0
    BY <1>2, ImagesNat DEF Asked
  <2>3. Healthy(j) => HealthyInv(j, img[j], events[j], replies[j], owner, Gen, manifest[j])
    BY <2>1 DEF PortsOk
  <2>4. Healthy(j) => HealthyInv(j, img[j], events[j], replies[j], q, Gen, manifest[j])
    BY <1>0, <1>2, <2>2, <2>3, OtherPort
  <2> QED BY <2>1, <2>4 DEF PortsOk
<1> QED BY <1>3, <1>4, <1>5, <1>6, <1>7 DEF ExchangeInv

\* The generation a port does not know of yet.
LEMMA NewGeneration ==
  ASSUME NEW i, NEW p, NEW e, NEW r, NEW o, NEW o2, NEW g, NEW h, NEW m,
         HealthyInv(i, p, e, r, o, g, m), o.image # i, o2.image # i,
         ~Asked(i, o2), o2.quiescent[i] = 0
  PROVE  HealthyInv(i, p, e, r, o2, h, m)
<1>1. ASSUME OnInv(i, p, e, r, o, g) PROVE OnInv(i, p, e, r, o2, h)
  BY <1>1 DEF OnInv
<1> QED BY <1>1 DEF HealthyInv

\* A claimed collection or snapshot pauses admission, or is refused.
LEMMA StartInv ==
  ASSUME ExchangeInv, owner.event = "none", owner.phase = "idle",
         NEW h \in HostType, h.generation = host.generation, h.gate = host.gate, h.claimed,
         NEW rd \in Seq(ReadyType),
         \A k \in DOMAIN rd : rd[k].op \notin Operations /\ img[rd[k].image].up # "new",
         NEW op \in Operations, NEW target \in Images \cup {0},
         op = "snapshot" => target \in Images,
         Start(owner, h, op, target), ready' = rd, excused' \in BOOLEAN,
         UNCHANGED <<img, events, replies, manifest>>
  PROVE  ExchangeInv'
<1>0. /\ ExchangeAt(replies, ready, owner, manifest) /\ owner \in OwnerType
      /\ owner.image = 0 /\ QuiescentOk(owner) /\ Gen \in Nat
  BY Resting
<1>1. ~host.gate => \A j \in Images : owner.quiescent[j] = 0
  BY <1>0 DEF QuiescentOk, Pausing
<1>2. CASE owner' = Idle(owner) /\ host' = [h EXCEPT !.claimed = FALSE]
  <2>1. /\ host' \in HostType /\ host'.generation = host.generation
        /\ host'.gate = host.gate
    BY <1>2 DEF HostType
  <2> QED BY <1>1, <1>2, <2>1, IdlesInv
<1>3. CASE /\ host' = [h EXCEPT !.generation = h.generation + 1, !.paused = TRUE]
           /\ owner' = [owner EXCEPT !.phase = "drain", !.operation = op,
                          !.target = target, !.uncertain = FALSE, !.advanced = TRUE,
                          !.checked = FALSE]
  <2>1. PICK o : o = [owner EXCEPT !.phase = "drain", !.operation = op,
                        !.target = target, !.uncertain = FALSE, !.advanced = TRUE,
                        !.checked = FALSE]
    OBVIOUS
  <2>2. /\ o \in OwnerType /\ o.phase = "drain" /\ o.event = "none"
        /\ o.image = 0 /\ o.operation = op /\ o.target = target
        /\ o.quiescent = owner.quiescent
    BY <1>0, <2>1 DEF OwnerType, Phases
  <2>3. /\ host' \in HostType /\ host'.generation = Gen + 1 /\ host'.gate = host.gate
        /\ host'.paused /\ host'.claimed
    <3>1. PICK n \in Nat : n = h.generation + 1
      BY DEF HostType
    <3>2. host' = [h EXCEPT !.generation = n, !.paused = TRUE]
      BY <1>3, <3>1
    <3> HIDE DEF HostType
    <3>3. host' \in HostType /\ host'.generation = n /\ host'.gate = h.gate
          /\ host'.paused /\ host'.claimed = h.claimed
      BY <3>2 DEF HostType
    <3> QED BY <3>1, <3>3 DEF Gen
  <2>4. owner' = o
    BY <1>3, <2>1
  <2>5. TypeInv'
    BY <1>0, <2>2, <2>3, <2>4 DEF ExchangeAt, TypeInv, TypeOk
  <2>6. OwnerInv'
    BY <2>2, <2>4 DEF OwnerInv, OwnerOk
  <2>7. PauseInv'
    BY <1>0, <2>2, <2>3, <2>4 DEF PauseInv, PauseOk
  <2>8. QuiescentInv'
    BY <1>1, <2>2, <2>3, <2>4 DEF QuiescentInv, QuiescentOk
  <2>9. PortInv'
    <3> SUFFICES ASSUME NEW j \in Images
                 PROVE  /\ img[j].failed => img[j].turn = "none"
                        /\ Healthy(j) => HealthyInv(j, img[j], events[j], replies[j], o,
                                                    Gen + 1, manifest[j])
      BY <2>3, <2>4 DEF PortInv, PortsOk, Healthy, Gen
    <3>1. PortsOk(replies, owner, manifest)
      BY <1>0 DEF ExchangeAt
    <3>2. ~Asked(j, o) /\ j # 0
      BY <2>2, ImagesNat DEF Asked
    <3>3. Healthy(j) => HealthyInv(j, img[j], events[j], replies[j], owner, Gen, manifest[j])
      BY <3>1 DEF PortsOk
    <3>4. Healthy(j) => o.quiescent[j] = 0
      BY <1>1, <2>2 DEF Healthy
    <3>5. Healthy(j) => HealthyInv(j, img[j], events[j], replies[j], o, Gen + 1, manifest[j])
      BY <1>0, <2>2, <3>2, <3>3, <3>4, NewGeneration
    <3> QED BY <3>1, <3>5 DEF PortsOk
  <2> QED BY <2>5, <2>6, <2>7, <2>8, <2>9 DEF ExchangeInv
<1> QED BY <1>2, <1>3 DEF Start

\* The owner collects under pressure.
LEMMA AutoCollectInv ==
  ASSUME ExchangeInv, AutoCollect PROVE ExchangeInv'
<1>1. PICK h : h = [host EXCEPT !.claimed = TRUE, !.left.admin = @ - 1]
  OBVIOUS
<1>2. /\ owner.phase = "idle" /\ owner.event = "none" /\ ~host.claimed
      /\ Start(owner, h, "collect", 0)
      /\ UNCHANGED <<img, events, replies, ready, manifest, excused>>
  BY <1>1 DEF AutoCollect, At, Waiting
<1>3. /\ host \in HostType /\ PauseOk(ready, owner) /\ excused' \in BOOLEAN
      /\ ready \in Seq(ReadyType)
  BY <1>2, Resting DEF ExchangeAt, TypeOk
<1>4. h \in HostType /\ h.generation = host.generation /\ h.gate = host.gate /\ h.claimed
  <2>1. PICK l : l = [host.left EXCEPT !.admin = host.left.admin - 1]
    OBVIOUS
  <2>2. l \in [admin : Int, mutate : Int, rotate : Int]
    BY <1>3, <2>1 DEF HostType
  <2>3. h = [host EXCEPT !.claimed = TRUE, !.left = l]
    BY <1>1, <1>3, <2>1 DEF HostType
  <2> QED BY <1>3, <2>2, <2>3 DEF HostType
<1>5. \A k \in DOMAIN ready : ready[k].op \notin Operations /\ img[ready[k].image].up # "new"
  BY <1>2, <1>3 DEF PauseOk
<1> QED BY <1>2, <1>3, <1>4, <1>5, StartInv DEF Operations

\* The oldest entry of the ready queue is taken.
LEMMA TakeReadyInv ==
  ASSUME ExchangeInv, TakeReady PROVE ExchangeInv'
<1>1. /\ owner.phase = "idle" /\ owner.event = "none" /\ ready # <<>> /\ ready' = Tail(ready)
      /\ UNCHANGED <<replies, manifest, excused>>
  BY DEF TakeReady, At, Waiting
<1>2. PICK r, rd : r = Head(ready) /\ rd = Tail(ready)
  OBVIOUS
<1>3. /\ host \in HostType /\ PauseOk(ready, owner) /\ excused' \in BOOLEAN
      /\ ready \in Seq(ReadyType) /\ owner \in OwnerType /\ owner.image = 0
      /\ OwnerOk(owner) /\ QuiescentOk(owner)
      /\ ExchangeAt(replies, ready, owner, manifest)
  BY <1>1, Resting DEF ExchangeAt, TypeOk
<1>4. /\ rd \in Seq(ReadyType) /\ PauseOk(rd, owner) /\ r \in ReadyType
      /\ r.op \in Operations =>
           /\ host.claimed
           /\ r.op = "snapshot" => r.image \in Images
           /\ \A k \in DOMAIN rd : rd[k].op \notin Operations
      /\ r.op \notin Operations => r.image \in Images /\ img[r.image].up # "new"
  BY <1>1, <1>2, <1>3, ReadyTail
<1>5. CASE r.op \in {"collect", "snapshot"} /\ Start(owner, host, r.op, r.image)
             /\ UNCHANGED <<img, events>>
  <2>1. r.op \in Operations /\ r.image \in Images \cup {0}
    BY <1>4, <1>5 DEF Operations, ReadyType
  <2>2. \A k \in DOMAIN rd : rd[k].op \notin Operations /\ img[rd[k].image].up # "new"
    BY <1>4, <2>1 DEF PauseOk
  <2> QED BY <1>1, <1>2, <1>3, <1>4, <1>5, <2>1, <2>2, StartInv
<1>6. ASSUME r.op \in {"compact", "rotate"},
             NEW op, op = IF r.op = "rotate" THEN "allocate" ELSE "select",
             Send([owner EXCEPT !.phase = "turn"], r.image, op)
      PROVE  ExchangeInv'
  <2>1. PICK o : o = [owner EXCEPT !.phase = "turn"]
    OBVIOUS
  <2>2. PICK i : i = r.image
    OBVIOUS
  <2>3. i \in Images /\ img[i].up # "new" /\ Send(o, i, op) /\ op \in {"allocate", "select"}
    BY <1>4, <1>6, <2>1, <2>2 DEF Operations
  <2>4. /\ o \in OwnerType /\ o.phase = "turn" /\ o.event = "none" /\ o.image = 0
        /\ o.operation = owner.operation /\ o.target = owner.target
        /\ o.quiescent = owner.quiescent
    BY <1>1, <1>3, <2>1 DEF OwnerType, Phases
  <2>5. ExchangeAt(replies, rd, owner, manifest)
    BY <1>3, <1>4 DEF ExchangeAt, TypeOk
  <2>6. PauseOk(rd, o)
    BY <1>1, <1>4, <2>4 DEF PauseOk, Pausing
  <2>7. QuiescentOk(o)
    BY <1>1, <1>3, <2>4 DEF QuiescentOk, Pausing
  <2>8. \A j \in Images : StillAsked(owner, o, j)
    BY <2>4 DEF StillAsked, Asked
  <2>9. o.operation = "snapshot" => o.target \in Images
    BY <1>3, <2>4 DEF OwnerOk
  <2>10. ExchangeAt(replies, rd, o, manifest)
    BY <1>1, <2>4, <2>5, <2>6, <2>7, <2>8, <2>9, GoesOn
  <2>11. MayFail(replies, rd, o, manifest, i)
    BY <2>3, <2>4, <2>10, AtRest
  <2>12. ASSUME Healthy(i), events[i] = <<>>
         PROVE  HealthyInv(i, img[i], <<>>, replies[i], o, Gen, manifest[i])
    BY <2>3, <2>10, <2>12 DEF ExchangeAt, PortsOk
  <2>13. CanSend(replies, o, manifest, i, op)
    BY <2>3, <2>4, <2>12 DEF CanSend, Overtaking, EventOps
  <2> QED BY <1>1, <1>2, <1>3, <2>3, <2>11, <2>13, SendInv
<1> QED BY <1>2, <1>5, <1>6 DEF TakeReady

\* Each attached image is asked in turn; one that left is passed over.
LEMMA QuiesceInv ==
  ASSUME ExchangeInv, Quiesce PROVE ExchangeInv'
<1>1. /\ owner.phase = "quiesce" /\ owner.event = "none"
      /\ UNCHANGED <<replies, ready, manifest, excused>>
  BY DEF Quiesce, At, Waiting
<1>2. /\ host \in HostType /\ PauseOk(ready, owner) /\ excused' \in BOOLEAN
      /\ owner \in OwnerType /\ owner.image = 0
      /\ OwnerOk(owner) /\ QuiescentOk(owner)
      /\ ExchangeAt(replies, ready, owner, manifest)
  BY <1>1, Resting
<1>3. CASE owner.todo = {}
  <2>1. PICK o : o = [owner EXCEPT !.phase = "settle"]
    OBVIOUS
  <2>2. owner' = o /\ UNCHANGED <<img, events, host>>
    BY <1>3, <2>1 DEF Quiesce
  <2>3. /\ o \in OwnerType /\ o.phase = "settle" /\ o.event = "none" /\ o.image = 0
        /\ o.operation = owner.operation /\ o.target = owner.target
        /\ o.todo = {} /\ o.quiescent = owner.quiescent
    BY <1>1, <1>2, <1>3, <2>1 DEF OwnerType, Phases
  <2>4. PauseOk(ready, o)
    BY <1>1, <1>2, <2>3 DEF PauseOk, Pausing, Phases
  <2>5. QuiescentOk(o)
    BY <1>1, <1>2, <2>3 DEF QuiescentOk, Pausing, Phases
  <2>6. \A j \in Images : StillAsked(owner, o, j)
    BY <1>1, <1>2, <1>3, <2>3, ImagesNat DEF StillAsked, Asked
  <2>7. HostKept /\ host'.gate = host.gate
    BY <1>2, <2>2 DEF HostKept
  <2> QED BY <1>1, <1>2, <2>2, <2>3, <2>4, <2>5, <2>6, <2>7, StepsInv
<1>4. CASE owner.todo # {}
  <2>1. PICK i : i = First(owner.todo)
    OBVIOUS
  <2>2. i \in owner.todo /\ i \in Images
    BY <1>2, <1>4, <2>1, FirstIn DEF OwnerType
  <2>3. PICK S : S = owner.todo \ {i}
    OBVIOUS
  <2>4. S \in SUBSET Images /\ i \notin S /\ \A j \in owner.todo \ {i} : j \in S
    BY <1>2, <2>3 DEF OwnerType
  <2>5. PICK o : o = [owner EXCEPT !.todo = S]
    OBVIOUS
  <2>6. /\ o \in OwnerType /\ o.phase = "quiesce" /\ o.event = "none" /\ o.image = 0
        /\ o.operation = owner.operation /\ o.target = owner.target
        /\ o.todo = S /\ o.quiescent = owner.quiescent /\ o.uncertain = owner.uncertain
    BY <1>1, <1>2, <2>4, <2>5 DEF OwnerType
  <2>7. PICK u : u = [o EXCEPT !.uncertain = TRUE]
    OBVIOUS
  <2>8. /\ u \in OwnerType /\ u.phase = "quiesce" /\ u.event = "none" /\ u.image = 0
        /\ u.operation = owner.operation /\ u.target = owner.target
        /\ u.todo = S /\ u.quiescent = owner.quiescent /\ u.uncertain
    BY <2>6, <2>7 DEF OwnerType
  <2>9. PauseOk(ready, o) /\ PauseOk(ready, u)
    BY <1>1, <1>2, <2>6, <2>8 DEF PauseOk, Pausing, Phases
  <2>10. QuiescentOk(o) /\ QuiescentOk(u)
    BY <1>1, <1>2, <2>3, <2>6, <2>8 DEF QuiescentOk, Pausing, Phases
  <2>11. \A j \in Images : j # i => StillAsked(owner, o, j) /\ StillAsked(owner, u, j)
    BY <1>1, <1>2, <2>3, <2>6, <2>8, ImagesNat DEF StillAsked, Asked
  <2>12. owner.operation = "snapshot" => owner.target \in Images
    BY <1>2 DEF OwnerOk
  <2>13. CASE Attached(i) /\ Healthy(i)
    <3>1. Send(u, i, "quiesce")
      BY <1>4, <2>1, <2>3, <2>5, <2>7, <2>13 DEF Quiesce, First
    <3>2. MayFail(replies, ready, u, manifest, i)
      BY <1>1, <1>2, <2>8, <2>9, <2>10, <2>11, <2>12, GoesOnBut
    <3>3. HealthyInv(i, img[i], events[i], replies[i], owner, Gen, manifest[i])
      BY <1>2, <2>2, <2>13 DEF ExchangeAt, PortsOk
    <3>4. img[i].up # "new" /\ (~host.gate => owner.quiescent[i] = 0)
      BY <1>1, <1>2, <2>2, <2>13 DEF Attached, QuiescentOk
    <3>5. CanSend(replies, u, manifest, i, "quiesce")
      BY <1>2, <2>4, <2>8, <3>3, <3>4 DEF CanSend, Overtaking, EventOps
    <3> QED BY <1>1, <1>2, <2>2, <3>1, <3>2, <3>5, SendInv
  <2>14. CASE ~(Attached(i) /\ Healthy(i))
    <3>1. Pass(o, i, o)
      BY <1>4, <2>1, <2>3, <2>5, <2>14 DEF Quiesce, First
    <3>2. CASE Healthy(i)
      <4>1. img[i].up # "on"
        BY <2>14, <3>2 DEF Attached
      <4>2. StillAsked(owner, o, i)
        BY <2>6, <4>1 DEF StillAsked
      <4>3. ExchangeAt(replies, ready, o, manifest)
        BY <1>1, <1>2, <2>6, <2>9, <2>10, <2>11, <2>12, <4>2, GoesOn
      <4>4. MayFail(replies, ready, o, manifest, i)
        BY <2>6, <4>3, AtRest
      <4> QED BY <1>1, <1>2, <3>1, <4>3, <4>4, PassInv
    <3>3. CASE ~Healthy(i)
      <4>1. \A j \in Images : Healthy(j) => StillAsked(owner, o, j)
        BY <2>11, <3>3
      <4>2. ExchangeAt(replies, ready, o, manifest)
        BY <1>1, <1>2, <2>6, <2>9, <2>10, <2>12, <4>1, GoesOn
      <4>3. MayFail(replies, ready, o, manifest, i)
        BY <2>6, <4>2, AtRest
      <4> QED BY <1>1, <1>2, <3>1, <4>2, <4>3, PassInv
    <3> QED BY <3>2, <3>3
  <2> QED BY <2>13, <2>14
<1> QED BY <1>3, <1>4

\* Each image that acknowledged is resumed, and forgotten.
LEMMA ResumeInv ==
  ASSUME ExchangeInv, Resume PROVE ExchangeInv'
<1>1. /\ owner.phase \in {"resume", "unresume"} /\ owner.event = "none"
      /\ UNCHANGED <<replies, ready, manifest, excused>>
  BY DEF Resume, Waiting
<1>2. /\ host \in HostType /\ PauseOk(ready, owner) /\ excused' \in BOOLEAN
      /\ owner \in OwnerType /\ owner.image = 0
      /\ OwnerOk(owner) /\ QuiescentOk(owner)
      /\ ExchangeAt(replies, ready, owner, manifest)
  BY <1>1, Resting
<1>3. CASE owner.todo = {}
  <2>1. owner' = Idle(owner) /\ host' = Released /\ UNCHANGED <<img, events>>
    BY <1>3 DEF Resume
  <2>2. host' \in HostType /\ host'.generation = host.generation /\ host'.gate = host.gate
    BY <1>2, <2>1 DEF Released, HostType
  <2>3. ~host.gate => \A j \in Images : owner.quiescent[j] = 0
    BY <1>1, <1>2, <1>3 DEF QuiescentOk
  <2>4. \A k \in DOMAIN ready : ready[k].op \notin Operations /\ img[ready[k].image].up # "new"
    BY <1>1, <1>2 DEF PauseOk, Pausing, Phases
  <2>5. ready \in Seq(ReadyType)
    BY <1>2 DEF ExchangeAt, TypeOk
  <2> QED BY <1>1, <1>2, <2>1, <2>2, <2>3, <2>4, <2>5, IdlesInv
<1>4. CASE owner.todo # {}
  <2>1. PICK i : i = First(owner.todo)
    OBVIOUS
  <2>2. i \in owner.todo /\ i \in Images
    BY <1>2, <1>4, <2>1, FirstIn DEF OwnerType
  <2>3. PICK S : S = owner.todo \ {i}
    OBVIOUS
  <2>4. PICK a : a = [owner.quiescent EXCEPT ![i] = 0]
    OBVIOUS
  <2>5. /\ S \in SUBSET Images /\ a \in [Images -> Nat] /\ a[i] = 0
        /\ \A j \in Images \ {i} : a[j] = owner.quiescent[j]
    BY <1>2, <2>2, <2>3, <2>4 DEF OwnerType
  <2>6. PICK o : o = [owner EXCEPT !.todo = S, !.quiescent = a]
    OBVIOUS
  <2>7. /\ o \in OwnerType /\ o.phase = owner.phase /\ o.event = "none" /\ o.image = 0
        /\ o.operation = owner.operation /\ o.target = owner.target
        /\ o.todo = S /\ o.quiescent = a
    BY <1>1, <1>2, <2>5, <2>6 DEF OwnerType
  <2>8. o = [owner EXCEPT !.todo = owner.todo \ {i}, !.quiescent[i] = 0]
    BY <1>2, <2>3, <2>4, <2>6 DEF OwnerType
  <2>9. PauseOk(ready, o)
    BY <1>1, <1>2, <2>7 DEF PauseOk
  <2>10. QuiescentOk(o)
    <3>1. ~host.gate => S = {j \in Images : a[j] # 0}
      BY <1>1, <1>2, <2>2, <2>3, <2>5 DEF QuiescentOk
    <3> QED BY <1>1, <1>2, <2>2, <2>5, <2>7, <3>1 DEF QuiescentOk, Pausing, Phases
  <2>11. \A j \in Images : StillAsked(owner, o, j)
    BY <1>1, <2>2, <2>5, <2>7 DEF StillAsked, Asked
  <2>12. o.operation = "snapshot" => o.target \in Images
    BY <1>2, <2>7 DEF OwnerOk
  <2>13. ExchangeAt(replies, ready, o, manifest)
    BY <1>1, <1>2, <2>7, <2>9, <2>10, <2>11, <2>12, GoesOn
  <2>14. MayFail(replies, ready, o, manifest, i)
    BY <1>1, <2>7, <2>13, AtRest
  <2>15. CASE Pass(o, i, o)
    BY <1>1, <1>2, <2>13, <2>14, <2>15, PassInv
  <2>16. CASE (Attached(i) \/ ~Healthy(i)) /\ Send(o, i, "resume")
    <3>1. ASSUME Healthy(i), events[i] = <<>>
          PROVE  /\ HealthyInv(i, img[i], <<>>, replies[i], o, Gen, manifest[i])
                 /\ img[i].up # "new"
                 /\ img[i].up = "on" => replies[i] = <<>>
      <4>1. HealthyInv(i, img[i], <<>>, replies[i], o, Gen, manifest[i])
        BY <2>2, <2>13, <3>1 DEF ExchangeAt, PortsOk
      <4>2. HealthyInv(i, img[i], events[i], replies[i], owner, Gen, manifest[i])
        BY <1>2, <2>2, <3>1 DEF ExchangeAt, PortsOk
      <4>3. owner.quiescent[i] # 0 /\ i # 0
        BY <1>1, <1>2, <2>2, <3>1, ImagesNat DEF QuiescentOk, Healthy
      <4>4. img[i].up = "on" => replies[i] = <<>>
        BY <1>2, <4>2, <4>3 DEF HealthyInv, OnInv
      <4>5. img[i].up # "new"
        BY <2>16, <3>1 DEF Attached
      <4> QED BY <4>1, <4>4, <4>5
    <3>2. CanSend(replies, o, manifest, i, "resume")
      BY <1>1, <2>7, <3>1 DEF CanSend, Overtaking, EventOps
    <3> QED BY <1>1, <1>2, <2>2, <2>14, <2>16, <3>2, SendInv
  <2> QED BY <1>4, <2>1, <2>8, <2>15, <2>16 DEF Resume, First
<1> QED BY <1>3, <1>4

\* A port whose reply was read, or whose owner stopped waiting for one.
LEMMA HeardPort ==
  ASSUME NEW i, NEW p, NEW e, NEW r, NEW o, NEW w, NEW g, NEW m,
         HealthyInv(i, p, e, r, o, g, m), o.image = i, w.image # i,
         w.quiescent[i] = o.quiescent[i],
         p.up = "on" => /\ e = <<>> \/ (o.event = "deferred" /\ o.quiescent[i] = 0)
                        /\ p.gen = 0 \/ p.acked
                        /\ Asked(i, w) => Asked(i, o)
  PROVE  HealthyInv(i, p, e, <<>>, w, g, m)
<1>1. ASSUME OnInv(i, p, e, r, o, g), p.up = "on" PROVE OnInv(i, p, e, <<>>, w, g)
  BY <1>1 DEF OnInv
<1> QED BY <1>1 DEF HealthyInv

\* What the owner knows when it stops awaiting image i, as o with replies rs:
\* whatever the image did, the owner may fail.
Hears(i, o, rs) ==
  /\ i = owner.image
  /\ i \in Images /\ i # 0 /\ rs[i] = <<>>
  /\ o \in OwnerType /\ o.phase = owner.phase /\ o.event = "none" /\ o.image = 0
  /\ o.operation = owner.operation /\ o.target = owner.target /\ o.todo = owner.todo
  /\ o.uncertain = owner.uncertain /\ o.advanced = owner.advanced
  /\ o.quiescent = owner.quiescent
  /\ OwnerOk(owner) /\ QuiescentOk(owner)
  /\ Healthy(i) =>
       /\ HealthyInv(i, img[i], events[i], replies[i], owner, Gen, manifest[i])
       /\ img[i].up # "new"
  /\ MayFail(rs, ready, o, manifest, i)

\* It holds of whatever the owner awaits.
LEMMA Heard ==
  ASSUME ExchangeInv, Waiting
  PROVE  Hears(owner.image, [owner EXCEPT !.event = "none", !.image = 0],
               [replies EXCEPT ![owner.image] = <<>>])
<1> PICK i : i = owner.image
  OBVIOUS
<1> PICK o : o = [owner EXCEPT !.event = "none", !.image = 0]
  OBVIOUS
<1> PICK rs : rs = [replies EXCEPT ![i] = <<>>]
  OBVIOUS
<1>1. /\ ExchangeAt(replies, ready, owner, manifest)
      /\ TypeOk(replies, ready, owner, manifest) /\ OwnerOk(owner)
      /\ PauseOk(ready, owner) /\ QuiescentOk(owner) /\ PortsOk(replies, owner, manifest)
      /\ owner \in OwnerType
  BY InvAt DEF ExchangeAt, TypeOk
<1>2. i \in Images /\ i # 0
  BY <1>1 DEF Waiting, OwnerOk, OwnerType
<1>3. /\ o \in OwnerType /\ o.phase = owner.phase /\ o.event = "none" /\ o.image = 0
      /\ o.operation = owner.operation /\ o.target = owner.target /\ o.todo = owner.todo
      /\ o.uncertain = owner.uncertain /\ o.advanced = owner.advanced
      /\ o.quiescent = owner.quiescent
  BY <1>1 DEF OwnerType
<1>4. /\ rs \in [Images -> Slots(ReplyType)] /\ rs[i] = <<>>
      /\ \A j \in Images \ {i} : rs[j] = replies[j]
  <2>1. <<>> \in Slots(ReplyType)
    BY SlotOf
  <2> QED BY <1>1, <1>2, <2>1 DEF TypeOk
<1>5. TypeOk(rs, ready, o, manifest) /\ OwnerOk(o)
  BY <1>1, <1>3, <1>4 DEF TypeOk, OwnerOk
<1>6. PauseOk(ready, o)
  BY <1>1, <1>3 DEF PauseOk
<1>7. QuiescentOk(o)
  BY <1>1, <1>3 DEF QuiescentOk
<1>8. \A j \in Images : img[j].failed => img[j].turn = "none"
  BY <1>1 DEF PortsOk
<1>9. Healthy(i) =>
        /\ HealthyInv(i, img[i], events[i], replies[i], owner, Gen, manifest[i])
        /\ img[i].up # "new"
  BY <1>1, <1>2 DEF PortsOk, HealthyInv
<1>10. ASSUME NEW j \in Images, Healthy(j), j # i
       PROVE  HealthyInv(j, img[j], events[j], rs[j], o, Gen, manifest[j])
  <2>1. HealthyInv(j, img[j], events[j], rs[j], owner, Gen, manifest[j])
    BY <1>1, <1>4, <1>10 DEF PortsOk
  <2>2. Asked(j, o) => Asked(j, owner)
    BY <1>3, <1>10 DEF Asked
  <2>3. j # 0
    BY ImagesNat
  <2> QED BY ZenonT(60), <1>3, <1>10, <2>1, <2>2, <2>3, OtherPort
<1>11. PICK u : u = GaveUp(o)
  OBVIOUS
<1>12. u.phase = "unnotify" /\ u.image = 0 /\ u.quiescent = owner.quiescent
  BY <1>3, <1>11 DEF GaveUp, OwnerType
<1>13. \A j \in Images : ~Asked(j, u) /\ j # 0
  BY <1>12, ImagesNat DEF Asked
<1>14. ASSUME NEW j \in Images, Healthy(j), j # i
       PROVE  HealthyInv(j, img[j], events[j], rs[j], u, Gen, manifest[j])
  BY ZenonT(60), <1>3, <1>10, <1>12, <1>13, <1>14, OtherPort
<1>15. ASSUME Healthy(i),
              o.phase \in {"drain", "settle"} \/ (o.phase = "quiesce" /\ ~o.uncertain)
       PROVE  HealthyInv(i, img[i], events[i], rs[i], u, Gen, manifest[i])
  <2>1. owner.event = "deferred"
    BY <1>1, <1>3, <1>15 DEF Waiting, OwnerOk, OwnerType, EventOps
  <2>2. owner.quiescent[i] = 0
    BY <1>1, <1>3, <1>15, <2>1 DEF QuiescentOk, Healthy
  <2>3. img[i].up = "on" => img[i].gen = 0 \/ img[i].acked
    BY <1>9, <1>15, <2>1 DEF HealthyInv, OnInv
  <2> QED BY <1>2, <1>4, <1>9, <1>12, <1>13, <1>15, <2>1, <2>2, <2>3, HeardPort
<1>16. MayFail(rs, ready, o, manifest, i)
  <2>1. ASSUME NEW j \in Images, Healthy(j)
        PROVE  /\ j # i => HealthyInv(j, img[j], events[j], rs[j], o, Gen, manifest[j])
               /\ o.phase \in {"drain", "settle"} \/ (o.phase = "quiesce" /\ ~o.uncertain) =>
                    HealthyInv(j, img[j], events[j], rs[j], GaveUp(o), Gen, manifest[j])
    BY <1>10, <1>11, <1>14, <1>15, <2>1
  <2> QED BY <1>2, <1>3, <1>5, <1>6, <1>7, <1>8, <2>1 DEF MayFail
<1>17. Hears(i, o, rs)
  BY <1>1, <1>2, <1>3, <1>4, <1>9, <1>16 DEF Hears
<1> QED BY <1>17

\* The reply is the one awaited, so the exchange is over.
LEMMA Concluded ==
  ASSUME Waiting, NEW i, NEW o, NEW rs, Hears(i, o, rs),
         owner.phase # "quiesce" \/ img[i].up # "on",
         Healthy(i) /\ img[i].up = "on" =>
           events[i] = <<>> \/ (owner.event = "deferred" /\ owner.quiescent[i] = 0)
  PROVE  ExchangeAt(rs, ready, o, manifest)
<1>1. /\ i \in Images /\ i = owner.image /\ i # 0 /\ rs[i] = <<>>
      /\ o \in OwnerType /\ o.phase = owner.phase /\ o.event = "none" /\ o.image = 0
      /\ o.operation = owner.operation /\ o.target = owner.target /\ o.todo = owner.todo
      /\ o.uncertain = owner.uncertain /\ o.advanced = owner.advanced
      /\ o.quiescent = owner.quiescent
      /\ OwnerOk(owner) /\ QuiescentOk(owner)
      /\ Healthy(i) =>
           /\ HealthyInv(i, img[i], events[i], replies[i], owner, Gen, manifest[i])
           /\ img[i].up # "new"
      /\ MayFail(rs, ready, o, manifest, i)
  BY DEF Hears
<1>2. Healthy(i) => HealthyInv(i, img[i], events[i], rs[i], o, Gen, manifest[i])
  <2> SUFFICES ASSUME Healthy(i)
               PROVE  HealthyInv(i, img[i], events[i], <<>>, o, Gen, manifest[i])
    BY <1>1
  <2>1. HealthyInv(i, img[i], events[i], replies[i], owner, Gen, manifest[i])
    BY <1>1
  <2>2. img[i].up = "on" => (img[i].gen = 0 \/ img[i].acked)
    BY <1>1, <2>1 DEF HealthyInv, OnInv, OwnerOk
  <2>3. img[i].up = "on" => (Asked(i, o) => Asked(i, owner))
    BY <1>1 DEF Asked
  <2> QED BY <1>1, <2>1, <2>2, <2>3, HeardPort
<1> QED BY <1>1, <1>2 DEF MayFail, ExchangeAt, PortsOk

\* A deadline or a closed channel instead of a reply.
LEMMA UnansweredInv ==
  ASSUME ExchangeInv, Unanswered PROVE ExchangeInv'
<1>1. PICK i : i = owner.image
  OBVIOUS
<1>2. PICK o : o = [owner EXCEPT !.event = "none", !.image = 0]
  OBVIOUS
<1>3. PICK rs : rs = [replies EXCEPT ![i] = <<>>]
  OBVIOUS
<1>4. /\ Waiting /\ replies[i] = <<>> /\ UNCHANGED <<replies, ready, manifest>>
      /\ \/ (o.phase \in {"turn", "compact"} \/ Attached(i)) /\ Fails(o, i)
         \/ ~Attached(i) /\ Pass(o, i, [o EXCEPT !.uncertain = FALSE])
  BY <1>1, <1>2 DEF Unanswered
<1>5. excused' \in BOOLEAN
  BY DEF Unanswered
<1>0. Hears(i, o, rs)
  BY <1>1, <1>2, <1>3, <1>4, Heard
<1>6. /\ i \in Images /\ o \in OwnerType /\ o.phase = owner.phase /\ o.event = "none"
      /\ o.image = 0 /\ OwnerOk(owner)
      /\ MayFail(rs, ready, o, manifest, i)
  BY <1>0 DEF Hears
<1>7. rs = replies
  BY <1>3, <1>4, <1>6 DEF ExchangeInv, TypeInv, TypeOk
<1>8. CASE Fails(o, i)
  BY <1>4, <1>5, <1>6, <1>7, <1>8, FailsInv
<1>9. CASE ~Attached(i) /\ Pass(o, i, [o EXCEPT !.uncertain = FALSE])
  <2>1. PICK u : u = [o EXCEPT !.uncertain = FALSE]
    OBVIOUS
  <2>2. /\ u \in OwnerType /\ u.phase = o.phase /\ u.event = "none" /\ u.image = 0
        /\ u.operation = o.operation /\ u.target = o.target /\ u.todo = o.todo
        /\ u.quiescent = o.quiescent
    BY <1>6, <2>1 DEF OwnerType
  <2>3. img[i].up # "on"
    BY <1>9 DEF Attached
  <2>4. ExchangeAt(rs, ready, o, manifest)
    BY <1>0, <1>4, <2>3, Concluded
  <2>5. PauseOk(ready, u) /\ QuiescentOk(u)
    BY <1>6, <2>2, <2>4 DEF ExchangeAt, PauseOk, QuiescentOk
  <2>6. \A j \in Images : StillAsked(o, u, j)
    BY <1>6, <2>2 DEF StillAsked, Asked
  <2>7. u.operation = "snapshot" => u.target \in Images
    BY <2>2, <2>4 DEF ExchangeAt, OwnerOk
  <2>8. ExchangeAt(rs, ready, u, manifest)
    BY <1>6, <2>2, <2>4, <2>5, <2>6, <2>7, GoesOn
  <2> QED BY <1>4, <1>5, <1>6, <1>7, <1>9, <2>1, <2>8, PassInv
<1> QED BY <1>4, <1>8, <1>9

\* The end of a turn or of a quiescent compaction.
LEMMA DoneInv ==
  ASSUME NEW rs, NEW o, NEW i, ExchangeAt(rs, ready, o, manifest), o.event = "none",
         o.phase \in {"turn", "compact"}, Done(o, i),
         replies' = rs, UNCHANGED <<ready, manifest>>, excused' \in BOOLEAN
  PROVE  ExchangeInv'
<1>0. /\ o \in OwnerType /\ OwnerOk(o) /\ PauseOk(ready, o) /\ QuiescentOk(o)
      /\ o.image = 0 /\ host \in HostType
  BY DEF ExchangeAt, TypeOk, OwnerOk
<1>1. UNCHANGED <<img, events, host>>
  BY DEF Done
<1>2. HostKept /\ host'.gate = host.gate
  BY <1>0, <1>1 DEF HostKept
<1>3. ASSUME NEW u \in OwnerType, owner' = u, u.event = "none", u.image = 0,
             u.operation = "snapshot" => u.target \in Images,
             u.quiescent = o.quiescent, PauseOk(ready, u), QuiescentOk(u),
             u.phase = "idle" \/ o.phase = "compact"
      PROVE  ExchangeInv'
  <2>1. \A j \in Images : StillAsked(o, u, j)
    BY <1>3 DEF StillAsked, Asked
  <2>2. ExchangeAt(rs, ready, u, manifest)
    BY <1>3, <2>1, GoesOn
  <2> QED BY <1>1, <1>2, <1>3, <2>2, MoveInv
<1>4. CASE o.phase = "turn"
  <2>1. PICK u : u = Idle(o)
    OBVIOUS
  <2>2. owner' = u
    BY <1>4, <2>1 DEF Done
  <2>3. /\ u \in OwnerType /\ u.phase = "idle" /\ u.event = "none"
        /\ u.image = 0 /\ u.operation = "none" /\ u.quiescent = o.quiescent
    BY <1>0, <2>1, IdleOwner
  <2>4. PauseOk(ready, u)
    BY <1>0, <1>4, <2>3 DEF PauseOk, Pausing
  <2>5. QuiescentOk(u)
    BY <1>0, <1>4, <2>3 DEF QuiescentOk, Pausing
  <2> QED BY <1>3, <2>2, <2>3, <2>4, <2>5
<1>5. CASE o.phase = "compact" /\ owner' = [o EXCEPT !.phase = "operate"]
  <2>1. PICK u : u = [o EXCEPT !.phase = "operate"]
    OBVIOUS
  <2>2. /\ u \in OwnerType /\ u.phase = "operate" /\ u.event = "none" /\ u.image = 0
        /\ u.operation = o.operation /\ u.target = o.target /\ u.todo = o.todo
        /\ u.quiescent = o.quiescent
    BY <1>0, <2>1 DEF OwnerType, Phases
  <2>3. PauseOk(ready, u)
    BY <1>0, <1>5, <2>2 DEF PauseOk, Pausing, Phases
  <2>4. QuiescentOk(u)
    BY <1>0, <1>5, <2>2 DEF QuiescentOk, Pausing, Phases
  <2>5. u.operation = "snapshot" => u.target \in Images
    BY <1>0, <2>2 DEF OwnerOk
  <2> QED BY <1>3, <1>5, <2>1, <2>2, <2>3, <2>4, <2>5
<1>6. CASE o.phase = "compact" /\ owner' = [o EXCEPT !.todo = o.todo \ {i}]
  <2>0. PICK S \in SUBSET Images : S = o.todo \ {i}
    BY <1>0 DEF OwnerType
  <2>1. PICK u : u = [o EXCEPT !.todo = S]
    OBVIOUS
  <2>2. /\ u \in OwnerType /\ u.phase = "compact" /\ u.event = "none" /\ u.image = 0
        /\ u.operation = o.operation /\ u.target = o.target /\ u.todo = S
        /\ u.quiescent = o.quiescent
    BY <1>0, <1>6, <2>1 DEF OwnerType
  <2>3. PauseOk(ready, u)
    BY <1>0, <1>6, <2>2 DEF PauseOk
  <2>4. QuiescentOk(u)
    BY <1>0, <1>6, <2>0, <2>2 DEF QuiescentOk, Pausing, Phases
  <2>5. u.operation = "snapshot" => u.target \in Images
    BY <1>0, <2>2 DEF OwnerOk
  <2> QED BY <1>3, <1>6, <2>0, <2>1, <2>2, <2>3, <2>4, <2>5
<1> QED BY <1>4, <1>5, <1>6 DEF Done

\* What follows an expected reply of image i.
LEMMA ProceedInv ==
  ASSUME NEW rs, NEW o, NEW i \in Images, NEW e, NEW w,
         ExchangeAt(rs, ready, o, manifest), o.event = "none",
         o.phase \in {"turn", "compact"}, rs[i] = <<>>,
         ~host.gate /\ o.phase = "compact" => o.quiescent[i] # 0,
         Healthy(i) => img[i].up # "new",
         w = "rotation" => o.phase = "turn",
         w = "selected" /\ Healthy(i) => img[i].up = "on" /\ img[i].active,
         Proceed(o, i, e, w), replies' = rs, UNCHANGED ready, excused' \in BOOLEAN
  PROVE  ExchangeInv'
<1>0. /\ o \in OwnerType /\ OwnerOk(o) /\ PauseOk(ready, o) /\ QuiescentOk(o)
      /\ o.image = 0 /\ TypeOk(rs, ready, o, manifest) /\ PortsOk(rs, o, manifest)
  BY DEF ExchangeAt, TypeOk, OwnerOk
<1>1. MayFail(rs, ready, o, manifest, i)
  BY AtRest
<1>2. ASSUME Healthy(i), events[i] = <<>>
      PROVE  /\ HealthyInv(i, img[i], <<>>, rs[i], o, Gen, manifest[i])
             /\ o.phase = "compact" => Asked(i, o)
  BY <1>0, <1>2 DEF PortsOk, Asked
<1>3. ~host.gate /\ o.phase = "turn" => o.quiescent[i] = 0
  BY <1>0 DEF QuiescentOk, Pausing
<1>4. CASE Done(o, i) /\ UNCHANGED manifest
  BY <1>4, DoneInv
<1>5. CASE w = "selected" /\ ~Healthy(i) /\ Fails(o, i) /\ UNCHANGED manifest
  BY <1>1, <1>5, FailsInv
<1>6. CASE /\ w = "selected" /\ Healthy(i)
           /\ manifest' = [manifest EXCEPT ![i] = img[i].through]
           /\ Send([o EXCEPT !.advanced = TRUE], i, "published")
  <2>1. PICK u : u = [o EXCEPT !.advanced = TRUE]
    OBVIOUS
  <2>2. PICK ms : ms = [manifest EXCEPT ![i] = img[i].through]
    OBVIOUS
  <2>3. /\ u \in OwnerType /\ u.phase = o.phase /\ u.event = "none" /\ u.image = 0
        /\ u.operation = o.operation /\ u.target = o.target /\ u.todo = o.todo
        /\ u.quiescent = o.quiescent
    BY <1>0, <2>1 DEF OwnerType
  <2>4. /\ ms \in [Images -> Nat] /\ ms[i] = img[i].through
        /\ \A j \in Images \ {i} : ms[j] = manifest[j]
    BY <1>0, <2>2 DEF TypeOk, PortType
  <2>5. TypeOk(rs, ready, u, ms) /\ OwnerOk(u)
    BY <1>0, <2>3, <2>4 DEF TypeOk, OwnerOk
  <2>6. PauseOk(ready, u) /\ QuiescentOk(u)
    BY <1>0, <2>3 DEF PauseOk, QuiescentOk
  <2>7. \A j \in Images : StillAsked(o, u, j)
    BY <1>0, <2>3 DEF StillAsked, Asked
  <2>8. u.operation = "snapshot" => u.target \in Images
    BY <1>0, <2>3 DEF OwnerOk
  <2>9. ExchangeAt(rs, ready, u, manifest)
    BY <2>3, <2>6, <2>7, <2>8, GoesOn
  <2>10. PortsOk(rs, u, manifest)
    BY <2>9 DEF ExchangeAt
  <2>11. MayFail(rs, ready, u, ms, i)
    <3>1. \A j \in Images : img[j].failed => img[j].turn = "none"
      BY <2>10 DEF PortsOk
    <3>2. \A j \in Images : Healthy(j) /\ j # i =>
            HealthyInv(j, img[j], events[j], rs[j], u, Gen, ms[j])
      BY <2>4, <2>10 DEF PortsOk
    <3> QED BY <2>3, <2>5, <2>6, <3>1, <3>2 DEF MayFail
  <2>12. ASSUME events[i] = <<>>
         PROVE  /\ HealthyInv(i, img[i], <<>>, rs[i], u, Gen, manifest[i])
                /\ u.phase = "compact" => Asked(i, u)
    BY <1>6, <2>10, <2>12 DEF PortsOk, Asked
  <2>13. CanSend(rs, u, ms, i, "published")
    BY <1>6, <2>3, <2>4, <2>12 DEF CanSend, EventOps
  <2> QED BY <1>6, <2>1, <2>2, <2>11, <2>13, SendInv
<1>7. CASE Send(o, i, "reclaimed") /\ UNCHANGED manifest
  <2>1. CanSend(rs, o, manifest, i, "reclaimed")
    BY <1>0, <1>2 DEF CanSend, EventOps
  <2> QED BY <1>1, <1>7, <2>1, SendInv
<1>8. CASE w = "rotation" /\ Send(o, i, "rotated") /\ UNCHANGED manifest
  <2>1. CanSend(rs, o, manifest, i, "rotated")
    BY <1>0, <1>2, <1>8 DEF CanSend, EventOps
  <2> QED BY <1>1, <1>8, <2>1, SendInv
<1>9. CASE Fails(o, i) /\ UNCHANGED manifest
  BY <1>1, <1>9, FailsInv
<1>10. CASE Send(o, i, "deferred") /\ UNCHANGED manifest
  <2>1. CanSend(rs, o, manifest, i, "deferred")
    BY <1>0, <1>2, <1>3 DEF CanSend, EventOps
  <2> QED BY <1>1, <1>10, <2>1, SendInv
<1> QED
  BY <1>4, <1>5, <1>6, <1>7, <1>8, <1>9, <1>10
     DEF Proceed, Compacts, Reclaims, Rotates, Defers

\* The two answers to Quiesce, as steps.
Quiesces(i, o, rs) ==
  /\ owner.event = "quiesce" /\ replies[i] # <<>> /\ Head(replies[i]).op = "quiesced"
  /\ owner' = [o EXCEPT !.quiescent[i] = Gen, !.uncertain = FALSE]
  /\ replies' = rs /\ UNCHANGED <<img, events, host, ready, manifest>>
  /\ excused' \in BOOLEAN
PutsOff(i, o, rs) ==
  /\ owner.event = "quiesce" /\ replies[i] # <<>> /\ Head(replies[i]).op = "deferred"
  /\ Fails([o EXCEPT !.uncertain = FALSE], i)
  /\ replies' = rs /\ UNCHANGED <<ready, manifest>> /\ excused' \in BOOLEAN

\* An acknowledgement of this pause is recorded.
LEMMA QuiescedInv ==
  ASSUME Waiting, NEW i, NEW o, NEW rs, Hears(i, o, rs),
         Quiesces(i, o, rs)
  PROVE  ExchangeInv'
<1>1. /\ i \in Images /\ i = owner.image /\ i # 0 /\ rs[i] = <<>>
      /\ o \in OwnerType /\ o.phase = owner.phase /\ o.event = "none" /\ o.image = 0
      /\ o.operation = owner.operation /\ o.target = owner.target /\ o.todo = owner.todo
      /\ o.uncertain = owner.uncertain /\ o.advanced = owner.advanced
      /\ o.quiescent = owner.quiescent
      /\ OwnerOk(owner) /\ QuiescentOk(owner)
      /\ Healthy(i) =>
           /\ HealthyInv(i, img[i], events[i], replies[i], owner, Gen, manifest[i])
           /\ img[i].up # "new"
      /\ MayFail(rs, ready, o, manifest, i)
  BY DEF Hears
<1>0. /\ owner.event = "quiesce" /\ replies[i] # <<>> /\ Head(replies[i]).op = "quiesced"
      /\ owner' = [o EXCEPT !.quiescent[i] = Gen, !.uncertain = FALSE]
      /\ replies' = rs /\ UNCHANGED <<img, events, host, ready, manifest>>
      /\ excused' \in BOOLEAN
  BY DEF Quiesces
<1>2. owner.phase = "quiesce"
  BY <1>0, <1>1 DEF OwnerOk
<1>3. /\ TypeOk(rs, ready, o, manifest) /\ OwnerOk(o) /\ PauseOk(ready, o) /\ QuiescentOk(o)
      /\ host \in HostType /\ Gen \in Nat
      /\ \A j \in Images : img[j].failed => img[j].turn = "none"
      /\ \A j \in Images : Healthy(j) /\ j # i =>
           HealthyInv(j, img[j], events[j], rs[j], o, Gen, manifest[j])
  BY <1>1 DEF MayFail, TypeOk, HostType, Gen
<1>4. PICK a : a = [o.quiescent EXCEPT ![i] = Gen]
  OBVIOUS
<1>5. a \in [Images -> Nat] /\ a[i] = Gen /\ \A j \in Images \ {i} : a[j] = o.quiescent[j]
  BY <1>1, <1>3, <1>4 DEF OwnerType
<1>6. PICK u : u = [o EXCEPT !.quiescent = a, !.uncertain = FALSE]
  OBVIOUS
<1>7. /\ u \in OwnerType /\ u.phase = "quiesce" /\ u.event = "none" /\ u.image = 0
      /\ u.operation = o.operation /\ u.target = o.target /\ u.todo = o.todo
      /\ u.quiescent = a
  BY <1>1, <1>2, <1>5, <1>6 DEF OwnerType
<1>8. owner' = u
  BY <1>0, <1>1, <1>4, <1>6 DEF OwnerType
<1>9. TypeOk(rs, ready, u, manifest) /\ OwnerOk(u)
  BY <1>3, <1>7 DEF TypeOk, OwnerOk
<1>10. PauseOk(ready, u)
  BY <1>1, <1>2, <1>3, <1>7 DEF PauseOk
<1>11. QuiescentOk(u)
  <2>1. ~host.gate => i \notin o.todo
    BY <1>0, <1>1, <1>2 DEF QuiescentOk
  <2> SUFFICES ASSUME ~host.gate PROVE QuiescentOk(u)
    BY DEF QuiescentOk
  <2>2. /\ \A j \in Images : o.quiescent[j] \in {0, Gen}
        /\ \A j \in o.todo : o.quiescent[j] = 0
    BY <1>1, <1>2, <1>3 DEF QuiescentOk
  <2>3. u.todo \subseteq Images
    BY <1>7 DEF OwnerType
  <2>4. \A j \in Images : u.quiescent[j] \in {0, Gen}
    BY <1>5, <1>7, <2>2
  <2>5. \A j \in u.todo : u.quiescent[j] = 0
    BY <1>5, <1>7, <2>1, <2>2, <2>3
  <2>6. "quiesce" \in Pausing \ {"drain"}
    BY DEF Pausing, Phases
  <2> QED BY <1>7, <2>4, <2>5, <2>6 DEF QuiescentOk
<1>12. ASSUME NEW j \in Images, Healthy(j), j # i
       PROVE  HealthyInv(j, img[j], events[j], rs[j], u, Gen, manifest[j])
  <2>1. HealthyInv(j, img[j], events[j], rs[j], o, Gen, manifest[j])
    BY <1>3, <1>12
  <2>2. j # 0 /\ (Asked(j, u) => Asked(j, o)) /\ u.quiescent[j] = o.quiescent[j]
    BY <1>1, <1>2, <1>5, <1>7, <1>12, ImagesNat DEF Asked
  <2> QED BY <1>1, <1>7, <2>1, <2>2, OtherPort
<1>13. ASSUME Healthy(i)
       PROVE  HealthyInv(i, img[i], events[i], <<>>, u, Gen, manifest[i])
  <2>1. HealthyInv(i, img[i], events[i], replies[i], owner, Gen, manifest[i])
        /\ img[i].up # "new"
    BY <1>1, <1>13
  <2>2. img[i].entries = 0 /\ img[i].durable = img[i].issued
    BY <1>0, <2>1 DEF HealthyInv
  <2>3. ASSUME img[i].up = "on" PROVE OnInv(i, img[i], events[i], <<>>, u, Gen)
    <3>1. OnInv(i, img[i], events[i], replies[i], owner, Gen)
      BY <2>1, <2>3 DEF HealthyInv
    <3>2. events[i] = <<>> /\ img[i].gen = Gen /\ img[i].acked /\ img[i].turn = "none"
      BY <1>0, <3>1 DEF OnInv
    <3> QED BY <1>5, <1>7, <3>2 DEF OnInv
  <2> QED BY <1>1, <1>7, <2>1, <2>2, <2>3 DEF HealthyInv
<1>14. PortsOk(rs, u, manifest)
  BY <1>1, <1>3, <1>12, <1>13 DEF PortsOk
<1>15. ExchangeAt(rs, ready, u, manifest)
  BY <1>9, <1>10, <1>11, <1>14 DEF ExchangeAt
<1>16. HostKept /\ host'.gate = host.gate
  BY <1>0, <1>3 DEF HostKept
<1> QED BY <1>0, <1>8, <1>15, <1>16, MoveInv

\* An image with a new segment to prepare defers the pause, which is given up.
LEMMA DeferredInv ==
  ASSUME Waiting, NEW i, NEW o, NEW rs, Hears(i, o, rs),
         PutsOff(i, o, rs)
  PROVE  ExchangeInv'
<1>1. /\ i \in Images /\ i = owner.image /\ i # 0 /\ rs[i] = <<>>
      /\ o \in OwnerType /\ o.phase = owner.phase /\ o.event = "none" /\ o.image = 0
      /\ o.operation = owner.operation /\ o.target = owner.target /\ o.todo = owner.todo
      /\ o.uncertain = owner.uncertain /\ o.advanced = owner.advanced
      /\ o.quiescent = owner.quiescent
      /\ OwnerOk(owner) /\ QuiescentOk(owner)
      /\ Healthy(i) =>
           /\ HealthyInv(i, img[i], events[i], replies[i], owner, Gen, manifest[i])
           /\ img[i].up # "new"
      /\ MayFail(rs, ready, o, manifest, i)
  BY DEF Hears
<1>0. /\ owner.event = "quiesce" /\ replies[i] # <<>> /\ Head(replies[i]).op = "deferred"
      /\ Fails([o EXCEPT !.uncertain = FALSE], i)
      /\ replies' = rs /\ UNCHANGED <<ready, manifest>> /\ excused' \in BOOLEAN
  BY DEF PutsOff
<1>2. owner.phase = "quiesce"
  BY <1>0, <1>1 DEF OwnerOk
<1>3. PICK u : u = [o EXCEPT !.uncertain = FALSE]
  OBVIOUS
<1>4. /\ u \in OwnerType /\ u.phase = "quiesce" /\ u.event = "none" /\ u.image = 0
      /\ u.operation = o.operation /\ u.target = o.target /\ u.todo = o.todo
      /\ u.quiescent = o.quiescent
  BY <1>1, <1>2, <1>3 DEF OwnerType
<1>5. /\ TypeOk(rs, ready, o, manifest) /\ OwnerOk(o) /\ PauseOk(ready, o) /\ QuiescentOk(o)
      /\ \A j \in Images : img[j].failed => img[j].turn = "none"
      /\ \A j \in Images : Healthy(j) /\ j # i =>
           HealthyInv(j, img[j], events[j], rs[j], o, Gen, manifest[j])
  BY <1>1 DEF MayFail
<1>6. TypeOk(rs, ready, u, manifest) /\ OwnerOk(u)
  BY <1>4, <1>5 DEF TypeOk, OwnerOk
<1>7. PauseOk(ready, u) /\ QuiescentOk(u)
  BY <1>1, <1>2, <1>4, <1>5 DEF PauseOk, QuiescentOk
<1>8. PICK v : v = GaveUp(u)
  OBVIOUS
<1>9. v.phase = "unnotify" /\ v.image = 0 /\ v.quiescent = owner.quiescent
  BY <1>1, <1>4, <1>8 DEF GaveUp, OwnerType
<1>10. \A j \in Images : ~Asked(j, v) /\ j # 0
  BY <1>9, ImagesNat DEF Asked
<1>11. ASSUME NEW j \in Images, Healthy(j), j # i
       PROVE  /\ HealthyInv(j, img[j], events[j], rs[j], u, Gen, manifest[j])
              /\ HealthyInv(j, img[j], events[j], rs[j], v, Gen, manifest[j])
  <2>1. HealthyInv(j, img[j], events[j], rs[j], o, Gen, manifest[j]) /\ j # 0
    BY <1>5, <1>10, <1>11
  <2>2. Asked(j, u) => Asked(j, o)
    BY <1>1, <1>2, <1>4 DEF Asked
  <2>3. HealthyInv(j, img[j], events[j], rs[j], u, Gen, manifest[j])
    BY <1>1, <1>4, <2>1, <2>2, OtherPort
  <2>4. HealthyInv(j, img[j], events[j], rs[j], v, Gen, manifest[j])
    BY <1>1, <1>9, <1>10, <2>1, OtherPort
  <2> QED BY <2>3, <2>4
<1>12. ASSUME Healthy(i)
       PROVE  HealthyInv(i, img[i], events[i], <<>>, v, Gen, manifest[i])
  <2>1. HealthyInv(i, img[i], events[i], replies[i], owner, Gen, manifest[i])
    BY <1>1, <1>12
  <2>2. img[i].up = "on" => events[i] = <<>> /\ (img[i].gen = 0 \/ img[i].acked)
    BY <1>0, <2>1 DEF HealthyInv, OnInv
  <2> QED BY <1>1, <1>9, <1>10, <2>1, <2>2, HeardPort
<1>13. MayFail(rs, ready, u, manifest, i)
  <2>1. ASSUME NEW j \in Images, Healthy(j)
        PROVE  /\ j # i => HealthyInv(j, img[j], events[j], rs[j], u, Gen, manifest[j])
               /\ HealthyInv(j, img[j], events[j], rs[j], GaveUp(u), Gen, manifest[j])
    BY <1>1, <1>8, <1>11, <1>12, <2>1
  <2> QED BY <1>1, <1>4, <1>5, <1>6, <1>7, <2>1 DEF MayFail
<1> QED BY <1>0, <1>3, <1>13, FailsInv

\* Every reply, the awaited one or another.
LEMMA ReceiveInv ==
  ASSUME ExchangeInv, Receive PROVE ExchangeInv'
<1>1. PICK i : i = owner.image
  OBVIOUS
<1>2. PICK o : o = [owner EXCEPT !.event = "none", !.image = 0]
  OBVIOUS
<1>3. PICK rs : rs = [replies EXCEPT ![i] = <<>>]
  OBVIOUS
<1>4. PICK r, e : r = Head(replies[i]) /\ e = owner.event
  OBVIOUS
<1>5. /\ Waiting /\ replies[i] # <<>> /\ replies' = rs /\ UNCHANGED <<ready, excused>>
      /\ e # "none"
  BY <1>1, <1>3, <1>4 DEF Receive, Waiting
<1>0. Hears(i, o, rs)
  BY <1>1, <1>2, <1>3, <1>5, Heard
<1>6. /\ i \in Images /\ i # 0 /\ rs[i] = <<>>
      /\ o \in OwnerType /\ o.phase = owner.phase /\ o.event = "none" /\ o.image = 0
      /\ o.quiescent = owner.quiescent
      /\ OwnerOk(owner) /\ QuiescentOk(owner)
      /\ Healthy(i) =>
           /\ HealthyInv(i, img[i], events[i], replies[i], owner, Gen, manifest[i])
           /\ img[i].up # "new"
      /\ MayFail(rs, ready, o, manifest, i)
  BY <1>0 DEF Hears
<1>7. excused' \in BOOLEAN /\ host \in HostType /\ owner \in OwnerType
  BY <1>5 DEF ExchangeInv, TypeInv, TypeOk
<1>8. ASSUME Healthy(i), img[i].up = "on"
      PROVE  \/ events[i] = <<>>
             \/ /\ r.op = "applied" /\ e \in Overtaking
                /\ owner.quiescent[i] = 0
  BY <1>1, <1>4, <1>5, <1>6, <1>8 DEF HealthyInv, OnInv, Overtaking
<1>9. CASE Fails(o, i) /\ UNCHANGED manifest
  BY <1>5, <1>6, <1>7, <1>9, FailsInv
<1>10. CASE ~Attached(i) /\ Pass(o, i, o) /\ UNCHANGED manifest
  <2>1. img[i].up # "on"
    BY <1>10 DEF Attached
  <2>2. ExchangeAt(rs, ready, o, manifest)
    BY <1>0, <1>5, <2>1, Concluded
  <2> QED BY <1>5, <1>6, <1>7, <1>10, <2>2, PassInv
<1>11. CASE r.op \in Expected[e] /\ o.phase \in {"turn", "compact"} /\ Proceed(o, i, e, r.op)
  <2>1. ASSUME Healthy(i), img[i].up = "on"
        PROVE  events[i] = <<>> \/ (owner.event = "deferred" /\ owner.quiescent[i] = 0)
    BY <1>4, <1>8, <1>11, <2>1, ExpectedIs DEF Overtaking
  <2>2. ExchangeAt(rs, ready, o, manifest)
    BY <1>0, <1>5, <1>6, <1>11, <2>1, Concluded
  <2>3. ~host.gate /\ o.phase = "compact" => o.quiescent[i] # 0
    BY <1>1, <1>4, <1>5, <1>6 DEF QuiescentOk
  <2>4. r.op = "rotation" => o.phase = "turn"
    BY <1>4, <1>5, <1>6, <1>7, <1>11, ExpectedIs DEF OwnerOk, OwnerType, EventOps
  <2>5. r.op = "selected" /\ Healthy(i) => img[i].up = "on" /\ img[i].active
    BY <1>4, <1>5, <1>6 DEF HealthyInv
  <2> QED BY <1>5, <1>6, <1>7, <1>11, <2>2, <2>3, <2>4, <2>5, ProceedInv
<1>12. CASE /\ r.op = "applied"
            /\ o.phase \in {"drain", "settle", "unnotify", "resume", "unresume"}
            /\ owner' = o /\ UNCHANGED <<img, events, host, manifest>>
  <2>1. ASSUME Healthy(i), img[i].up = "on"
        PROVE  events[i] = <<>> \/ (owner.event = "deferred" /\ owner.quiescent[i] = 0)
    BY <1>4, <1>5, <1>6, <1>8, <1>12, <2>1 DEF Overtaking, OwnerOk
  <2>2. ExchangeAt(rs, ready, o, manifest)
    BY <1>0, <1>5, <1>6, <1>12, <2>1, Concluded
  <2>3. HostKept /\ host'.gate = host.gate
    BY <1>7, <1>12 DEF HostKept
  <2> QED BY <1>5, <1>7, <1>12, <2>2, <2>3, MoveInv
<1>13. CASE /\ r.op = "quiesced" /\ e = "quiesce"
            /\ owner' = [o EXCEPT !.quiescent[i] = Gen, !.uncertain = FALSE]
            /\ UNCHANGED <<img, events, host, manifest>>
  <2>1. Quiesces(i, o, rs)
    BY <1>4, <1>5, <1>7, <1>13 DEF Quiesces
  <2> QED BY <1>0, <1>5, <2>1, QuiescedInv
<1>14. CASE /\ e = "quiesce" /\ r.op = "deferred"
            /\ Fails([o EXCEPT !.uncertain = FALSE], i) /\ UNCHANGED manifest
  <2>1. PutsOff(i, o, rs)
    BY <1>4, <1>5, <1>7, <1>14 DEF PutsOff
  <2> QED BY <1>0, <1>5, <2>1, DeferredInv
<1> QED
  BY <1>1, <1>2, <1>4, <1>9, <1>10, <1>11, <1>12, <1>13, <1>14 DEF Receive

-----------------------------------------------------------------------------
(* The invariant holds, and what it gives.                                 *)

\* No image is attached yet and the owner is idle.
LEMMA InitInv == Init => ExchangeInv
<1> SUFFICES ASSUME Init PROVE ExchangeInv
  OBVIOUS
<1>1. /\ \A i \in Images :
           /\ img[i] \in PortType /\ img[i].up = "new" /\ ~img[i].failed
           /\ img[i].entries = 0 /\ img[i].compacted = 0 /\ img[i].gen = 0
           /\ img[i].turn = "none" /\ events[i] = <<>> /\ replies[i] = <<>>
           /\ manifest[i] = 0
      /\ img \in [Images -> PortType] /\ manifest \in [Images -> Nat]
  BY DEF Init, PortType
<1>2. /\ owner.phase = "idle" /\ owner.event = "none" /\ owner.image = 0
      /\ owner.operation = "none"
      /\ \A i \in Images : owner.quiescent[i] = 0
      /\ owner \in OwnerType
  BY DEF Init, OwnerType, Phases
<1>3. host \in HostType /\ ready = <<>> /\ excused \in BOOLEAN
  <2>1. [admin |-> MaxAdmin, mutate |-> MaxMutations, rotate |-> MaxRotations]
          \in [admin : Int, mutate : Int, rotate : Int]
    BY ExchangeConstants
  <2> QED BY <2>1 DEF Init, HostType
<1>4. /\ events \in [Images -> Slots(EventType)]
      /\ replies \in [Images -> Slots(ReplyType)]
  BY SlotOf DEF Init
<1>5. TypeInv
  BY <1>1, <1>2, <1>3, <1>4 DEF TypeInv, TypeOk
<1>6. OwnerInv
  BY <1>2 DEF OwnerInv, OwnerOk
<1>7. PauseInv
  BY <1>2, <1>3 DEF PauseInv, PauseOk, Pausing
<1>8. QuiescentInv
  BY <1>2 DEF QuiescentInv, QuiescentOk
<1>9. PortInv
  <2>1. ASSUME NEW i \in Images
        PROVE  HealthyInv(i, img[i], events[i], replies[i], owner, Gen, manifest[i])
    BY <1>1, <1>2, ImagesNat DEF HealthyInv
  <2> QED BY <1>1, <2>1 DEF PortInv, PortsOk
<1> QED BY <1>5, <1>6, <1>7, <1>8, <1>9 DEF ExchangeInv

\* Every step keeps it.
LEMMA NextInv == ExchangeInv /\ CheckedInv /\ [Next]_vars => ExchangeInv'
<1> SUFFICES ASSUME ExchangeInv, CheckedInv, [Next]_vars PROVE ExchangeInv'
  OBVIOUS
<1>1. CASE Environment
  <2>1. CASE \E i \in Images : Attach(i) \/ Enter(i) \/ CancelRollover(i) \/ Exit(i)
                                 \/ FailImage(i) \/ Overdue(i)
    BY <2>1, AttachInv, EnterInv, CancelRolloverInv, ExitInv, FailImageInv, OverdueInv
  <2>2. CASE \E i \in Images, kind \in {"roll", "fresh"} : Rotate(i, kind)
    BY <2>2, RotateInv
  <2>3. CASE Request("collect", 0) \/ \E i \in Images : Request("snapshot", i)
    BY <2>3, RequestInv DEF Operations
  <2>4. CASE Pressure \/ DrainExpired \/ Shutdown
    BY <2>4, PressureInv, DrainExpiredInv, ShutdownInv
  <2> QED BY <1>1, <2>1, <2>2, <2>3, <2>4 DEF Environment
<1>2. CASE OwnerStep
  <2>1. CASE AutoCollect \/ TakeReady \/ Receive \/ Unanswered \/ DrainReady \/ Drained
    BY <2>1, AutoCollectInv, TakeReadyInv, ReceiveInv, UnansweredInv, DrainReadyInv,
       DrainedInv
  <2>2. CASE Quiesce \/ Begin \/ Collect \/ CompactNext
    BY <2>2, QuiesceInv, BeginInv, CollectInv, CompactNextInv
  <2>3. CASE Snapshot \/ Resume \/ Unwind \/ Ends
    BY <2>3, SnapshotInv, ResumeInv, UnwindInv, EndsInv
  <2> QED BY <1>2, <2>1, <2>2, <2>3 DEF OwnerStep
<1>3. CASE \E i \in Images : Reactor(i)
  <2> PICK i \in Images : Reactor(i)
    BY <1>3
  <2>1. CASE Leave(i) \/ Fence(i) \/ ChooseTurn(i) \/ Queue(i)
    BY <2>1, LeaveInv, FenceInv, ChooseTurnInv, QueueInv
  <2>2. CASE Acknowledge(i) \/ Poll(i) \/ Disconnect(i)
    BY <2>2, AcknowledgeInv, PollInv, DisconnectInv
  <2> QED BY <2>1, <2>2 DEF Reactor
<1>4. CASE UNCHANGED vars
  BY <1>4 DEF vars, ExchangeInv, TypeInv, TypeOk, OwnerInv, OwnerOk, PauseInv, PauseOk,
     Entered, QuiescentInv, QuiescentOk, PortInv, PortsOk, Healthy, Gen
<1> QED BY <1>1, <1>2, <1>3, <1>4 DEF Next

-----------------------------------------------------------------------------
(* A snapshot's cut, whatever becomes of its image after it acknowledged.  *)

LEMMA InitCut ==
  ASSUME Init PROVE CutInv
<1>1. /\ owner.phase = "idle" /\ ~owner.checked /\ Gen = 0
      /\ \A i \in Images : owner.quiescent[i] = 0 /\ replies[i] = <<>>
  BY DEF Init, Gen
<1> QED BY <1>1 DEF CutInv, CheckedInv, CutOf, Pausing, Phases

\* What the cut reads of the ports: an entry may be dropped.
PortsSame ==
  \A i \in Images :
    /\ img'[i].entries \in {img[i].entries, 0} /\ img'[i].issued = img[i].issued
    /\ img'[i].durable = img[i].durable /\ img'[i].compacted = img[i].compacted

\* Replies are taken, or are those of a failing image.
RepliesQuiet ==
  \A i \in Images : \/ replies'[i] \in {replies[i], <<>>}
                    \/ Head(replies'[i]).op = "failed"

\* What the owner may become without starting a pause or checking an image.
OwnerQuiet(o, q) ==
  /\ q.phase \in Pausing => o.phase \in Pausing
  /\ (o.checked => o.phase \in Checking) /\ q.checked =>
       /\ o.checked /\ q.phase \in Checking
       /\ q.phase # "resume" =>
            o.phase # "resume" /\ q.target = o.target /\ q.quiescent = o.quiescent

\* Acknowledgements are given up, or are those a reply brings.
AcksQuiet ==
  \A i \in Images : \/ owner'.quiescent[i] \in {owner.quiescent[i], 0}
                    \/ owner'.quiescent[i] = Gen /\ Acked(i)

\* The root of this pause its image has not heard of.
Untold(i) ==
  /\ owner.phase = "compact" /\ owner.image = i /\ owner.event = "published"
  /\ replies[i] = <<>> \/ Head(replies[i]).op = "failed"

\* Such a step keeps the cut.
LEMMA CutStep ==
  ASSUME ExchangeInv, CutInv, PortsSame, RepliesQuiet, AcksQuiet,
         OwnerQuiet(owner, owner'),
         \A i \in Images : owner'.phase \in Pausing /\ Untold(i) => Untold(i)',
         Gen' = Gen, UNCHANGED manifest
  PROVE  CutInv'
<1>1. CheckedInv'
  BY DEF CutInv, CheckedInv, OwnerQuiet, Checking
<1>2. Gen \in Nat /\ (owner.phase \in Pausing => Gen > 0)
  BY DEF ExchangeInv, TypeInv, TypeOk, HostType, PauseInv, PauseOk, Gen
<1>3. ASSUME NEW i \in Images PROVE CutOf(i)'
  <2>1. CutOf(i) /\ owner.quiescent[i] \in Nat
    BY DEF CutInv, ExchangeInv, TypeInv, TypeOk, OwnerType
  <2>2. \/ owner'.quiescent[i] \in {owner.quiescent[i], 0}
        \/ owner'.quiescent[i] = Gen /\ Acked(i)
    BY DEF AcksQuiet
  <2>3. replies'[i] \in {replies[i], <<>>} \/ Head(replies'[i]).op = "failed"
    BY DEF RepliesQuiet
  <2>4. owner'.quiescent[i] <= Gen
    BY <1>2, <2>1, <2>2 DEF CutOf
  <2>5. /\ img'[i].entries \in {img[i].entries, 0} /\ img'[i].issued = img[i].issued
        /\ img'[i].durable = img[i].durable /\ img'[i].compacted = img[i].compacted
    BY DEF PortsSame
  <2>6. ASSUME owner'.phase \in Pausing, Acked(i)' PROVE Settled(i)'
    <3>1. owner.phase \in Pausing
      BY <2>6 DEF OwnerQuiet
    <3>2. Acked(i)
      BY <1>2, <2>2, <2>3, <2>6, <3>1 DEF Acked
    <3>3. Settled(i)
      BY <2>1, <3>1, <3>2 DEF CutOf
    <3>4. Untold(i) => Untold(i)'
      BY <2>6
    <3> QED BY <2>5, <3>3, <3>4 DEF Settled, Untold
  <2> QED BY <2>1, <2>3, <2>4, <2>6 DEF CutOf
<1> QED BY <1>1, <1>3 DEF CutInv

\* Outside a pause nothing is to be kept but the generations.
LEMMA CutIdle ==
  ASSUME ExchangeInv, CutInv, RepliesQuiet, owner'.phase \notin Pausing,
         owner'.quiescent = owner.quiescent, ~owner'.checked, Gen' = Gen
  PROVE  CutInv'
<1>1. CheckedInv'
  BY DEF CheckedInv
<1>2. ASSUME NEW i \in Images PROVE CutOf(i)'
  <2>1. CutOf(i)
    BY DEF CutInv
  <2>2. replies'[i] \in {replies[i], <<>>} \/ Head(replies'[i]).op = "failed"
    BY DEF RepliesQuiet
  <2> QED BY <2>1, <2>2 DEF CutOf
<1> QED BY <1>1, <1>2 DEF CutInv

\* The owner is left alone.
LEMMA SameOwner ==
  ASSUME RepliesQuiet, owner' = owner
  PROVE  /\ OwnerQuiet(owner, owner') /\ AcksQuiet
         /\ \A i \in Images : Untold(i) => Untold(i)'
BY DEF OwnerQuiet, AcksQuiet, RepliesQuiet, Untold

\* One port is rewritten.
LEMMA CutPort ==
  ASSUME ExchangeInv, CutInv, NEW i \in Images, NEW p, img' = [img EXCEPT ![i] = p],
         p.entries \in {img[i].entries, 0}, p.issued = img[i].issued,
         p.durable = img[i].durable, p.compacted = img[i].compacted,
         RepliesQuiet, owner' = owner, Gen' = Gen, UNCHANGED manifest
  PROVE  CutInv'
<1>1. PortsSame
  BY DEF PortsSame, ExchangeInv, TypeInv, TypeOk
<1> QED BY <1>1, SameOwner, CutStep

\* What is left of a port keeps its log.
LEMMA LeftKeeps ==
  ASSUME NEW p \in PortType, NEW up
  PROVE  /\ Left(p, up).entries = 0 /\ Left(p, up).issued = p.issued
         /\ Left(p, up).durable = p.durable /\ Left(p, up).compacted = p.compacted
         /\ Failed(p, up).entries = 0 /\ Failed(p, up).issued = p.issued
         /\ Failed(p, up).durable = p.durable /\ Failed(p, up).compacted = p.compacted
BY DEF Left, Failed, PortType

\* A failing image, and one that leaves.
LEMMA AbortCut ==
  ASSUME ExchangeInv, CutInv, NEW i \in Images, NEW up, Abort(i, up),
         owner' = owner, Gen' = Gen, UNCHANGED manifest
  PROVE  CutInv'
<1>1. PICK p : p = Failed(img[i], up)
  OBVIOUS
<1>2. /\ img' = [img EXCEPT ![i] = p] /\ p.entries = 0 /\ p.issued = img[i].issued
      /\ p.durable = img[i].durable /\ p.compacted = img[i].compacted
  BY <1>1, PortOf, LeftKeeps DEF Abort
<1>3. RepliesQuiet
  <2>1. replies' = replies \/ replies' = [replies EXCEPT ![i] = <<Reply("failed", "abort", 0)>>]
    BY DEF Abort
  <2>2. Head(<<Reply("failed", "abort", 0)>>).op = "failed"
    BY DEF Reply
  <2> QED BY <2>1, <2>2 DEF RepliesQuiet, ExchangeInv, TypeInv, TypeOk
<1> QED BY <1>2, <1>3, CutPort

LEMMA ImageCut ==
  ASSUME ExchangeInv, CutInv, NEW i \in Images,
         \/ Attach(i) \/ CancelRollover(i) \/ Exit(i) \/ ChooseTurn(i) \/ FailImage(i)
         \/ Overdue(i)
         \/ \E kind \in {"roll", "fresh"} : Rotate(i, kind)
  PROVE  CutInv'
<1>0. /\ img[i] \in PortType /\ host \in HostType
  BY PortOf
<1>1. CASE FailImage(i) \/ Overdue(i)
  <2>1. owner' = owner /\ UNCHANGED manifest /\ \E up : Abort(i, up)
    BY <1>1 DEF FailImage, Overdue
  <2>2. Gen' = Gen
    BY <1>0, <1>1 DEF FailImage, Overdue, Gen, HostType
  <2> QED BY <2>1, <2>2, AbortCut
<1>2. CASE Attach(i) \/ CancelRollover(i) \/ Exit(i) \/ ChooseTurn(i)
  <2>1. /\ owner' = owner /\ UNCHANGED <<manifest, host, replies>>
    BY <1>2 DEF Attach, CancelRollover, Exit, ChooseTurn
  <2>2. PICK p : /\ img' = [img EXCEPT ![i] = p] /\ p.entries \in {img[i].entries, 0}
                 /\ p.issued = img[i].issued /\ p.durable = img[i].durable
                 /\ p.compacted = img[i].compacted
    <3>1. CASE Attach(i)
      <4>1. img' = [img EXCEPT ![i] = [img[i] EXCEPT !.up = "on"]]
        BY <3>1 DEF Attach
      <4>2. PICK p : p = [img[i] EXCEPT !.up = "on"]
        OBVIOUS
      <4>3. /\ p.entries = img[i].entries /\ p.issued = img[i].issued
            /\ p.durable = img[i].durable /\ p.compacted = img[i].compacted
        BY <1>0, <4>2 DEF PortType
      <4> QED BY <4>1, <4>2, <4>3
    <3>2. CASE CancelRollover(i)
      <4>1. img' = [img EXCEPT ![i] = [img[i] EXCEPT !.rotation = "none"]]
        BY <3>2 DEF CancelRollover
      <4>2. PICK p : p = [img[i] EXCEPT !.rotation = "none"]
        OBVIOUS
      <4>3. /\ p.entries = img[i].entries /\ p.issued = img[i].issued
            /\ p.durable = img[i].durable /\ p.compacted = img[i].compacted
        BY <1>0, <4>2 DEF PortType
      <4> QED BY <4>1, <4>2, <4>3
    <3>3. CASE Exit(i)
      BY <1>0, <3>3, LeftKeeps DEF Exit
    <3>4. CASE ChooseTurn(i)
      <4>1. PICK turn \in {"rotate", "compact"} :
              img' = [img EXCEPT ![i] = [img[i] EXCEPT !.turn = turn]]
        BY <3>4 DEF ChooseTurn
      <4>2. PICK p : p = [img[i] EXCEPT !.turn = turn]
        OBVIOUS
      <4>3. /\ p.entries = img[i].entries /\ p.issued = img[i].issued
            /\ p.durable = img[i].durable /\ p.compacted = img[i].compacted
        BY <1>0, <4>2 DEF PortType
      <4> QED BY <4>1, <4>2, <4>3
    <3> QED BY <1>2, <3>1, <3>2, <3>3, <3>4
  <2>3. RepliesQuiet /\ Gen' = Gen
    BY <2>1 DEF RepliesQuiet, Gen
  <2> QED BY <2>1, <2>2, <2>3, CutPort
<1>3. ASSUME NEW kind \in {"roll", "fresh"}, Rotate(i, kind) PROVE CutInv'
  <2>0. PICK turn : turn = IF img[i].active \/ host.paused THEN "none" ELSE "rotate"
    OBVIOUS
  <2>1. img' = [img EXCEPT ![i] = [img[i] EXCEPT !.rotation = kind, !.turn = turn]]
    BY <1>3, <2>0 DEF Rotate
  <2>2. /\ owner' = owner /\ UNCHANGED <<manifest, replies>>
        /\ host' = [host EXCEPT !.left.rotate = @ - 1]
    BY <1>3 DEF Rotate
  <2>3. PICK p : p = [img[i] EXCEPT !.rotation = kind, !.turn = turn]
    OBVIOUS
  <2>4. /\ p.entries = img[i].entries /\ p.issued = img[i].issued
        /\ p.durable = img[i].durable /\ p.compacted = img[i].compacted
    BY <1>0, <2>3 DEF PortType
  <2>5. RepliesQuiet /\ Gen' = Gen
    BY <1>0, <2>2 DEF RepliesQuiet, Gen, HostType
  <2> QED BY <2>1, <2>2, <2>3, <2>4, <2>5, CutPort
<1> QED BY <1>1, <1>2, <1>3

\* A guest mutation: none is owned, and none enters, once its image acknowledged.
LEMMA GuestCut ==
  ASSUME ExchangeInv, CutInv, NEW i \in Images, Enter(i) \/ Leave(i) \/ Fence(i)
  PROVE  CutInv'
<1>0. /\ img[i] \in PortType /\ host \in HostType
      /\ owner' = owner /\ UNCHANGED <<manifest, replies>>
  BY PortOf DEF Enter, Leave, Fence
<1>1. Gen' = Gen
  BY <1>0 DEF Enter, Leave, Fence, Gen, HostType
<1>2. CheckedInv'
  BY <1>0, <1>1 DEF CutInv, CheckedInv
<1>3. ASSUME NEW j \in Images PROVE CutOf(j)'
  <2>1. CutOf(j)
    BY DEF CutInv
  <2>2. owner.phase \in Pausing /\ Acked(j) => Settled(j)'
    <3> SUFFICES ASSUME owner.phase \in Pausing, Acked(j) PROVE Settled(j)'
      OBVIOUS
    <3>1. Settled(j) /\ host.paused
      BY <2>1, PortOf DEF CutOf
    <3>2. CASE j = i
      <4>1. img[i].entries = 0 /\ img[i].durable = img[i].issued
        BY <3>1, <3>2 DEF Settled
      <4> QED BY <1>0, <3>1, <4>1 DEF Enter, Leave, Fence, PortType
    <3>3. CASE j # i
      <4>1. img'[j] = img[j]
        BY <3>3 DEF Enter, Leave, Fence, ExchangeInv, TypeInv, TypeOk
      <4> QED BY <1>0, <3>1, <4>1 DEF Settled
    <3> QED BY <3>2, <3>3
  <2> QED BY <1>0, <1>1, <2>1, <2>2 DEF CutOf, Acked
<1> QED BY <1>2, <1>3 DEF CutInv

\* A turn is queued, or the channels of an image close.
LEMMA PortCut ==
  ASSUME ExchangeInv, CutInv, NEW i \in Images, Queue(i) \/ Disconnect(i)
  PROVE  CutInv'
<1>0. img[i] \in PortType /\ owner' = owner /\ UNCHANGED <<manifest, host>>
  BY PortOf DEF Queue, Disconnect
<1>1. Gen' = Gen
  BY <1>0 DEF Gen
<1>2. CASE Abort(i, "stopped")
  BY <1>0, <1>1, <1>2, AbortCut
<1>3. CASE ~Abort(i, "stopped")
  <2>1. replies' = replies
    BY <1>3 DEF Queue, Disconnect
  <2>2. PICK p : /\ img' = [img EXCEPT ![i] = p] /\ p.entries = img[i].entries
                 /\ p.issued = img[i].issued /\ p.durable = img[i].durable
                 /\ p.compacted = img[i].compacted
    <3>1. CASE Queue(i)
      <4>1. img' = [img EXCEPT ![i] = [img[i] EXCEPT !.turn = "none", !.active = TRUE,
                                                     !.granted = FALSE]]
        BY <1>3, <3>1 DEF Queue
      <4>2. PICK p : p = [img[i] EXCEPT !.turn = "none", !.active = TRUE, !.granted = FALSE]
        OBVIOUS
      <4>3. /\ p.entries = img[i].entries /\ p.issued = img[i].issued
            /\ p.durable = img[i].durable /\ p.compacted = img[i].compacted
        BY <1>0, <4>2 DEF PortType
      <4> QED BY <4>1, <4>2, <4>3
    <3>2. CASE Disconnect(i)
      <4>1. PICK up \in {"detached", "off"} :
              img' = [img EXCEPT ![i] = [img[i] EXCEPT !.up = up]]
        BY <3>2 DEF Disconnect
      <4>2. PICK p : p = [img[i] EXCEPT !.up = up]
        OBVIOUS
      <4>3. /\ p.entries = img[i].entries /\ p.issued = img[i].issued
            /\ p.durable = img[i].durable /\ p.compacted = img[i].compacted
        BY <1>0, <4>2 DEF PortType
      <4> QED BY <4>1, <4>2, <4>3
    <3> QED BY <3>1, <3>2
  <2>3. RepliesQuiet
    BY <2>1 DEF RepliesQuiet
  <2> QED BY <1>0, <1>1, <2>2, <2>3, CutPort
<1> QED BY <1>2, <1>3

\* An acknowledgement is given once the log is fenced and no root is untold.
LEMMA AcknowledgeCut ==
  ASSUME ExchangeInv, CutInv, NEW i \in Images, Acknowledge(i) PROVE CutInv'
<1>0. /\ img[i] \in PortType /\ owner' = owner /\ UNCHANGED <<manifest, host>>
      /\ Gen \in Nat
  BY PortOf DEF Acknowledge, Gen
<1>1. Gen' = Gen
  BY <1>0 DEF Gen
<1>2. CASE replies[i] # <<>>
  BY <1>0, <1>1, <1>2, AbortCut DEF Acknowledge
<1>3. CASE replies[i] = <<>>
  <2>1. /\ Running(i) /\ img[i].gen # 0 /\ ~img[i].acked
        /\ img[i].entries = 0 /\ img[i].durable = img[i].issued
        /\ replies' = [replies EXCEPT ![i] = <<Reply("quiesced", "quiesce", img[i].gen)>>]
        /\ img' = [img EXCEPT ![i] = [img[i] EXCEPT !.acked = TRUE]]
    BY <1>3 DEF Acknowledge
  <2>2. /\ img'[i].entries = img[i].entries /\ img'[i].issued = img[i].issued
        /\ img'[i].durable = img[i].durable /\ img'[i].compacted = img[i].compacted
        /\ Head(replies'[i]) = Reply("quiesced", "quiesce", img[i].gen)
    BY <1>0, <2>1 DEF PortType, ExchangeInv, TypeInv, TypeOk
  <2>3. /\ HealthyInv(i, img[i], events[i], replies[i], owner, Gen, manifest[i])
        /\ OnInv(i, img[i], events[i], replies[i], owner, Gen)
    BY <2>1, PortOf DEF HealthyInv, Running, Healthy, Gen
  <2>4. img[i].gen = Gen /\ events[i] = <<>>
    BY <2>1, <2>3 DEF OnInv
  <2>5. manifest[i] = img[i].compacted
    BY <2>3, <2>4 DEF HealthyInv
  <2>6. Settled(i)' /\ Head(replies'[i]).gen = Gen
    BY <1>0, <2>1, <2>2, <2>4, <2>5 DEF Settled, Reply
  <2>7. ASSUME NEW j \in Images PROVE CutOf(j)'
    <3>1. CutOf(j)
      BY DEF CutInv
    <3>2. CASE j = i
      BY <1>0, <1>1, <2>6, <3>1, <3>2 DEF CutOf
    <3>3. CASE j # i
      <4>1. img'[j] = img[j] /\ replies'[j] = replies[j]
        BY <2>1, <3>3 DEF ExchangeInv, TypeInv, TypeOk
      <4> QED BY <1>0, <1>1, <3>1, <4>1 DEF CutOf, Acked, Settled
    <3> QED BY <3>2, <3>3
  <2>8. CheckedInv'
    BY <1>0, <1>1 DEF CutInv, CheckedInv
  <2> QED BY <2>7, <2>8 DEF CutInv
<1> QED BY <1>2, <1>3

\* A port answers: only the news of a published root moves its compacted prefix,
\* to that root.
LEMMA PollCut ==
  ASSUME ExchangeInv, CutInv, NEW i \in Images, Poll(i) PROVE CutInv'
<1>0. /\ img[i] \in PortType /\ owner' = owner /\ UNCHANGED <<manifest, host>>
      /\ events[i] # <<>> /\ img[i].up = "on" /\ ~img[i].failed
  BY PortOf DEF Poll
<1>1. Gen' = Gen
  BY <1>0 DEF Gen
<1>2. CASE Abort(i, "stopped")
  BY <1>0, <1>1, <1>2, AbortCut
<1>3. CASE host.gate
  <2>1. PICK p : p = Failed(img[i], "stopped")
    OBVIOUS
  <2>2. /\ img' = [img EXCEPT ![i] = p] /\ p.entries = 0 /\ p.issued = img[i].issued
        /\ p.durable = img[i].durable /\ p.compacted = img[i].compacted
    BY <1>0, <1>3, <2>1, LeftKeeps DEF Poll
  <2>3. RepliesQuiet
    <3>1. replies' = replies \/ replies' = [replies EXCEPT ![i] = <<Reply("failed", "abort", 0)>>]
      BY <1>3 DEF Poll
    <3>2. Head(<<Reply("failed", "abort", 0)>>).op = "failed"
      BY DEF Reply
    <3> QED BY <3>1, <3>2 DEF RepliesQuiet, ExchangeInv, TypeInv, TypeOk
  <2> QED BY <1>0, <1>1, <2>2, <2>3, CutPort
<1>4. CASE ~host.gate /\ ~Abort(i, "stopped")
  <2>1. PICK e : e = Head(events[i])
    OBVIOUS
  <2>2. PICK a \in Answers(img[i], e) :
          /\ a[2] # "error" /\ (a[2] = "later" \/ replies[i] = <<>>)
          /\ img' = [img EXCEPT ![i] = a[1]]
          /\ replies' = IF a[2] = "later" THEN replies
               ELSE [replies EXCEPT ![i] = <<Reply(a[2], e.op, 0)>>]
    BY <1>4, <2>1 DEF Poll
  <2>3. e \in EventType
    BY <1>0, <2>1, PortOf, SlotHead
  <2>4. PICK q, w : q = a[1] /\ w = a[2]
    OBVIOUS
  <2>5. Answered(img[i], e, q, w)
    BY <1>0, <2>2, <2>3, <2>4, AnswersAnswered
  <2>6. /\ HealthyInv(i, img[i], events[i], replies[i], owner, Gen, manifest[i])
        /\ OnInv(i, img[i], events[i], replies[i], owner, Gen)
    BY <1>0, <1>4, PortOf DEF HealthyInv, Gen
  <2>7. /\ q.entries = img[i].entries /\ q.issued = img[i].issued
        /\ q.durable = img[i].durable /\ w # "quiesced"
        /\ q.compacted = IF e.op = "published" THEN img[i].through ELSE img[i].compacted
    BY <2>5 DEF Answered
  <2>8. ASSUME owner.phase \in Pausing, Acked(i) PROVE Settled(i)'
    <3>1. Settled(i)
      BY <2>8 DEF CutInv, CutOf
    <3>2. img'[i] = q
      BY <2>2, <2>4 DEF ExchangeInv, TypeInv, TypeOk
    <3>3. CASE e.op = "published"
      BY <1>0, <2>1, <2>6, <2>7, <3>1, <3>2, <3>3 DEF HealthyInv, Settled
    <3>4. CASE e.op # "published"
      <4>1. manifest[i] = img[i].compacted
        BY <1>0, <2>1, <2>6, <3>4 DEF HealthyInv
      <4> QED BY <1>0, <2>7, <3>1, <3>2, <3>4, <4>1 DEF Settled
    <3> QED BY <3>3, <3>4
  <2>9. replies'[i] = replies[i] \/ Head(replies'[i]).op # "quiesced"
    BY <2>2, <2>4, <2>7 DEF Reply, ExchangeInv, TypeInv, TypeOk
  <2>10. CutOf(i)'
    <3>1. CutOf(i)
      BY DEF CutInv
    <3>2. Acked(i)' => Acked(i)
      BY <1>0, <1>1, <2>9 DEF Acked
    <3> QED BY <1>0, <1>1, <2>8, <2>9, <3>1, <3>2 DEF CutOf
  <2>11. ASSUME NEW j \in Images, j # i PROVE CutOf(j)'
    <3>1. img'[j] = img[j] /\ replies'[j] = replies[j]
      BY <2>2, <2>11 DEF ExchangeInv, TypeInv, TypeOk
    <3>2. CutOf(j)
      BY DEF CutInv
    <3> QED BY <1>0, <1>1, <3>1, <3>2 DEF CutOf, Acked, Settled
  <2>12. CheckedInv'
    BY <1>0, <1>1 DEF CutInv, CheckedInv
  <2> QED BY <2>10, <2>11, <2>12 DEF CutInv
<1> QED BY <1>2, <1>3, <1>4

-----------------------------------------------------------------------------
(* The owner's steps and the cut.                                          *)

\* What an error, an exchange and an image passed over leave of owner o.
LEMMA FailsQuiet ==
  ASSUME ExchangeInv, NEW o \in OwnerType, NEW i, o.phase = "turn" => i \in Images,
         Fails(o, i)
  PROVE  /\ OwnerQuiet(o, owner') /\ PortsSame /\ Gen' = Gen
         /\ owner'.quiescent = o.quiescent
         /\ owner'.phase \in Pausing => o.phase \in {"drain", "settle", "quiesce"}
<1>1. host \in HostType /\ img \in [Images -> PortType]
  BY DEF ExchangeInv, TypeInv, TypeOk
<1>2. CASE owner' = Idle(o)
  <2>1. /\ owner'.quiescent = o.quiescent /\ owner'.phase \notin Pausing
        /\ ~owner'.checked
    BY <1>2, IdleOwner DEF Pausing
  <2>2. PortsSame
    <3>1. CASE img' = img
      BY <3>1 DEF PortsSame
    <3>2. CASE o.phase = "turn" /\ img' = [img EXCEPT ![i] = Failed(img[i], img[i].up)]
      <4>1. PICK p : p = Failed(img[i], img[i].up)
        OBVIOUS
      <4>2. /\ p.entries = 0 /\ p.issued = img[i].issued
            /\ p.durable = img[i].durable /\ p.compacted = img[i].compacted
        BY <1>1, <3>2, <4>1, LeftKeeps
      <4> QED BY <1>1, <3>2, <4>1, <4>2 DEF PortsSame
    <3> QED BY <3>1, <3>2 DEF Fails
  <2>3. Gen' = Gen
    BY <1>1 DEF Fails, HostFailed, HostType, Gen
  <2> QED BY <2>1, <2>2, <2>3 DEF OwnerQuiet
<1>3. CASE /\ o.phase \in {"drain", "settle", "quiesce"}
           /\ owner' = [o EXCEPT !.phase = "unnotify", !.event = "none"]
           /\ UNCHANGED <<img, events, host>>
  <2>1. /\ owner'.quiescent = o.quiescent /\ owner'.phase = "unnotify"
        /\ owner'.checked = o.checked
    BY <1>3 DEF OwnerType
  <2> QED BY <1>3, <2>1 DEF OwnerQuiet, Checking, Pausing, Phases, PortsSame, Gen
<1> QED BY <1>2, <1>3 DEF Fails

LEMMA SendQuiet ==
  ASSUME ExchangeInv, NEW o \in OwnerType, NEW i, o.phase = "turn" => i \in Images,
         NEW op, Send(o, i, op)
  PROVE  /\ OwnerQuiet(o, owner') /\ PortsSame /\ Gen' = Gen
         /\ owner'.quiescent = o.quiescent
         /\ owner'.phase = o.phase \/ owner'.phase \notin Pausing
              \/ o.phase \in {"drain", "settle", "quiesce"}
         /\ owner'.phase = "compact" => owner'.event = op /\ owner'.image = i
<1>1. CASE Fails(o, i)
  <2>1. owner'.phase # "compact"
    BY <1>1, FailsQuiet DEF Fails, Idle, OwnerType
  <2> QED BY <1>1, <2>1, FailsQuiet
<1>2. CASE /\ owner' = [o EXCEPT !.event = op, !.image = i] /\ UNCHANGED <<img, host>>
  <2>1. /\ owner'.quiescent = o.quiescent /\ owner'.phase = o.phase
        /\ owner'.checked = o.checked /\ owner'.target = o.target
        /\ owner'.event = op /\ owner'.image = i
    BY <1>2 DEF OwnerType
  <2> QED BY <1>2, <2>1 DEF OwnerQuiet, PortsSame, Gen
<1> QED BY <1>1, <1>2 DEF Send

LEMMA PassQuiet ==
  ASSUME ExchangeInv, NEW o \in OwnerType, o.phase # "turn", NEW i, Pass(o, i, o)
  PROVE  /\ OwnerQuiet(o, owner') /\ PortsSame /\ Gen' = Gen
         /\ owner'.quiescent = o.quiescent
<1>1. CASE Fails(o, i)
  BY <1>1, FailsQuiet
<1>2. CASE owner' = o /\ UNCHANGED <<img, events, host>>
  BY <1>2 DEF OwnerQuiet, PortsSame, Gen
<1> QED BY <1>1, <1>2 DEF Pass

\* A step of an owner that awaits nothing, by way of owner o.
LEMMA RestingCut ==
  ASSUME ExchangeInv, CutInv, owner.event = "none", NEW o, OwnerQuiet(owner, o),
         \A i \in Images : o.quiescent[i] \in {owner.quiescent[i], 0},
         OwnerQuiet(o, owner'), owner'.quiescent = o.quiescent,
         PortsSame, RepliesQuiet, Gen' = Gen, UNCHANGED manifest
  PROVE  CutInv'
<1>1. OwnerQuiet(owner, owner') /\ AcksQuiet
  BY DEF OwnerQuiet, AcksQuiet, Checking
<1>2. \A i \in Images : ~Untold(i)
  BY DEF Untold
<1> QED BY <1>1, <1>2, CutStep

\* The same, when the owner goes on by itself.
LEMMA GoesCut ==
  ASSUME ExchangeInv, CutInv, owner.event = "none", OwnerQuiet(owner, owner'),
         owner'.quiescent = owner.quiescent, UNCHANGED <<img, replies, manifest>>,
         Gen' = Gen
  PROVE  CutInv'
<1>1. PortsSame /\ RepliesQuiet /\ OwnerQuiet(owner, owner)
  BY DEF PortsSame, RepliesQuiet, OwnerQuiet
<1> QED BY <1>1, RestingCut

\* A pause starts: no acknowledgement counts for it.
LEMMA StartCut ==
  ASSUME ExchangeInv, CutInv, NEW h \in HostType, h.generation = Gen, NEW op, NEW target,
         Start(owner, h, op, target), UNCHANGED replies
  PROVE  CutInv'
<1>0. owner \in OwnerType /\ Gen \in Nat
  BY DEF ExchangeInv, TypeInv, TypeOk, HostType, Gen
<1>1. CASE owner' = Idle(owner) /\ host' = [h EXCEPT !.claimed = FALSE]
  <2>1. /\ owner'.phase \notin Pausing /\ owner'.quiescent = owner.quiescent
        /\ ~owner'.checked
    BY <1>0, <1>1, IdleOwner DEF Pausing
  <2>2. Gen' = Gen /\ RepliesQuiet
    BY <1>1 DEF Gen, HostType, RepliesQuiet
  <2> QED BY <2>1, <2>2, CutIdle
<1>2. CASE /\ host' = [h EXCEPT !.generation = @ + 1, !.paused = TRUE]
           /\ owner' = [owner EXCEPT !.phase = "drain", !.operation = op,
                !.target = target, !.uncertain = FALSE, !.advanced = TRUE,
                !.checked = FALSE]
  <2>1. Gen' = Gen + 1
    BY <1>2 DEF Gen, HostType
  <2>2. ~owner'.checked /\ owner'.quiescent = owner.quiescent
    BY <1>0, <1>2 DEF OwnerType
  <2>3. ASSUME NEW i \in Images PROVE CutOf(i)'
    <3>1. CutOf(i) /\ owner.quiescent[i] \in Nat
      BY <1>0 DEF CutInv, OwnerType
    <3>2. replies[i] # <<>> => Head(replies[i]).gen \in Nat
      BY PortOf, SlotHead DEF ReplyType
    <3> QED BY <1>0, <2>1, <2>2, <3>1, <3>2 DEF CutOf, Acked
  <2> QED BY <2>2, <2>3 DEF CutInv, CheckedInv
<1> QED BY <1>1, <1>2 DEF Start

LEMMA RequestsCut ==
  ASSUME ExchangeInv, CutInv, AutoCollect \/ TakeReady PROVE CutInv'
<1>0. /\ host \in HostType /\ owner \in OwnerType /\ UNCHANGED <<replies, manifest>>
      /\ owner.event = "none" /\ Gen = host.generation /\ ready \in Seq(ReadyType)
      /\ owner.phase = "idle"
  BY DEF ExchangeInv, TypeInv, TypeOk, AutoCollect, TakeReady, At, Waiting, Gen
<1>1. CASE AutoCollect
  <2>1. PICK h : h = [host EXCEPT !.claimed = TRUE, !.left.admin = @ - 1]
    OBVIOUS
  <2>2. h \in HostType /\ h.generation = Gen
    <3>1. PICK l : l = [host.left EXCEPT !.admin = host.left.admin - 1]
      OBVIOUS
    <3>2. l \in [admin : Int, mutate : Int, rotate : Int]
      BY <1>0, <3>1 DEF HostType
    <3>3. h = [host EXCEPT !.claimed = TRUE, !.left = l]
      BY <1>0, <2>1, <3>1 DEF HostType
    <3> QED BY <1>0, <3>2, <3>3 DEF HostType
  <2>3. Start(owner, h, "collect", 0)
    BY <1>1, <2>1 DEF AutoCollect
  <2> QED BY <1>0, <2>2, <2>3, StartCut
<1>2. CASE TakeReady
  <2>1. PICK r : r = Head(ready)
    OBVIOUS
  <2>2. ready # <<>> /\ r \in ReadyType
    BY <1>0, <1>2, <2>1 DEF TakeReady
  <2>3. CASE r.op \in {"collect", "snapshot"}
    BY <1>0, <1>2, <2>1, <2>3, StartCut DEF TakeReady
  <2>4. CASE r.op \in {"compact", "rotate"}
    <3>1. PICK o : o = [owner EXCEPT !.phase = "turn"]
      OBVIOUS
    <3>2. PICK op : Send(o, r.image, op)
      BY <1>2, <2>1, <2>4, <3>1 DEF TakeReady
    <3>3. /\ o \in OwnerType /\ o.phase = "turn" /\ o.quiescent = owner.quiescent
          /\ o.checked = owner.checked
      BY <1>0, <3>1 DEF OwnerType, Phases
    <3>4. r.image \in Images
      BY <2>2, <2>4 DEF ReadyType, Operations
    <3>5. /\ OwnerQuiet(o, owner') /\ PortsSame /\ Gen' = Gen
          /\ owner'.quiescent = o.quiescent
      BY <3>2, <3>3, <3>4, SendQuiet
    <3>6. OwnerQuiet(owner, o) /\ RepliesQuiet
      BY <1>0, <3>3 DEF OwnerQuiet, RepliesQuiet, Checking, Pausing, Phases
    <3> QED BY <1>0, <3>3, <3>5, <3>6, RestingCut
  <2> QED BY <2>2, <2>3, <2>4 DEF ReadyType, Operations
<1> QED BY <1>1, <1>2

\* drain_guests and drain_notifications.
LEMMA DrainCut ==
  ASSUME ExchangeInv, CutInv, DrainReady \/ Drained \/ DrainExpired PROVE CutInv'
<1>0. /\ owner \in OwnerType /\ UNCHANGED <<replies, manifest>> /\ owner.event = "none"
      /\ owner.phase \in {"drain", "settle", "unnotify"} /\ owner.phase # "turn"
  BY DEF ExchangeInv, TypeInv, TypeOk, DrainReady, Drained, DrainExpired, At, Waiting
<1>1. RepliesQuiet /\ OwnerQuiet(owner, owner)
  BY <1>0 DEF RepliesQuiet, OwnerQuiet
<1>2. CASE Drained
  <2>1. /\ owner' = [owner EXCEPT !.phase = "quiesce", !.todo = Images]
        /\ owner.phase = "drain" /\ UNCHANGED <<img, host>>
    BY <1>2 DEF Drained, At
  <2>2. /\ owner'.quiescent = owner.quiescent /\ owner'.phase = "quiesce"
        /\ owner'.checked = owner.checked
    BY <1>0, <2>1 DEF OwnerType
  <2>3. OwnerQuiet(owner, owner') /\ Gen' = Gen
    BY <2>1, <2>2 DEF OwnerQuiet, Checking, Pausing, Phases, Gen
  <2> QED BY <1>0, <2>1, <2>2, <2>3, GoesCut
<1>3. CASE DrainExpired
  <2>1. Fails(owner, 0)
    BY <1>3 DEF DrainExpired
  <2> QED BY <1>0, <1>1, <2>1, FailsQuiet, RestingCut
<1>4. CASE DrainReady
  <2>1. PICK i : i = Head(ready).image
    OBVIOUS
  <2>2. CASE UNCHANGED <<img, events, owner, host>>
    <3>1. Gen' = Gen /\ OwnerQuiet(owner, owner') /\ owner'.quiescent = owner.quiescent
      BY <2>2 DEF Gen, OwnerQuiet
    <3> QED BY <1>0, <2>2, <3>1, GoesCut
  <2>3. CASE Send(owner, i, "deferred")
    BY <1>0, <1>1, <2>3, SendQuiet, RestingCut
  <2>4. CASE Pass(owner, i, owner)
    BY <1>0, <1>1, <2>4, PassQuiet, RestingCut
  <2> QED BY <1>4, <2>1, <2>2, <2>3, <2>4 DEF DrainReady, Cancel
<1> QED BY <1>2, <1>3, <1>4

\* Images are asked to quiesce, and to resume.
LEMMA AskCut ==
  ASSUME ExchangeInv, CutInv, Quiesce \/ Resume PROVE CutInv'
<1>0. /\ owner \in OwnerType /\ UNCHANGED <<replies, manifest>> /\ owner.event = "none"
      /\ owner.phase \in {"quiesce", "resume", "unresume"} /\ owner.phase # "turn"
      /\ host \in HostType
  BY DEF ExchangeInv, TypeInv, TypeOk, Quiesce, Resume, At, Waiting
<1>1. RepliesQuiet
  BY <1>0 DEF RepliesQuiet
<1>2. CASE owner.todo = {} /\ Quiesce
  <2>1. /\ owner' = [owner EXCEPT !.phase = "settle"] /\ UNCHANGED <<img, events, host>>
        /\ owner.phase = "quiesce"
    BY <1>2 DEF Quiesce, At
  <2>2. /\ owner'.quiescent = owner.quiescent /\ owner'.phase = "settle"
        /\ owner'.checked = owner.checked
    BY <1>0, <2>1 DEF OwnerType
  <2>3. OwnerQuiet(owner, owner') /\ Gen' = Gen
    BY <2>1, <2>2 DEF OwnerQuiet, Checking, Pausing, Phases, Gen
  <2> QED BY <1>0, <2>1, <2>2, <2>3, GoesCut
<1>3. CASE owner.todo = {} /\ Resume
  <2>1. owner' = Idle(owner) /\ host' = Released /\ UNCHANGED <<img, events>>
    BY <1>3 DEF Resume
  <2>2. /\ owner'.quiescent = owner.quiescent /\ owner'.phase \notin Pausing
        /\ ~owner'.checked
    BY <1>0, <2>1, IdleOwner DEF Pausing
  <2>3. Gen' = Gen
    BY <1>0, <2>1 DEF Released, HostType, Gen
  <2> QED BY <1>1, <2>2, <2>3, CutIdle
<1>4. CASE owner.todo # {}
  <2>1. PICK i : i = First(owner.todo)
    OBVIOUS
  <2>2. i \in Images
    BY <1>0, <1>4, <2>1, FirstIn DEF OwnerType
  <2>3. PICK o \in OwnerType :
          /\ \A j \in Images : o.quiescent[j] \in {owner.quiescent[j], 0}
          /\ o.phase = owner.phase /\ o.checked = owner.checked
          /\ Pass(o, i, o) \/ \E op : Send(o, i, op)
    <3>1. CASE Quiesce
      <4>1. PICK o, u : /\ o = [owner EXCEPT !.todo = @ \ {i}]
                        /\ u = [o EXCEPT !.uncertain = TRUE]
        OBVIOUS
      <4>2. /\ o \in OwnerType /\ o.phase = owner.phase /\ o.quiescent = owner.quiescent
            /\ o.checked = owner.checked /\ u.checked = owner.checked
            /\ u \in OwnerType /\ u.phase = owner.phase /\ u.quiescent = owner.quiescent
        BY <1>0, <4>1 DEF OwnerType
      <4>3. Pass(o, i, o) \/ Send(u, i, "quiesce")
        BY <1>4, <2>1, <3>1, <4>1 DEF Quiesce, First
      <4> QED BY <4>2, <4>3
    <3>2. CASE Resume
      <4>1. PICK o : o = [owner EXCEPT !.todo = @ \ {i}, !.quiescent[i] = 0]
        OBVIOUS
      <4>2. /\ o \in OwnerType /\ o.phase = owner.phase /\ o.checked = owner.checked
            /\ \A j \in Images : o.quiescent[j] \in {owner.quiescent[j], 0}
        BY <1>0, <2>2, <4>1 DEF OwnerType
      <4>3. Pass(o, i, o) \/ Send(o, i, "resume")
        BY <1>4, <2>1, <3>2, <4>1 DEF Resume, First
      <4> QED BY <4>2, <4>3
    <3> QED BY <3>1, <3>2
  <2>4. OwnerQuiet(owner, o)
    BY <1>0, <2>3 DEF OwnerQuiet, Checking
  <2>5. /\ OwnerQuiet(o, owner') /\ PortsSame /\ Gen' = Gen
        /\ owner'.quiescent = o.quiescent
    BY <1>0, <2>3, SendQuiet, PassQuiet
  <2> QED BY <1>0, <1>1, <2>3, <2>4, <2>5, RestingCut
<1> QED BY <1>2, <1>3, <1>4

LEMMA ResumingQuiet ==
  ASSUME NEW o \in OwnerType, NEW phase \in {"resume", "unresume"}, o.phase \in Pausing,
         phase = "unresume" => o.phase \notin Checking,
         NEW q, q = [Resuming(o) EXCEPT !.phase = phase]
  PROVE  OwnerQuiet(o, q) /\ q.quiescent = o.quiescent
<1>1. q.quiescent = o.quiescent /\ q.phase = phase /\ q.checked = o.checked
  BY DEF Resuming, OwnerType
<1> QED BY <1>1 DEF OwnerQuiet, Checking

\* The operation begins, and ends.
LEMMA OperateCut ==
  ASSUME ExchangeInv, CutInv, Begin \/ Unwind \/ Ends \/ Collect PROVE CutInv'
<1>0. /\ owner \in OwnerType /\ UNCHANGED <<img, replies, manifest>> /\ owner.event = "none"
      /\ host \in HostType
  BY DEF ExchangeInv, TypeInv, TypeOk, Begin, Unwind, Ends, Collect, At, Waiting
<1>1. Gen' = Gen
  BY <1>0 DEF Begin, Unwind, Ends, Collect, OperationErrs, HostFailed, HostType, Gen
<1>2. RepliesQuiet
  BY <1>0 DEF RepliesQuiet
<1>3. CASE Begin
  <2>1. owner' = [owner EXCEPT !.phase = "operate"] /\ owner.phase = "settle"
    BY <1>3 DEF Begin, At
  <2>2. /\ owner'.quiescent = owner.quiescent /\ owner'.phase = "operate"
        /\ owner'.checked = owner.checked /\ owner'.target = owner.target
    BY <1>0, <2>1 DEF OwnerType
  <2>3. OwnerQuiet(owner, owner')
    BY <2>1, <2>2 DEF OwnerQuiet, Checking, Pausing, Phases
  <2> QED BY <1>0, <1>1, <2>2, <2>3, GoesCut
<1>4. CASE Unwind
  <2>1. /\ owner' = [Resuming(owner) EXCEPT !.phase = "unresume"] /\ owner.phase \in Pausing
        /\ owner.phase \notin Checking
    BY <1>4 DEF Unwind, At, Checking, Pausing, Phases
  <2> QED BY <1>0, <1>1, <2>1, ResumingQuiet, GoesCut
<1>5. CASE Ends
  <2>1. owner' = [owner EXCEPT !.phase = "ended"] /\ ~owner.checked
    BY <1>5 DEF Ends, At, CutInv, CheckedInv, Checking
  <2>2. /\ owner'.phase \notin Pausing /\ owner'.quiescent = owner.quiescent
        /\ ~owner'.checked
    BY <1>0, <2>1 DEF OwnerType, Pausing
  <2> QED BY <1>1, <1>2, <2>2, CutIdle
<1>6. CASE Collect
  <2>1. owner.phase = "operate" /\ owner.phase \in Pausing
    BY <1>6 DEF Collect, At, Pausing, Phases
  <2>2. CASE owner' = Idle(owner)
    <3>1. /\ owner'.phase \notin Pausing /\ owner'.quiescent = owner.quiescent
          /\ ~owner'.checked
      BY <1>0, <2>2, IdleOwner DEF Pausing
    <3> QED BY <1>1, <1>2, <3>1, CutIdle
  <2>3. CASE owner' = Resuming(owner)
    <3>1. owner' = [Resuming(owner) EXCEPT !.phase = "resume"]
      BY <1>0, <2>3 DEF Resuming, OwnerType
    <3> QED BY <1>0, <1>1, <2>1, <3>1, ResumingQuiet, GoesCut
  <2>4. CASE owner' = [owner EXCEPT !.phase = "compact",
                         !.todo = {i \in Images : owner.quiescent[i] = Gen}]
    <3>1. /\ owner'.quiescent = owner.quiescent /\ owner'.phase = "compact"
          /\ owner'.checked = owner.checked /\ owner'.target = owner.target
      BY <1>0, <2>4 DEF OwnerType
    <3>2. OwnerQuiet(owner, owner')
      BY <2>1, <3>1 DEF OwnerQuiet, Checking, Pausing, Phases
    <3> QED BY <1>0, <1>1, <3>1, <3>2, GoesCut
  <2> QED BY <1>6, <2>2, <2>3, <2>4 DEF Collect, OperationErrs
<1> QED BY <1>3, <1>4, <1>5, <1>6

\* A quiescent compaction is started, for a collection or for a snapshot.
LEMMA CompactCut ==
  ASSUME ExchangeInv, CutInv, owner.event = "none", owner.phase \in {"operate", "compact"},
         NEW o \in OwnerType, o.phase = "compact", o.target = owner.target,
         o.quiescent = owner.quiescent, NEW i \in Images, Send(o, i, "compactq"),
         o.checked => owner.checked \/ owner.quiescent[owner.target] = Gen,
         UNCHANGED <<replies, manifest>>
  PROVE  CutInv'
<1>1. /\ OwnerQuiet(o, owner') /\ PortsSame /\ Gen' = Gen
      /\ owner'.quiescent = owner.quiescent
  BY SendQuiet
<1>2. RepliesQuiet
  BY DEF RepliesQuiet
<1>3. CheckedInv'
  <2>1. o.checked => owner.quiescent[owner.target] = Gen
    BY DEF CutInv, CheckedInv
  <2> QED BY <1>1, <2>1 DEF CheckedInv, OwnerQuiet, Checking
<1>4. ASSUME NEW j \in Images PROVE CutOf(j)'
  <2>1. CutOf(j) /\ ~Untold(j) /\ owner.phase \in Pausing
    BY DEF CutInv, Untold, Pausing, Phases
  <2>2. Acked(j)' <=> Acked(j)
    BY <1>1 DEF Acked
  <2>3. Acked(j) => Settled(j)'
    BY <1>1, <2>1 DEF CutOf, Settled, Untold, PortsSame
  <2> QED BY <1>1, <2>1, <2>2, <2>3 DEF CutOf
<1> QED BY <1>3, <1>4 DEF CutInv

LEMMA CompactNextCut ==
  ASSUME ExchangeInv, CutInv, CompactNext PROVE CutInv'
<1>0. /\ owner \in OwnerType /\ UNCHANGED <<replies, manifest>> /\ owner.event = "none"
      /\ owner.phase = "compact"
  BY DEF ExchangeInv, TypeInv, TypeOk, CompactNext, At, Waiting
<1>1. CASE owner.todo = {}
  <2>1. owner' = Resuming(owner) /\ UNCHANGED <<img, events, host>>
    BY <1>1 DEF CompactNext
  <2>2. owner' = [Resuming(owner) EXCEPT !.phase = "resume"] /\ owner.phase \in Pausing
    BY <1>0, <2>1 DEF Resuming, OwnerType, Pausing, Phases
  <2>3. Gen' = Gen
    BY <2>1 DEF Gen
  <2> QED BY <1>0, <2>1, <2>2, <2>3, ResumingQuiet, GoesCut
<1>2. CASE owner.todo # {}
  <2>1. PICK i, o : i = First(owner.todo) /\ o = [owner EXCEPT !.advanced = FALSE]
    OBVIOUS
  <2>2. i \in Images /\ Send(o, i, "compactq")
    BY <1>0, <1>2, <2>1, FirstIn DEF OwnerType, CompactNext, First
  <2>3. /\ o \in OwnerType /\ o.phase = "compact" /\ o.target = owner.target
        /\ o.quiescent = owner.quiescent /\ o.checked = owner.checked
    BY <1>0, <2>1 DEF OwnerType
  <2> QED BY <1>0, <2>2, <2>3, CompactCut
<1> QED BY <1>1, <1>2

LEMMA SnapshotKeepsCut ==
  ASSUME ExchangeInv, CutInv, Snapshot PROVE CutInv'
<1>0. /\ owner \in OwnerType /\ UNCHANGED <<replies, manifest>> /\ owner.event = "none"
      /\ owner.phase = "operate" /\ host \in HostType /\ owner.phase \in Pausing
      /\ owner.target \in Images
  BY DEF ExchangeInv, TypeInv, TypeOk, OwnerInv, OwnerOk, Snapshot, At, Waiting, Pausing,
     Phases
<1>1. PICK i : i = owner.target
  OBVIOUS
<1>2. CASE owner' = Idle(owner) /\ host' = HostFailed
  <2>1. /\ owner'.phase \notin Pausing /\ owner'.quiescent = owner.quiescent
        /\ ~owner'.checked
    BY <1>0, <1>2, IdleOwner DEF Pausing
  <2>2. RepliesQuiet /\ Gen' = Gen
    BY <1>0, <1>2 DEF RepliesQuiet, HostFailed, HostType, Gen
  <2> QED BY <2>1, <2>2, CutIdle
<1>3. CASE /\ owner.checked \/ owner.quiescent[i] = Gen
           /\ Send([owner EXCEPT !.phase = "compact", !.advanced = FALSE,
                                 !.checked = TRUE], i, "compactq")
  <2>1. PICK o : o = [owner EXCEPT !.phase = "compact", !.advanced = FALSE,
                                   !.checked = TRUE]
    OBVIOUS
  <2>2. /\ o \in OwnerType /\ o.phase = "compact" /\ o.target = owner.target
        /\ o.quiescent = owner.quiescent
    BY <1>0, <2>1 DEF OwnerType, Phases
  <2> QED BY <1>0, <1>1, <1>3, <2>1, <2>2, CompactCut
<1>4. CASE owner' = Resuming(owner) /\ UNCHANGED <<img, events, host>>
  <2>1. owner' = [Resuming(owner) EXCEPT !.phase = "resume"]
    BY <1>0, <1>4 DEF Resuming, OwnerType
  <2>2. Gen' = Gen
    BY <1>4 DEF Gen
  <2> QED BY <1>0, <1>4, <2>1, <2>2, ResumingQuiet, GoesCut
<1> QED BY <1>1, <1>2, <1>3, <1>4 DEF Snapshot, OperationErrs

\* The end of an exchange, by way of owner o: the root of this pause has been
\* told, or the pause ends.
LEMMA TakenCut ==
  ASSUME ExchangeInv, CutInv, NEW o, o.phase = owner.phase, o.quiescent = owner.quiescent,
         o.checked = owner.checked, o.target = owner.target,
         OwnerQuiet(o, owner'), owner'.quiescent = o.quiescent,
         PortsSame, RepliesQuiet, Gen' = Gen, UNCHANGED manifest,
         owner'.phase \in Pausing => \A i \in Images : ~Untold(i)
  PROVE  CutInv'
<1>1. OwnerQuiet(owner, owner') /\ AcksQuiet
  BY DEF OwnerQuiet, AcksQuiet
<1> QED BY <1>1, CutStep

\* No reply: a root not yet told fails the operation.
LEMMA UnansweredCut ==
  ASSUME ExchangeInv, CutInv, Unanswered PROVE CutInv'
<1>1. PICK i, o : i = owner.image /\ o = [owner EXCEPT !.event = "none", !.image = 0]
  OBVIOUS
<1>2. PICK u : u = [o EXCEPT !.uncertain = FALSE]
  OBVIOUS
<1>3. /\ owner \in OwnerType /\ owner.event # "none" /\ UNCHANGED <<replies, manifest>>
  BY DEF ExchangeInv, TypeInv, TypeOk, Unanswered, Waiting
<1>4. i \in Images
  BY <1>1, <1>3 DEF ExchangeInv, OwnerInv, OwnerOk, OwnerType
<1>5. /\ o \in OwnerType /\ o.phase = owner.phase /\ o.quiescent = owner.quiescent
      /\ o.checked = owner.checked /\ o.target = owner.target
      /\ u.phase = owner.phase /\ u.quiescent = owner.quiescent
      /\ u.checked = owner.checked /\ u.target = owner.target
  BY <1>1, <1>2, <1>3 DEF OwnerType
<1>6. Fails(o, i) \/ (owner.phase \notin {"turn", "compact"} /\ Pass(o, i, u))
  BY <1>1, <1>2, <1>5 DEF Unanswered
<1>7. CASE Fails(o, i)
  <2>1. /\ OwnerQuiet(o, owner') /\ PortsSame /\ Gen' = Gen
        /\ owner'.quiescent = o.quiescent
        /\ owner'.phase \in Pausing => o.phase \in {"drain", "settle", "quiesce"}
    BY <1>4, <1>5, <1>7, FailsQuiet
  <2>2. RepliesQuiet /\ (owner'.phase \in Pausing => \A j \in Images : ~Untold(j))
    BY <1>3, <1>5, <2>1 DEF RepliesQuiet, Untold
  <2> QED BY <1>3, <1>5, <2>1, <2>2, TakenCut
<1>8. CASE owner' = u /\ UNCHANGED <<img, events, host>> /\ owner.phase \notin {"turn", "compact"}
  <2>1. OwnerQuiet(o, owner') /\ PortsSame /\ Gen' = Gen /\ owner'.quiescent = o.quiescent
    BY <1>5, <1>8 DEF OwnerQuiet, PortsSame, Gen
  <2>2. RepliesQuiet /\ \A j \in Images : ~Untold(j)
    BY <1>3, <1>8 DEF RepliesQuiet, Untold
  <2> QED BY <1>3, <1>5, <2>1, <2>2, TakenCut
<1> QED BY <1>6, <1>7, <1>8 DEF Pass

\* A reply: one that acknowledges counts for its image, one that tells of a
\* selection publishes a root, the rest go on or fail.
LEMMA ReceiveCut ==
  ASSUME ExchangeInv, CutInv, Receive PROVE CutInv'
<1>1. PICK i, e, o, r : /\ i = owner.image /\ e = owner.event
                        /\ o = [owner EXCEPT !.event = "none", !.image = 0]
                        /\ r = Head(replies[i])
  OBVIOUS
<1>2. /\ owner \in OwnerType /\ owner.event # "none" /\ replies[i] # <<>>
      /\ replies' = [replies EXCEPT ![i] = <<>>]
  BY <1>1 DEF ExchangeInv, TypeInv, TypeOk, Receive, Waiting
<1>3. /\ i \in Images /\ host \in HostType /\ img \in [Images -> PortType]
      /\ replies \in [Images -> Slots(ReplyType)] /\ manifest \in [Images -> Nat]
  BY <1>1, <1>2 DEF ExchangeInv, OwnerInv, OwnerOk, OwnerType, TypeInv, TypeOk
<1>4. /\ o \in OwnerType /\ o.phase = owner.phase /\ o.quiescent = owner.quiescent
      /\ o.checked = owner.checked /\ o.target = owner.target
  BY <1>1, <1>2 DEF OwnerType
<1>5. RepliesQuiet
  BY <1>2, <1>3 DEF RepliesQuiet
<1>6. CASE Fails(o, i) /\ UNCHANGED manifest
  <2>1. /\ OwnerQuiet(o, owner') /\ PortsSame /\ Gen' = Gen
        /\ owner'.quiescent = o.quiescent
        /\ owner'.phase \in Pausing => o.phase \in {"drain", "settle", "quiesce"}
    BY <1>3, <1>4, <1>6, FailsQuiet
  <2>2. owner'.phase \in Pausing => \A j \in Images : ~Untold(j)
    BY <1>4, <2>1 DEF Untold
  <2> QED BY <1>4, <1>5, <1>6, <2>1, <2>2, TakenCut
<1>7. CASE owner' = o /\ UNCHANGED <<img, events, host, manifest>> /\ o.phase # "compact"
  <2>1. OwnerQuiet(o, owner') /\ PortsSame /\ Gen' = Gen /\ owner'.quiescent = o.quiescent
    BY <1>7 DEF OwnerQuiet, PortsSame, Gen
  <2>2. \A j \in Images : ~Untold(j)
    BY <1>4, <1>7 DEF Untold
  <2> QED BY <1>4, <1>5, <1>7, <2>1, <2>2, TakenCut
<1>8. CASE /\ r.op = "quiesced" /\ r.gen = Gen /\ e = "quiesce"
           /\ owner' = [o EXCEPT !.quiescent[i] = Gen, !.uncertain = FALSE]
           /\ UNCHANGED <<img, events, host, manifest>>
  <2>1. /\ Acked(i) /\ owner.phase = "quiesce"
    BY <1>1, <1>2, <1>8 DEF Acked, ExchangeInv, OwnerInv, OwnerOk
  <2>2. /\ owner'.phase = owner.phase /\ owner'.checked = owner.checked
        /\ \A j \in Images : owner'.quiescent[j] = IF j = i THEN Gen ELSE owner.quiescent[j]
    BY <1>3, <1>4, <1>8 DEF OwnerType
  <2>3. AcksQuiet
    BY <2>1, <2>2 DEF AcksQuiet
  <2>4. OwnerQuiet(owner, owner') /\ PortsSame /\ Gen' = Gen
    BY <1>8, <2>1, <2>2 DEF OwnerQuiet, Checking, PortsSame, Gen
  <2>5. \A j \in Images : ~Untold(j)
    BY <2>1 DEF Untold
  <2> QED BY <1>5, <1>8, <2>3, <2>4, <2>5, CutStep
<1>9. CASE e = "quiesce" /\ Fails([o EXCEPT !.uncertain = FALSE], i) /\ UNCHANGED manifest
  <2>1. PICK u : u = [o EXCEPT !.uncertain = FALSE]
    OBVIOUS
  <2>2. /\ u \in OwnerType /\ u.phase = owner.phase /\ u.quiescent = owner.quiescent
        /\ u.checked = owner.checked /\ u.target = owner.target
    BY <1>4, <2>1 DEF OwnerType
  <2>3. /\ OwnerQuiet(u, owner') /\ PortsSame /\ Gen' = Gen
        /\ owner'.quiescent = u.quiescent
    BY <1>3, <1>9, <2>1, <2>2, FailsQuiet
  <2>4. \A j \in Images : ~Untold(j)
    BY <1>1, <1>9 DEF Untold
  <2> QED BY <1>5, <1>9, <2>2, <2>3, <2>4, TakenCut
<1>10. CASE r.op \in Expected[e] /\ o.phase \in {"turn", "compact"} /\ Proceed(o, i, e, r.op)
  <2>0. \A j \in Images : ~Untold(j)
    <3>1. e = "published" => r.op # "failed"
      BY <1>10, ExpectedIs
    <3> QED BY <1>1, <1>2, <3>1 DEF Untold
  <2>1. CASE Done(o, i) /\ UNCHANGED manifest
    <3>1. OwnerQuiet(o, owner') /\ PortsSame /\ Gen' = Gen /\ owner'.quiescent = o.quiescent
      <4>1. CASE o.phase = "turn"
        <5>1. /\ owner'.phase \notin Pausing /\ ~owner'.checked
              /\ owner'.quiescent = o.quiescent
          BY <1>4, <2>1, <4>1, IdleOwner DEF Done, Pausing
        <5> QED BY <2>1, <5>1 DEF OwnerQuiet, PortsSame, Gen, Done
      <4>2. CASE o.phase = "compact"
        <5>1. PICK ph \in {"operate", "compact"}, S \in SUBSET Images :
                owner' = [o EXCEPT !.phase = ph, !.todo = S]
          <6>1. CASE owner' = [o EXCEPT !.phase = "operate"]
            BY <1>4, <6>1 DEF OwnerType
          <6>2. CASE owner' = [o EXCEPT !.todo = @ \ {i}]
            BY <1>4, <4>2, <6>2 DEF OwnerType
          <6> QED BY <2>1, <4>2, <6>1, <6>2 DEF Done
        <5>2. /\ owner'.phase = ph /\ owner'.quiescent = o.quiescent
              /\ owner'.checked = o.checked /\ owner'.target = o.target
          BY <1>4, <5>1 DEF OwnerType
        <5> QED BY <2>1, <4>2, <5>1, <5>2 DEF OwnerQuiet, Checking, Pausing, Phases,
                   PortsSame, Gen, Done
      <4> QED BY <1>10, <4>1, <4>2
    <3> QED BY <1>4, <1>5, <2>0, <2>1, <3>1, TakenCut
  <2>2. ASSUME NEW op, Send(o, i, op), UNCHANGED manifest PROVE CutInv'
    <3>1. OwnerQuiet(o, owner') /\ PortsSame /\ Gen' = Gen /\ owner'.quiescent = o.quiescent
      BY <1>3, <1>4, <2>2, SendQuiet
    <3> QED BY <1>4, <1>5, <2>0, <2>2, <3>1, TakenCut
  <2>3. CASE /\ manifest' = [manifest EXCEPT ![i] = img[i].through]
             /\ Send([o EXCEPT !.advanced = TRUE], i, "published")
    <3>1. PICK u : u = [o EXCEPT !.advanced = TRUE]
      OBVIOUS
    <3>2. /\ u \in OwnerType /\ u.phase = owner.phase /\ u.quiescent = owner.quiescent
          /\ u.checked = owner.checked /\ u.target = owner.target
      BY <1>4, <3>1 DEF OwnerType
    <3>3. /\ OwnerQuiet(u, owner') /\ PortsSame /\ Gen' = Gen
          /\ owner'.quiescent = owner.quiescent
          /\ owner'.phase = u.phase \/ owner'.phase \notin Pausing
          /\ owner'.phase = "compact" => owner'.event = "published" /\ owner'.image = i
      BY <1>3, <1>4, <1>10, <2>3, <3>1, <3>2, SendQuiet
    <3>4. CheckedInv'
      BY <1>4, <1>10, <3>2, <3>3 DEF CutInv, CheckedInv, OwnerQuiet, Checking
    <3>5. ASSUME NEW j \in Images PROVE CutOf(j)'
      <4>1. CutOf(j) /\ (replies'[j] = replies[j] \/ replies'[j] = <<>>)
        BY <1>2, <1>3 DEF CutInv
      <4>2. Acked(j)' => Acked(j)
        BY <3>3, <4>1 DEF Acked
      <4>3. ASSUME owner'.phase \in Pausing, Acked(j) PROVE Settled(j)'
        <5>1. owner'.phase = "compact" /\ owner.phase = "compact"
          BY <1>4, <1>10, <3>2, <3>3, <4>3 DEF Pausing
        <5>2. Settled(j)
          BY <4>1, <4>3, <5>1 DEF CutOf, Pausing, Phases
        <5>3. img'[j].entries = 0 /\ img'[j].durable = img'[j].issued
              /\ img'[j].compacted = img[j].compacted
          BY <3>3, <5>2 DEF Settled, PortsSame
        <5>4. CASE j = i
          BY <1>2, <1>3, <3>3, <5>1, <5>3, <5>4 DEF Settled
        <5>5. CASE j # i
          BY <1>3, <2>0, <2>3, <5>2, <5>3, <5>5 DEF Settled, Untold
        <5> QED BY <5>4, <5>5
      <4> QED BY <3>3, <4>1, <4>2, <4>3 DEF CutOf
    <3> QED BY <3>4, <3>5 DEF CutInv
  <2> QED BY <1>6, <1>10, <2>1, <2>2, <2>3 DEF Proceed, Compacts, Reclaims, Rotates, Defers
<1>11. CASE Pass(o, i, o) /\ o.phase # "compact" /\ UNCHANGED manifest
  BY <1>6, <1>7, <1>11 DEF Pass
<1> QED BY <1>1, <1>6, <1>7, <1>8, <1>9, <1>10, <1>11 DEF Receive

\* A collection asked for, physical pressure, and a host that shuts down.
LEMMA HostCut ==
  ASSUME ExchangeInv, CutInv,
         Pressure \/ Shutdown \/ \E op, i : Request(op, i)
  PROVE  CutInv'
<1>0. /\ host \in HostType /\ img \in [Images -> PortType]
      /\ owner' = owner /\ UNCHANGED <<replies, manifest>>
  BY DEF ExchangeInv, TypeInv, TypeOk, Pressure, Shutdown, Request
<1>1. Gen' = Gen
  BY <1>0 DEF Pressure, Shutdown, Request, Gen, HostType
<1>2. RepliesQuiet
  BY <1>0 DEF RepliesQuiet
<1>3. PortsSame
  <2>1. CASE Shutdown
    <3>1. ASSUME NEW i \in Images
          PROVE  /\ img'[i].entries = img[i].entries /\ img'[i].issued = img[i].issued
                 /\ img'[i].durable = img[i].durable /\ img'[i].compacted = img[i].compacted
      <4>1. PICK up : up = IF img[i].up = "new" THEN "off" ELSE img[i].up
        OBVIOUS
      <4>2. img'[i] = [img[i] EXCEPT !.up = up] /\ img[i] \in PortType
        BY <1>0, <2>1, <4>1 DEF Shutdown
      <4> QED BY <4>2 DEF PortType
    <3> QED BY <3>1 DEF PortsSame
  <2>2. CASE img' = img
    BY <2>2 DEF PortsSame
  <2> QED BY <2>1, <2>2 DEF Pressure, Request
<1> QED BY <1>0, <1>1, <1>2, <1>3, SameOwner, CutStep

\* Every step keeps the cut.
LEMMA NextCut ==
  ASSUME ExchangeInv, CutInv, [Next]_vars PROVE CutInv'
<1>1. CASE Environment
  <2>1. CASE \E i \in Images : Attach(i) \/ Enter(i) \/ CancelRollover(i) \/ Exit(i)
                                 \/ FailImage(i) \/ Overdue(i)
    BY <2>1, ImageCut, GuestCut
  <2>2. CASE \E i \in Images, kind \in {"roll", "fresh"} : Rotate(i, kind)
    BY <2>2, ImageCut
  <2>3. CASE \/ Request("collect", 0) \/ \E i \in Images : Request("snapshot", i)
             \/ Pressure \/ Shutdown
    BY <2>3, HostCut
  <2> QED BY <1>1, <2>1, <2>2, <2>3, DrainCut DEF Environment
<1>2. CASE OwnerStep
  BY <1>2, RequestsCut, ReceiveCut, UnansweredCut, DrainCut, AskCut, OperateCut,
     CompactNextCut, SnapshotKeepsCut DEF OwnerStep
<1>3. CASE \E i \in Images : Reactor(i)
  BY <1>3, GuestCut, ImageCut, PortCut, AcknowledgeCut, PollCut DEF Reactor
<1>4. CASE UNCHANGED vars
  <2>1. owner' = owner /\ Gen' = Gen /\ RepliesQuiet /\ PortsSame /\ UNCHANGED manifest
    BY <1>4 DEF vars, Gen, RepliesQuiet, PortsSame
  <2> QED BY <2>1, SameOwner, CutStep
<1> QED BY <1>1, <1>2, <1>3, <1>4 DEF Next

-----------------------------------------------------------------------------
\* The exchange between the owner and its images keeps its invariant, for any
\* number of images, mutations, rotations and administrative requests
\* (host.rs, host/worker.rs, host/collection.rs).
THEOREM ExchangeHolds == Spec => []ExchangeInv
<1>1. ExchangeInv /\ CutInv /\ [Next]_vars => ExchangeInv' /\ CutInv'
  BY NextInv, NextCut DEF CutInv
<1>2. Init => CutInv
  BY InitCut
<1> QED BY <1>1, <1>2, InitInv, PTL DEF Spec

\* The cut of a snapshot is kept from its image's acknowledgement on.
LEMMA CutHolds == Spec => []CutInv
<1>1. ExchangeInv /\ CutInv /\ [Next]_vars => ExchangeInv' /\ CutInv'
  BY NextInv, NextCut DEF CutInv
<1>2. Init => CutInv
  BY InitCut
<1> QED BY <1>1, <1>2, InitInv, PTL DEF Spec

\* A collection or a snapshot runs alone: no guest owner, no queued turn, every
\* attached image quiesced for this very pause with its log fenced.
THEOREM OperationAloneHolds == Spec => []OperationAlone
<1>1. ExchangeInv => OperationAlone
  <2> SUFFICES ASSUME ExchangeInv, owner.phase = "operate", ~host.gate
               PROVE  /\ ~Entered /\ ready = <<>>
                      /\ \A i \in Images : img[i].up = "on" /\ Healthy(i) =>
                           /\ owner.quiescent[i] = Gen /\ img[i].gen = Gen
                           /\ img[i].acked /\ img[i].durable = img[i].issued
    BY DEF OperationAlone, Attached
  <2>1. ~Entered /\ ready = <<>> /\ Gen > 0
    BY DEF ExchangeInv, PauseInv, PauseOk, Pausing, Phases, Gen
  <2>2. ASSUME NEW i \in Images, img[i].up = "on", Healthy(i)
        PROVE  /\ owner.quiescent[i] = Gen /\ img[i].gen = Gen
               /\ img[i].acked /\ img[i].durable = img[i].issued
    <3>1. HealthyInv(i, img[i], events[i], replies[i], owner, Gen, manifest[i])
      BY <2>2 DEF ExchangeInv, PortInv, PortsOk
    <3>2. OnInv(i, img[i], events[i], replies[i], owner, Gen)
      BY <2>2, <3>1 DEF HealthyInv
    <3>3. owner.quiescent[i] = Gen /\ img[i].gen = Gen /\ img[i].acked
      BY <3>2 DEF OnInv, Asked
    <3>4. owner.quiescent[i] # 0
      BY <2>1, <3>3
    <3> QED BY <3>1, <3>3, <3>4 DEF HealthyInv
  <2> QED BY <2>1, <2>2
<1> QED BY <1>1, ExchangeHolds, PTL

\* Only Owner::snapshot publishes a snapshot.
LEMMA OthersPublishNothing ==
  ASSUME [Next]_vars, ~Snapshot PROVE snaps' = snaps
<1>1. CASE Environment
  BY <1>1 DEF Environment, Attach, Enter, CancelRollover, Exit, FailImage, Overdue,
     Rotate, Request, Pressure, DrainExpired, Shutdown
<1>2. CASE OwnerStep
  BY <1>2 DEF OwnerStep, AutoCollect, TakeReady, Receive, Unanswered, DrainReady,
     Drained, Quiesce, Begin, Collect, CompactNext, Resume, Unwind, Ends
<1>3. CASE \E i \in Images : Reactor(i)
  BY <1>3 DEF Reactor, Leave, Fence, ChooseTurn, Queue, Acknowledge, Poll, Disconnect
<1>4. CASE UNCHANGED vars
  BY <1>4 DEF vars
<1> QED BY <1>1, <1>2, <1>3, <1>4 DEF Next

\* A published snapshot is cut where its image stands: all it was issued, all
\* its log has seen compacted, with no guest owner left.
THEOREM SnapshotCutHolds == Spec => SnapshotCut
<1>1. ASSUME ExchangeInv, CutInv, [Next]_vars
      PROVE  \A s \in snaps' \ snaps :
               /\ s.cut = img[s.image].issued /\ s.cut = manifest[s.image]
               /\ img[s.image].compacted = s.cut /\ img[s.image].entries = 0
  <2> SUFFICES ASSUME NEW s \in snaps' \ snaps
               PROVE  /\ s.cut = img[s.image].issued /\ s.cut = manifest[s.image]
                      /\ img[s.image].compacted = s.cut /\ img[s.image].entries = 0
    OBVIOUS
  <2>1. Snapshot
    BY <1>1, OthersPublishNothing
  <2>2. PICK i : i = owner.target
    OBVIOUS
  <2>3. /\ owner.phase = "operate" /\ owner.event = "none" /\ owner.operation = "snapshot"
        /\ owner.checked \/ owner.quiescent[i] = Gen
        /\ manifest[i] = img[i].durable
        /\ s = [image |-> i, cut |-> manifest[i]]
    BY <2>1, <2>2 DEF Snapshot, At, Waiting
  <2>4. i \in Images /\ owner.phase \in Pausing
    BY <1>1, <2>2, <2>3 DEF ExchangeInv, OwnerInv, OwnerOk, Pausing, Phases
  <2>5. Acked(i) /\ CutOf(i)
    BY <1>1, <2>2, <2>3, <2>4 DEF CutInv, CheckedInv, Acked
  <2>6. Settled(i)
    BY <2>4, <2>5 DEF CutOf
  <2> QED BY <2>3, <2>6 DEF Settled
<1> QED BY <1>1, ExchangeHolds, CutHolds, PTL DEF Spec, SnapshotCut

-----------------------------------------------------------------------------
(* Nothing fails without an excuse: what holds until a fault is injected or *)
(* an operation loses its image.                                           *)

\* The ready queue rd holds a turn of image i.
HasTurn(rd, i) == \E k \in DOMAIN rd : rd[k].op \notin Operations /\ rd[k].image = i

\* Phases in which a queued turn may have been cancelled by its image's Quiesce.
Loose == {"quiesce", "settle", "unnotify"}

\* The image has an answer to give, or has given one that goes on.
Engaged(i, r, o) ==
  /\ o.image = i /\ o.event \notin {"quiesce", "resume"}
  /\ r # <<>> => Head(r).op \in {"selected", "reclaim", "rotation"}

CleanPort(i, p, e, r, rd, o, g) ==
  /\ ~p.failed
  /\ p.active => p.up = "on"
  /\ p.turn # "none" => p.up = "on" /\ ~p.active /\ p.gen = 0
  /\ e # <<>> => \/ e = Closed /\ p.up = "off"
                 \/ /\ o.image = i /\ Head(e).op = o.event /\ Head(e).gen = g
                    /\ r = <<>>
  /\ r # <<>> => /\ o.image = i /\ Head(r).for = o.event
                 /\ Head(r).op \in Expected[o.event]
                 /\ Head(r).op = "quiesced" => Head(r).gen = g
  /\ Engaged(i, r, o) =>
       /\ ~HasTurn(rd, i)
       /\ p.up = "on" => p.active \/ p.gen # 0
       /\ o.phase = "turn" => p.active
       /\ o.phase = "compact" => p.up = "on"
  /\ p.up = "on" /\ (o.quiescent[i] # 0 \/ (o.image = i /\ o.event = "resume" /\ r = <<>>)) =>
       p.gen = g /\ p.acked
  /\ o.image = i /\ o.event = "resume" => o.quiescent[i] = 0
  /\ HasTurn(rd, i) =>
       /\ p.up = "on" => p.active \/ p.gen # 0
       /\ o.phase \notin Loose => p.active

\* No image queues a second turn.
OneTurn(rd) ==
  \A k, l \in DOMAIN rd :
    rd[k].op \notin Operations /\ rd[l].op \notin Operations /\ rd[k].image = rd[l].image =>
      k = l

Clean(rs, rd, o) ==
  /\ ~host.gate /\ ~host.failed /\ OneTurn(rd)
  /\ \A i \in Images : CleanPort(i, img[i], events[i], rs[i], rd, o, Gen)

CleanInv == ~excused => Clean(replies, ready, owner)

\* What it says of one image.
LEMMA CleanOf ==
  ASSUME CleanInv, ~excused, NEW i \in Images
  PROVE  /\ CleanPort(i, img[i], events[i], replies[i], ready, owner, Gen)
         /\ ~host.gate /\ ~host.failed /\ OneTurn(ready) /\ ~img[i].failed
         /\ Healthy(i)
BY DEF CleanInv, Clean, CleanPort, Healthy

\* A step that leaves the host as it was, as far as faults go.
HostClean ==
  /\ host'.gate = host.gate /\ host'.failed = host.failed
  /\ host'.generation = host.generation

\* A step that rewrites one image's port and slots.
LEMMA CleanOne ==
  ASSUME ExchangeInv, CleanInv, NEW i \in Images, NEW p, NEW e, NEW r,
         img' = [img EXCEPT ![i] = p], events' = [events EXCEPT ![i] = e],
         replies' = [replies EXCEPT ![i] = r], UNCHANGED <<ready, owner>>,
         ~excused' => ~excused /\ HostClean /\ CleanPort(i, p, e, r, ready, owner, Gen)
  PROVE  CleanInv'
<1> SUFFICES ASSUME ~excused' PROVE Clean(replies, ready, owner)'
  BY DEF CleanInv
<1>1. ~excused /\ HostClean /\ CleanPort(i, p, e, r, ready, owner, Gen)
  OBVIOUS
<1>2. ~host.gate /\ ~host.failed /\ OneTurn(ready)
  BY <1>1, CleanOf
<1>3. Gen' = Gen /\ ~host'.gate /\ ~host'.failed
  BY <1>1, <1>2 DEF Gen, HostClean
<1>4. img'[i] = p /\ events'[i] = e /\ replies'[i] = r
      /\ \A j \in Images \ {i} : /\ img'[j] = img[j] /\ events'[j] = events[j]
                                 /\ replies'[j] = replies[j]
  BY DEF ExchangeInv, TypeInv, TypeOk
<1>5. ASSUME NEW j \in Images
      PROVE  CleanPort(j, img'[j], events'[j], replies'[j], ready, owner, Gen)
  <2>1. CASE j = i
    BY <1>1, <1>4, <2>1
  <2>2. CASE j # i
    BY <1>1, <1>4, <2>2, CleanOf
  <2> QED BY <2>1, <2>2
<1> QED BY <1>2, <1>3, <1>5 DEF Clean

\* The same, with both slots left alone.
LEMMA CleanPorts ==
  ASSUME ExchangeInv, CleanInv, NEW i \in Images, NEW p,
         img' = [img EXCEPT ![i] = p], UNCHANGED <<events, replies, ready, owner>>,
         ~excused' => /\ ~excused /\ HostClean
                      /\ CleanPort(i, p, events[i], replies[i], ready, owner, Gen)
  PROVE  CleanInv'
<1>1. PICK e, r : e = events[i] /\ r = replies[i]
  OBVIOUS
<1>2. /\ events' = [events EXCEPT ![i] = e] /\ replies' = [replies EXCEPT ![i] = r]
      /\ UNCHANGED <<ready, owner>>
  BY <1>1 DEF ExchangeInv, TypeInv, TypeOk
<1>3. ~excused' => ~excused /\ HostClean /\ CleanPort(i, p, e, r, ready, owner, Gen)
  BY <1>1
<1> QED BY <1>2, <1>3, CleanOne

\* What the exchange reads of a port but for its turn.
SameExchange(p, q) ==
  /\ p.up = q.up /\ p.failed = q.failed /\ p.active = q.active
  /\ p.gen = q.gen /\ p.acked = q.acked

\* A step of the image's own: at most a turn is chosen.
LEMMA CleanTurn ==
  ASSUME ExchangeInv, CleanInv, NEW i \in Images, NEW p,
         img' = [img EXCEPT ![i] = p], UNCHANGED <<events, replies, ready, owner, excused>>,
         HostClean, SameExchange(p, img[i]),
         p.turn = img[i].turn
           \/ (p.turn # "none" => p.up = "on" /\ ~p.active /\ p.gen = 0)
  PROVE  CleanInv'
<1>1. ASSUME ~excused
      PROVE  CleanPort(i, p, events[i], replies[i], ready, owner, Gen)
  <2>1. CleanPort(i, img[i], events[i], replies[i], ready, owner, Gen)
    BY <1>1, CleanOf
  <2> QED BY <2>1 DEF CleanPort, SameExchange
<1> QED BY <1>1, CleanPorts

\* Mutations, fences and rollovers given up.
LEMMA EnterClean ==
  ASSUME ExchangeInv, CleanInv, NEW i \in Images, Enter(i) PROVE CleanInv'
<1>1. PICK p : p = [img[i] EXCEPT !.entries = 1]
  OBVIOUS
<1>2. /\ img' = [img EXCEPT ![i] = p] /\ host' = [host EXCEPT !.left.mutate = @ - 1]
      /\ UNCHANGED <<events, replies, ready, owner, excused>>
  BY <1>1 DEF Enter
<1>3. SameExchange(p, img[i]) /\ p.turn = img[i].turn
  BY <1>1, PortOf DEF PortType, SameExchange
<1>4. HostClean
  BY <1>2, PortOf DEF HostType, HostClean
<1> QED BY <1>2, <1>3, <1>4, CleanTurn

LEMMA LeaveClean ==
  ASSUME ExchangeInv, CleanInv, NEW i \in Images, Leave(i) PROVE CleanInv'
<1>1. PICK n : n = IF Healthy(i) THEN img[i].issued + 1 ELSE img[i].issued
  OBVIOUS
<1>2. PICK p : p = [img[i] EXCEPT !.entries = 0, !.issued = n]
  OBVIOUS
<1>3. /\ img' = [img EXCEPT ![i] = p]
      /\ UNCHANGED <<events, replies, ready, owner, excused, host>>
  BY <1>1, <1>2 DEF Leave
<1>4. SameExchange(p, img[i]) /\ p.turn = img[i].turn
  BY ZenonT(60), <1>2, PortOf DEF PortType, SameExchange
<1>5. HostClean
  BY <1>3 DEF HostClean
<1> QED BY <1>3, <1>4, <1>5, CleanTurn

LEMMA FenceClean ==
  ASSUME ExchangeInv, CleanInv, NEW i \in Images, Fence(i) PROVE CleanInv'
<1>1. PICK p : p = [img[i] EXCEPT !.durable = img[i].issued]
  OBVIOUS
<1>2. /\ img' = [img EXCEPT ![i] = p]
      /\ UNCHANGED <<events, replies, ready, owner, excused, host>>
  BY <1>1 DEF Fence
<1>3. SameExchange(p, img[i]) /\ p.turn = img[i].turn
  BY <1>1, PortOf DEF PortType, SameExchange
<1>4. HostClean
  BY <1>2 DEF HostClean
<1> QED BY <1>2, <1>3, <1>4, CleanTurn

LEMMA CancelRolloverClean ==
  ASSUME ExchangeInv, CleanInv, NEW i \in Images, CancelRollover(i) PROVE CleanInv'
<1>1. PICK p : p = [img[i] EXCEPT !.rotation = "none"]
  OBVIOUS
<1>2. /\ img' = [img EXCEPT ![i] = p]
      /\ UNCHANGED <<events, replies, ready, owner, excused, host>>
  BY <1>1 DEF CancelRollover
<1>3. SameExchange(p, img[i]) /\ p.turn = img[i].turn
  BY <1>1, PortOf DEF PortType, SameExchange
<1>4. HostClean
  BY <1>2 DEF HostClean
<1> QED BY <1>2, <1>3, <1>4, CleanTurn

\* A turn is chosen by an idle image only.
LEMMA ChooseTurnClean ==
  ASSUME ExchangeInv, CleanInv, NEW i \in Images, ChooseTurn(i) PROVE CleanInv'
<1>1. PICK turn \in {"rotate", "compact"} : img' = [img EXCEPT ![i].turn = turn]
  BY DEF ChooseTurn
<1>2. PICK p : p = [img[i] EXCEPT !.turn = turn]
  OBVIOUS
<1>3. /\ img' = [img EXCEPT ![i] = p] /\ img[i].up = "on" /\ ~img[i].active /\ img[i].gen = 0
      /\ UNCHANGED <<events, replies, ready, owner, excused, host>>
  BY <1>1, <1>2 DEF ChooseTurn, Running
<1>4. SameExchange(p, img[i])
  BY <1>2, PortOf DEF PortType, SameExchange
<1>5. HostClean
  BY <1>3 DEF HostClean
<1>6. p.up = "on" /\ ~p.active /\ p.gen = 0
  BY <1>3, <1>4 DEF SameExchange
<1> QED BY <1>3, <1>4, <1>5, <1>6, CleanTurn

LEMMA RotateClean ==
  ASSUME ExchangeInv, CleanInv, NEW i \in Images, NEW kind, Rotate(i, kind) PROVE CleanInv'
<1>1. PICK t : t = IF img[i].active \/ host.paused THEN "none" ELSE "rotate"
  OBVIOUS
<1>2. PICK p : p = [img[i] EXCEPT !.rotation = kind, !.turn = t]
  OBVIOUS
<1>3. /\ img' = [img EXCEPT ![i] = p] /\ img[i].up = "on" /\ img[i].gen = 0
      /\ host' = [host EXCEPT !.left.rotate = @ - 1]
      /\ UNCHANGED <<events, replies, ready, owner, excused>>
  BY <1>1, <1>2 DEF Rotate, Running
<1>4. SameExchange(p, img[i]) /\ p.turn = t
  BY <1>2, PortOf DEF PortType, SameExchange
<1>5. HostClean
  BY <1>3, PortOf DEF HostType, HostClean
<1>6. t # "none" => p.up = "on" /\ ~p.active /\ p.gen = 0
  BY <1>1, <1>3, <1>4 DEF SameExchange
<1> QED BY <1>3, <1>4, <1>5, <1>6, CleanTurn

\* A new image has an empty port.
LEMMA AttachClean ==
  ASSUME ExchangeInv, CleanInv, NEW i \in Images, Attach(i) PROVE CleanInv'
<1>1. PICK p : p = [img[i] EXCEPT !.up = "on"]
  OBVIOUS
<1>2. /\ img' = [img EXCEPT ![i] = p] /\ img[i].up = "new"
      /\ UNCHANGED <<events, replies, ready, owner, excused, host>>
  BY <1>1 DEF Attach
<1>3. /\ p.up = "on" /\ p.failed = img[i].failed /\ p.turn = img[i].turn
      /\ p.active = img[i].active /\ p.gen = img[i].gen /\ p.acked = img[i].acked
  BY <1>1, PortOf DEF PortType
<1>4. ASSUME ~excused
      PROVE  CleanPort(i, p, events[i], replies[i], ready, owner, Gen)
  <2>1. CleanPort(i, img[i], events[i], replies[i], ready, owner, Gen)
        /\ ~img[i].failed /\ ~host.gate
    BY <1>4, CleanOf
  <2>2. /\ events[i] = <<>> /\ replies[i] = <<>> /\ img[i].gen = 0
        /\ owner.image # i /\ owner.quiescent[i] = 0
    BY <1>2, <2>1, PortOf DEF HealthyInv
  <2>3. ~HasTurn(ready, i)
    BY <1>2 DEF HasTurn, ExchangeInv, PauseInv, PauseOk
  <2> QED BY <1>2, <1>3, <2>1, <2>2, <2>3 DEF CleanPort, Engaged
<1>5. HostClean
  BY <1>2 DEF HostClean
<1> QED BY <1>2, <1>4, <1>5, CleanPorts

\* An image leaves between turns, with nothing to answer but what it may leave
\* unanswered.
LEMMA ExitClean ==
  ASSUME ExchangeInv, CleanInv, NEW i \in Images, Exit(i) PROVE CleanInv'
<1>1. PICK p : p = Left(img[i], "stopped")
  OBVIOUS
<1>2. /\ img' = [img EXCEPT ![i] = p] /\ img[i].up = "on"
      /\ Healthy(i) => ~img[i].active
      /\ excused' = (excused \/ (owner.phase = "compact" /\ owner.image = i))
      /\ UNCHANGED <<events, replies, ready, owner, host>>
  BY <1>1 DEF Exit
<1>3. /\ p.up = "stopped" /\ p.failed = img[i].failed /\ p.turn = "none"
  BY <1>1, PortOf, LeftPort DEF Ups
<1>4. ~p.active
  BY <1>1, PortOf DEF Left, PortType
<1>5. ASSUME ~excused'
      PROVE  CleanPort(i, p, events[i], replies[i], ready, owner, Gen) /\ ~excused
  <2>1. ~excused /\ ~(owner.phase = "compact" /\ owner.image = i)
    BY <1>2, <1>5
  <2>2. CleanPort(i, img[i], events[i], replies[i], ready, owner, Gen) /\ ~img[i].active
    BY <1>2, <2>1, CleanOf
  <2> QED BY <1>2, <1>3, <1>4, <2>1, <2>2 DEF CleanPort, Engaged
<1>6. HostClean
  BY <1>2 DEF HostClean
<1> QED BY <1>2, <1>5, <1>6, CleanPorts

\* It is detached, then its channels close.
LEMMA DisconnectClean ==
  ASSUME ExchangeInv, CleanInv, NEW i \in Images, Disconnect(i) PROVE CleanInv'
<1>0. HostClean /\ UNCHANGED <<replies, ready, host, owner, excused>>
  BY DEF HostClean, Disconnect
<1>1. CASE img[i].up = "stopped" /\ img' = [img EXCEPT ![i].up = "detached"]
             /\ UNCHANGED events
  <2>1. PICK p : p = [img[i] EXCEPT !.up = "detached"]
    OBVIOUS
  <2>2. img' = [img EXCEPT ![i] = p]
    BY <1>1, <2>1
  <2>3. /\ p.up = "detached" /\ p.active = img[i].active
        /\ p.failed = img[i].failed /\ p.turn = img[i].turn
    BY <2>1, PortOf DEF PortType
  <2>4. ASSUME ~excused
        PROVE  CleanPort(i, p, events[i], replies[i], ready, owner, Gen)
    <3>1. CleanPort(i, img[i], events[i], replies[i], ready, owner, Gen)
      BY <2>4, CleanOf
    <3> QED BY <1>1, <2>3, <3>1 DEF CleanPort
  <2> QED BY <1>0, <1>1, <2>2, <2>4, CleanPorts
<1>2. CASE img[i].up = "detached" /\ img' = [img EXCEPT ![i].up = "off"]
             /\ events' = [events EXCEPT ![i] = Closed]
  <2>1. PICK p : p = [img[i] EXCEPT !.up = "off"]
    OBVIOUS
  <2>2. img' = [img EXCEPT ![i] = p]
    BY <1>2, <2>1
  <2>3. /\ p.up = "off" /\ p.active = img[i].active
        /\ p.failed = img[i].failed /\ p.turn = img[i].turn
    BY <2>1, PortOf DEF PortType
  <2>4. ASSUME ~excused
        PROVE  CleanPort(i, p, Closed, replies[i], ready, owner, Gen)
    <3>1. CleanPort(i, img[i], events[i], replies[i], ready, owner, Gen)
      BY <2>4, CleanOf
    <3> QED BY <1>2, <2>3, <3>1 DEF CleanPort
  <2>5. replies' = [replies EXCEPT ![i] = replies[i]]
    BY <1>0, PortOf DEF ExchangeInv, TypeInv, TypeOk
  <2> QED BY <1>0, <1>2, <2>2, <2>4, <2>5, CleanOne
<1> QED BY <1>1, <1>2 DEF Disconnect

\* The acknowledgement finds its reply slot empty.
LEMMA AcknowledgeClean ==
  ASSUME ExchangeInv, CleanInv, NEW i \in Images, Acknowledge(i) PROVE CleanInv'
<1>0. HostClean /\ UNCHANGED <<events, ready, host, owner, excused>>
  BY DEF HostClean, Acknowledge
<1> SUFFICES ASSUME ~excused PROVE CleanInv'
  BY <1>0 DEF CleanInv
<1>1. CleanPort(i, img[i], events[i], replies[i], ready, owner, Gen)
      /\ ~host.gate /\ ~img[i].failed
  BY CleanOf
<1>2. img[i].gen # 0 /\ ~img[i].acked /\ img[i].up = "on" /\ img[i].turn = "none"
  BY DEF Acknowledge, Running
<1>3. OnInv(i, img[i], events[i], replies[i], owner, host.generation)
  BY <1>1, <1>2, PortOf DEF HealthyInv
<1>4. /\ owner.image = i /\ owner.event = "quiesce" /\ img[i].gen = host.generation
      /\ events[i] = <<>> /\ replies[i] = <<>>
  BY <1>1, <1>2, <1>3 DEF OnInv, CleanPort
<1>5. PICK p : p = [img[i] EXCEPT !.acked = TRUE]
  OBVIOUS
<1>6. PICK r : r = <<Reply("quiesced", "quiesce", img[i].gen)>>
  OBVIOUS
<1>7. img' = [img EXCEPT ![i] = p] /\ replies' = [replies EXCEPT ![i] = r]
  BY <1>4, <1>5, <1>6 DEF Acknowledge
<1>8. /\ p.up = "on" /\ p.failed = img[i].failed /\ p.turn = "none"
      /\ p.active = img[i].active /\ p.gen = img[i].gen /\ p.acked
  BY <1>2, <1>5, PortOf DEF PortType
<1>9. /\ r # <<>> /\ Head(r).op = "quiesced" /\ Head(r).for = "quiesce"
      /\ Head(r).gen = img[i].gen
  BY <1>6 DEF Reply
<1>10. CleanPort(i, p, events[i], r, ready, owner, Gen)
  <2>1. /\ Head(r).op \in Expected[owner.event] /\ Head(r).gen = Gen
        /\ ~Engaged(i, r, owner)
    BY <1>4, <1>9, ExpectedIs DEF Engaged, Gen
  <2> QED BY <1>1, <1>2, <1>4, <1>8, <1>9, <2>1 DEF CleanPort, Gen
<1>11. events' = [events EXCEPT ![i] = events[i]]
  BY <1>0, PortOf DEF ExchangeInv, TypeInv, TypeOk
<1> QED BY <1>0, <1>7, <1>10, <1>11, CleanOne

\* Port::poll finds every event in sequence and its reply slot empty.
LEMMA PollClean ==
  ASSUME ExchangeInv, CleanInv, NEW i \in Images, Poll(i) PROVE CleanInv'
<1>0. /\ HostClean /\ UNCHANGED <<ready, host, owner, excused>>
      /\ events' = [events EXCEPT ![i] = <<>>]
      /\ img[i].up = "on" /\ img[i].turn = "none" /\ events[i] # <<>>
  BY DEF HostClean, Poll
<1> SUFFICES ASSUME ~excused PROVE CleanInv'
  BY <1>0 DEF CleanInv
<1>1. CleanPort(i, img[i], events[i], replies[i], ready, owner, Gen)
      /\ ~host.gate /\ ~img[i].failed
  BY CleanOf
<1>2. PICK e : e = Head(events[i])
  OBVIOUS
<1>3. owner.image = i /\ e.op = owner.event /\ e.gen = Gen /\ replies[i] = <<>>
  BY <1>0, <1>1, <1>2 DEF CleanPort
<1>4. e \in EventType /\ e.op \in EventOps
  BY <1>0, <1>2, PortOf, SlotHead DEF EventType
<1>5. owner.event \notin {"none", "failed", "closed"}
  BY <1>3, ImagesNat DEF ExchangeInv, TypeInv, TypeOk, OwnerType, OwnerInv, OwnerOk, EventOps
<1>6. ASSUME NEW a \in Answers(img[i], e), a[2] = "error" PROVE FALSE
  <2>1. e.op = "resume" => img[i].gen = e.gen /\ img[i].acked
    BY <1>0, <1>1, <1>3 DEF CleanPort
  <2>2. e.op = "compactq" => img[i].gen = e.gen /\ img[i].acked
    <3> SUFFICES ASSUME owner.event = "compactq" PROVE img[i].gen = Gen /\ img[i].acked
      BY <1>3
    <3>1. owner.quiescent[i] # 0
      BY <1>1, <1>3 DEF ExchangeInv, OwnerInv, OwnerOk, QuiescentInv, QuiescentOk
    <3> QED BY <1>0, <1>1, <3>1 DEF CleanPort
  <2>3. e.op \in EventOps \ {"failed", "closed"}
    BY <1>3, <1>4, <1>5
  <2> QED BY <1>6, <2>1, <2>2, <2>3 DEF Answers, EventOps
<1>7. PICK a \in Answers(img[i], e) :
        /\ img' = [img EXCEPT ![i] = a[1]]
        /\ replies' = IF a[2] = "later" THEN replies
             ELSE [replies EXCEPT ![i] = <<Reply(a[2], e.op, 0)>>]
  BY <1>1, <1>2, <1>3, <1>6 DEF Poll
<1>8. PICK p, q, w : p = img[i] /\ q = a[1] /\ w = a[2]
  OBVIOUS
<1>9. Answered(p, e, q, w)
  BY <1>4, <1>6, <1>8, PortOf, AnswersAnswered
<1>10. PICK r : r = IF w = "later" THEN <<>> ELSE <<Reply(w, e.op, 0)>>
  OBVIOUS
<1>11. img' = [img EXCEPT ![i] = q] /\ replies' = [replies EXCEPT ![i] = r]
  BY <1>3, <1>7, <1>8, <1>10 DEF ExchangeInv, TypeInv, TypeOk
<1>12. /\ w # "later" => r # <<>> /\ Head(r).op = w /\ Head(r).for = e.op
       /\ w = "later" => r = <<>>
  BY <1>10 DEF Reply
<1>13. CleanPort(i, q, <<>>, r, ready, owner, Gen)
  <2>1. /\ q.up = "on" /\ ~q.failed /\ q.turn = "none"
    BY <1>0, <1>1, <1>8, <1>9 DEF Answered
  <2>2. r # <<>> => Head(r).for = owner.event /\ Head(r).op \in Expected[owner.event]
                    /\ Head(r).op = w /\ w # "quiesced"
    BY <1>3, <1>9, <1>12 DEF Answered, ReplyOps
  <2>3. CASE owner.event = "quiesce"
    <3>1. owner.phase = "quiesce" /\ owner.quiescent[i] = 0 /\ Gen # 0
      BY <1>1, <1>3, <2>3, ImagesNat DEF ExchangeInv, OwnerInv, OwnerOk, QuiescentInv,
         QuiescentOk, PauseInv, PauseOk, Pausing, Phases, Gen
    <3>2. HasTurn(ready, i) => q.active \/ q.gen # 0
      BY <1>0, <1>1, <1>3, <1>8, <1>9, <2>3, <3>1 DEF CleanPort, Answered
    <3> QED BY <1>3, <2>1, <2>2, <2>3, <3>1, <3>2 DEF CleanPort, Engaged, Loose
  <2>4. CASE owner.event = "resume"
    <3>1. owner.phase \notin Loose /\ owner.quiescent[i] = 0
      BY <1>1, <1>3, <2>4 DEF ExchangeInv, OwnerInv, OwnerOk, Loose, CleanPort
    <3>2. w # "later" /\ q.active = p.active
      BY <1>3, <1>9, <2>4 DEF Answered
    <3>3. HasTurn(ready, i) => q.active
      BY <1>1, <1>8, <3>1, <3>2 DEF CleanPort
    <3> QED BY <1>3, <1>12, <2>1, <2>2, <2>4, <3>1, <3>2, <3>3 DEF CleanPort, Engaged
  <2>5. CASE owner.event \notin {"quiesce", "resume"}
    <3>1. Engaged(i, replies[i], owner)
      BY <1>3, <2>5 DEF Engaged
    <3>2. ~HasTurn(ready, i) /\ (p.active \/ p.gen # 0) /\ (owner.phase = "turn" => p.active)
      BY <1>0, <1>1, <1>8, <3>1 DEF CleanPort
    <3>3. w # "later" /\ q.gen = p.gen /\ q.acked = p.acked
      BY <1>3, <1>9, <2>5 DEF Answered
    <3>4. Engaged(i, r, owner) => (q.active \/ q.gen # 0) /\ (owner.phase = "turn" => q.active)
      BY <1>9, <1>12, <3>2, <3>3 DEF Engaged, Answered
    <3>5. owner.quiescent[i] # 0 => q.gen = Gen /\ q.acked
      BY <1>0, <1>1, <1>8, <3>3 DEF CleanPort
    <3> QED BY <1>3, <2>1, <2>2, <2>5, <3>2, <3>4, <3>5 DEF CleanPort
  <2> QED BY <2>3, <2>4, <2>5
<1> QED BY <1>0, <1>11, <1>13, CleanOne

\* What a new entry of the ready queue adds.
LEMMA AppendTurn ==
  ASSUME NEW rd \in Seq(ReadyType), NEW t \in ReadyType
  PROVE  /\ \A j : HasTurn(Append(rd, t), j) =>
              HasTurn(rd, j) \/ (t.op \notin Operations /\ t.image = j)
         /\ OneTurn(rd) /\ (t.op \notin Operations => ~HasTurn(rd, t.image)) =>
              OneTurn(Append(rd, t))
<1>1. PICK q : q = Append(rd, t)
  OBVIOUS
<1>2. /\ DOMAIN q = 1 .. Len(rd) + 1 /\ DOMAIN rd = 1 .. Len(rd) /\ Len(rd) \in Nat
      /\ \A k \in DOMAIN rd : q[k] = rd[k] /\ k # Len(rd) + 1
      /\ q[Len(rd) + 1] = t
  BY <1>1
<1>3. \A k \in DOMAIN q : k \in DOMAIN rd \/ k = Len(rd) + 1
  BY <1>2
<1>4. \A j : HasTurn(q, j) => HasTurn(rd, j) \/ (t.op \notin Operations /\ t.image = j)
  BY <1>2, <1>3 DEF HasTurn
<1>5. ASSUME OneTurn(rd), t.op \notin Operations => ~HasTurn(rd, t.image)
      PROVE  OneTurn(q)
  <2> SUFFICES ASSUME NEW k \in DOMAIN q, NEW l \in DOMAIN q, q[k].op \notin Operations,
                      q[l].op \notin Operations, q[k].image = q[l].image
               PROVE  k = l
    BY DEF OneTurn
  <2>1. CASE k \in DOMAIN rd /\ l \in DOMAIN rd
    BY <1>2, <1>5, <2>1 DEF OneTurn
  <2>2. CASE k \in DOMAIN rd /\ l = Len(rd) + 1
    BY <1>2, <1>5, <2>2 DEF HasTurn
  <2>3. CASE k = Len(rd) + 1 /\ l \in DOMAIN rd
    BY <1>2, <1>5, <2>3 DEF HasTurn
  <2> QED BY <1>3, <2>1, <2>2, <2>3
<1> QED BY <1>1, <1>4, <1>5

\* What taking the oldest entry leaves.
LEMMA TailTurn ==
  ASSUME NEW rd \in Seq(ReadyType), rd # <<>>
  PROVE  /\ \A j : HasTurn(Tail(rd), j) => HasTurn(rd, j)
         /\ OneTurn(rd) => OneTurn(Tail(rd))
         /\ Head(rd).op \notin Operations => HasTurn(rd, Head(rd).image)
         /\ OneTurn(rd) /\ Head(rd).op \notin Operations =>
              ~HasTurn(Tail(rd), Head(rd).image)
<1>1. PICK t : t = Tail(rd)
  OBVIOUS
<1>2. /\ DOMAIN t = 1 .. Len(t) /\ DOMAIN rd = 1 .. Len(t) + 1
      /\ Len(t) \in Nat /\ \A k \in DOMAIN t : t[k] = rd[k + 1]
      /\ Head(rd) = rd[1]
  BY <1>1
<1>3. \A k \in DOMAIN t : k + 1 \in DOMAIN rd /\ k + 1 # 1
  BY <1>2
<1>4. 1 \in DOMAIN rd
  BY <1>2
<1>5. \A j : HasTurn(t, j) => HasTurn(rd, j)
  BY <1>2, <1>3 DEF HasTurn
<1>6. OneTurn(rd) => OneTurn(t)
  <2> SUFFICES ASSUME OneTurn(rd), NEW k \in DOMAIN t, NEW l \in DOMAIN t,
                      t[k].op \notin Operations, t[l].op \notin Operations,
                      t[k].image = t[l].image
               PROVE  k = l
    BY DEF OneTurn
  <2>1. /\ rd[k + 1].op \notin Operations /\ rd[l + 1].op \notin Operations
        /\ rd[k + 1].image = rd[l + 1].image
    BY <1>2
  <2>2. k + 1 = l + 1
    BY <1>3, <2>1 DEF OneTurn
  <2> QED BY <1>2, <2>2
<1>7. Head(rd).op \notin Operations => HasTurn(rd, Head(rd).image)
  BY <1>2, <1>4 DEF HasTurn
<1>8. OneTurn(rd) /\ Head(rd).op \notin Operations => ~HasTurn(t, Head(rd).image)
  <2> SUFFICES ASSUME OneTurn(rd), rd[1].op \notin Operations, NEW k \in DOMAIN t,
                      t[k].op \notin Operations, t[k].image = rd[1].image
               PROVE  FALSE
    BY <1>2 DEF HasTurn
  <2>1. rd[k + 1].op \notin Operations /\ rd[k + 1].image = rd[1].image
    BY <1>2
  <2> QED BY <1>3, <1>4, <2>1 DEF OneTurn
<1> QED BY <1>1, <1>5, <1>6, <1>7, <1>8

\* The ready queue has room for the turn of every image and one request.
LEMMA QueueFits ==
  ASSUME ExchangeInv, OneTurn(ready), NEW i \in Images, ~HasTurn(ready, i)
  PROVE  Len(ready) < Room
<1>1. PICK S : S = (Images \ {i}) \cup {0}
  OBVIOUS
<1>2. IsFiniteSet(S) /\ Cardinality(S) = Cardinality(Images) /\ Cardinality(Images) \in Nat
  <2>1. IsFiniteSet(Images) /\ Cardinality(Images) \in Nat
    BY ExchangeConstants, FS_CardinalityType
  <2>2. IsFiniteSet(Images \ {i}) /\ Cardinality(Images \ {i}) = Cardinality(Images) - 1
    BY <2>1, FS_RemoveElement
  <2>3. 0 \notin Images \ {i}
    BY ImagesNat
  <2>4. IsFiniteSet(S) /\ Cardinality(S) = Cardinality(Images \ {i}) + 1
    BY <1>1, <2>2, <2>3, FS_AddElement
  <2> QED BY <2>1, <2>2, <2>4
<1>3. /\ ready \in Seq(ReadyType) /\ Len(ready) \in Nat /\ DOMAIN ready = 1 .. Len(ready)
      /\ \A k \in DOMAIN ready : ready[k] \in ReadyType
  BY DEF ExchangeInv, TypeInv, TypeOk
<1>4. PICK f : f = [k \in 1 .. Len(ready) |->
                     IF ready[k].op \in Operations THEN 0 ELSE ready[k].image]
  OBVIOUS
<1>5. \A k \in 1 .. Len(ready) : ready[k].op \notin Operations =>
        ready[k].image \in Images \ {i} /\ ready[k].image # 0
  BY <1>3, ImagesNat DEF HasTurn, ReadyType
<1>6. f \in [1 .. Len(ready) -> S]
  BY <1>1, <1>4, <1>5
<1>7. ASSUME NEW k \in 1 .. Len(ready), NEW l \in 1 .. Len(ready), f[k] = f[l]
      PROVE  k = l
  <2>1. CASE ready[k].op \in Operations
    <3>1. ready[l].op \in Operations
      BY <1>4, <1>5, <1>7, <2>1
    <3> QED BY <1>3, <2>1, <3>1 DEF ExchangeInv, PauseInv, PauseOk
  <2>2. CASE ready[k].op \notin Operations
    <3>1. ready[l].op \notin Operations /\ ready[l].image = ready[k].image
      BY <1>4, <1>5, <1>7, <2>2
    <3> QED BY <1>3, <2>2, <3>1 DEF OneTurn
  <2> QED BY <2>1, <2>2
<1>8. f \in Injection(1 .. Len(ready), S)
  BY <1>6, <1>7 DEF Injection, IsInjective
<1>9. Cardinality(1 .. Len(ready)) <= Cardinality(S)
  BY <1>2, <1>8, FS_Injection
<1>10. Cardinality(1 .. Len(ready)) = Len(ready)
  BY <1>3, FS_Interval
<1> QED BY <1>2, <1>3, <1>9, <1>10 DEF Room

\* A port does not mind a queue with fewer turns of its own.
LEMMA FewerTurns ==
  ASSUME NEW i, NEW p, NEW e, NEW r, NEW rd, NEW rq, NEW o, NEW g,
         CleanPort(i, p, e, r, rd, o, g), HasTurn(rq, i) => HasTurn(rd, i)
  PROVE  CleanPort(i, p, e, r, rq, o, g)
BY DEF CleanPort

\* The turn of an idle image finds room.
LEMMA QueueClean ==
  ASSUME ExchangeInv, CleanInv, NEW i \in Images, Queue(i) PROVE CleanInv'
<1>0. UNCHANGED <<events, host, owner, excused>> /\ img[i].up = "on" /\ img[i].turn # "none"
  BY DEF Queue
<1> SUFFICES ASSUME ~excused PROVE CleanInv'
  BY <1>0 DEF CleanInv
<1>1. CleanPort(i, img[i], events[i], replies[i], ready, owner, Gen)
      /\ ~host.gate /\ ~host.failed /\ OneTurn(ready) /\ ~img[i].failed
  BY CleanOf
<1>2. ~img[i].active /\ img[i].gen = 0 /\ ~HasTurn(ready, i)
      /\ ~Engaged(i, replies[i], owner)
  BY <1>0, <1>1 DEF CleanPort
<1>3. Len(ready) < Room
  BY <1>1, <1>2, QueueFits
<1>4. PICK p : p = [img[i] EXCEPT !.turn = "none", !.active = TRUE, !.granted = FALSE]
  OBVIOUS
<1>5. PICK t : t = [op |-> img[i].turn, image |-> i]
  OBVIOUS
<1>6. img' = [img EXCEPT ![i] = p] /\ ready' = Append(ready, t) /\ replies' = replies
  BY <1>3, <1>4, <1>5 DEF Queue
<1>7. /\ p.up = img[i].up /\ p.failed = img[i].failed /\ p.turn = "none" /\ p.active
      /\ p.gen = img[i].gen /\ p.acked = img[i].acked
  BY ZenonT(60), <1>4, PortOf DEF PortType
<1>8. t \in ReadyType /\ t.op \notin Operations /\ t.image = i /\ ready \in Seq(ReadyType)
  BY <1>0, <1>5, PortOf DEF PortType, ReadyType, Operations, ExchangeInv, TypeInv, TypeOk
<1>9. OneTurn(ready') /\ \A j \in Images \ {i} : HasTurn(ready', j) => HasTurn(ready, j)
  BY <1>1, <1>2, <1>6, <1>8, AppendTurn
<1>10. img'[i] = p /\ \A j \in Images \ {i} : img'[j] = img[j]
  BY <1>6 DEF ExchangeInv, TypeInv, TypeOk
<1>11. CleanPort(i, p, events[i], replies[i], ready', owner, Gen)
  BY <1>0, <1>1, <1>2, <1>7 DEF CleanPort
<1>12. ASSUME NEW j \in Images
       PROVE  CleanPort(j, img'[j], events[j], replies[j], ready', owner, Gen)
  <2>1. CASE j = i
    BY <1>10, <1>11, <2>1
  <2>2. CASE j # i
    BY <1>9, <1>10, <2>2, CleanOf, FewerTurns
  <2> QED BY <2>1, <2>2
<1>13. Gen' = Gen /\ ~host'.gate /\ ~host'.failed
  BY <1>0, <1>1 DEF Gen
<1> QED BY <1>0, <1>6, <1>9, <1>12, <1>13 DEF CleanInv, Clean

\* A request is no turn.
LEMMA RequestClean ==
  ASSUME ExchangeInv, CleanInv, NEW op \in Operations, NEW i \in Images \cup {0},
         Request(op, i)
  PROVE  CleanInv'
<1>1. PICK t : t = [op |-> op, image |-> i]
  OBVIOUS
<1>2. /\ ready' = Append(ready, t) /\ UNCHANGED <<img, events, replies, owner, excused>>
      /\ host' = [host EXCEPT !.claimed = TRUE, !.left.admin = @ - 1]
  BY <1>1 DEF Request
<1> SUFFICES ASSUME ~excused PROVE CleanInv'
  BY <1>2 DEF CleanInv
<1>3. ~host.gate /\ ~host.failed /\ OneTurn(ready)
  BY CleanOf, ExchangeConstants DEF CleanInv, Clean
<1>4. Gen' = Gen /\ ~host'.gate /\ ~host'.failed
  BY <1>2, <1>3 DEF Gen, ExchangeInv, TypeInv, TypeOk, HostType
<1>5. t \in ReadyType /\ t.op \in Operations /\ ready \in Seq(ReadyType)
  BY <1>1 DEF ReadyType, ExchangeInv, TypeInv, TypeOk
<1>6. OneTurn(ready') /\ \A j \in Images : HasTurn(ready', j) => HasTurn(ready, j)
  BY <1>2, <1>3, <1>5, AppendTurn
<1>7. ASSUME NEW j \in Images
      PROVE  CleanPort(j, img[j], events[j], replies[j], ready', owner, Gen)
  BY <1>6, CleanOf, FewerTurns
<1> QED BY <1>2, <1>4, <1>6, <1>7 DEF CleanInv, Clean

LEMMA PressureClean ==
  ASSUME ExchangeInv, CleanInv, Pressure PROVE CleanInv'
<1>1. /\ UNCHANGED <<img, events, replies, ready, owner, excused>>
      /\ host' = [host EXCEPT !.pressured = TRUE]
  BY DEF Pressure
<1>2. Gen' = Gen /\ host'.gate = host.gate /\ host'.failed = host.failed
  BY <1>1 DEF Gen, ExchangeInv, TypeInv, TypeOk, HostType
<1> QED BY <1>1, <1>2 DEF CleanInv, Clean

\* Images that never attached are dropped with closed channels.
LEMMA ShutdownClean ==
  ASSUME ExchangeInv, CleanInv, Shutdown PROVE CleanInv'
<1>1. /\ host' = [host EXCEPT !.closed = TRUE]
      /\ img' = [i \in Images |-> [img[i] EXCEPT !.up = IF @ = "new" THEN "off" ELSE @]]
      /\ events' = [i \in Images |-> IF img[i].up = "new" THEN Closed ELSE events[i]]
      /\ UNCHANGED <<replies, ready, owner, excused>>
  BY DEF Shutdown
<1> SUFFICES ASSUME ~excused PROVE CleanInv'
  BY <1>1 DEF CleanInv
<1>2. Gen' = Gen /\ host'.gate = host.gate /\ host'.failed = host.failed
  BY <1>1 DEF Gen, ExchangeInv, TypeInv, TypeOk, HostType
<1>3. ASSUME NEW j \in Images
      PROVE  CleanPort(j, img'[j], events'[j], replies[j], ready, owner, Gen)
  <2>0. CleanPort(j, img[j], events[j], replies[j], ready, owner, Gen)
    BY CleanOf
  <2>1. CASE img[j].up # "new"
    <3>1. img'[j] = [img[j] EXCEPT !.up = img[j].up] /\ events'[j] = events[j]
      BY <1>1, <2>1
    <3>2. img'[j] = img[j]
      BY <3>1, PortOf DEF PortType
    <3> QED BY <2>0, <3>1, <3>2
  <2>2. CASE img[j].up = "new"
    <3>1. img'[j] = [img[j] EXCEPT !.up = "off"] /\ events'[j] = Closed
      BY <1>1, <2>2
    <3>2. PICK p : p = img'[j]
      OBVIOUS
    <3>3. /\ p.up = "off" /\ p.active = img[j].active
          /\ p.failed = img[j].failed /\ p.turn = img[j].turn
      BY <3>1, <3>2, PortOf DEF PortType
    <3>4. CleanPort(j, p, Closed, replies[j], ready, owner, Gen)
      BY <2>0, <2>2, <3>3 DEF CleanPort
    <3> QED BY <3>1, <3>2, <3>4
  <2> QED BY <2>1, <2>2
<1> QED BY <1>1, <1>2, <1>3 DEF CleanInv, Clean

\* A port the owner neither awaits nor asks.
LEMMA CleanAside ==
  ASSUME NEW j, NEW p, NEW e, NEW r, NEW rd, NEW o, NEW g, NEW w, NEW h,
         CleanPort(j, p, e, r, rd, o, g), o.image # j, w.image # j,
         w.quiescent[j] # 0 => w.quiescent[j] = o.quiescent[j] /\ h = g,
         HasTurn(rd, j) => w.phase \in Loose \/ o.phase \notin Loose
  PROVE  CleanPort(j, p, e, r, rd, w, h)
BY DEF CleanPort, Engaged

\* The owner goes on from o without asking anyone.
LEMMA MovesClean ==
  ASSUME NEW o, Clean(replies', ready', o), o.image = 0, owner'.image = 0,
         UNCHANGED <<img, events>>, HostClean,
         \A j \in Images : owner'.quiescent[j] # 0 => owner'.quiescent[j] = o.quiescent[j],
         owner'.phase \in Loose \/ o.phase \notin Loose \/ ready' = <<>>
  PROVE  CleanInv'
<1>1. Gen' = Gen /\ ~host'.gate /\ ~host'.failed /\ OneTurn(ready')
  BY DEF Clean, HostClean, Gen
<1>2. ready' = <<>> => \A j : ~HasTurn(ready', j)
  BY DEF HasTurn
<1>3. ASSUME NEW j \in Images
      PROVE  CleanPort(j, img[j], events[j], replies'[j], ready', owner', Gen)
  <2>1. CleanPort(j, img[j], events[j], replies'[j], ready', o, Gen)
    BY DEF Clean
  <2>2. j # 0
    BY ImagesNat
  <2>3. HasTurn(ready', j) => owner'.phase \in Loose \/ o.phase \notin Loose
    BY <1>2
  <2> QED BY <2>1, <2>2, <2>3, CleanAside
<1> QED BY <1>1, <1>3 DEF CleanInv, Clean

\* The image i can answer op: it is not gone, it is engaged in what op goes on
\* with, and for Resume it holds the acknowledgement.
Serves(i, rd, o, op) ==
  /\ img[i].up # "off"
  /\ op \notin {"quiesce", "resume"} =>
       /\ ~HasTurn(rd, i)
       /\ img[i].up = "on" => img[i].active \/ img[i].gen # 0
       /\ o.phase = "turn" => img[i].active
       /\ o.phase = "compact" => img[i].up = "on"
  /\ op = "resume" =>
       /\ o.quiescent[i] = 0
       /\ img[i].up = "on" => img[i].gen = Gen /\ img[i].acked

\* An event to such an image finds its slot empty.
LEMMA SendClean ==
  ASSUME TypeInv, NEW o \in OwnerType, NEW i \in Images, NEW op,
         Clean(replies', ready', o), o.image = 0, Serves(i, ready', o, op), Send(o, i, op)
  PROVE  CleanInv'
<1>0. i # 0 /\ \A j \in Images : CleanPort(j, img[j], events[j], replies'[j], ready', o, Gen)
  BY ImagesNat DEF Clean
<1>1. Healthy(i) /\ events[i] = <<>> /\ replies'[i] = <<>>
  <2>1. CleanPort(i, img[i], events[i], replies'[i], ready', o, Gen)
    BY <1>0
  <2> QED BY <1>0, <2>1 DEF CleanPort, Healthy, Clean, Serves
<1>2. /\ events' = [events EXCEPT ![i] = <<Event(op, Gen)>>]
      /\ owner' = [o EXCEPT !.event = op, !.image = i]
      /\ UNCHANGED <<img, host>>
  BY <1>1 DEF Send
<1>3. /\ owner'.image = i /\ owner'.event = op /\ owner'.phase = o.phase
      /\ owner'.quiescent = o.quiescent
  BY <1>2 DEF OwnerType
<1>4. /\ events'[i] = <<Event(op, Gen)>>
      /\ \A j \in Images \ {i} : events'[j] = events[j]
  BY <1>2 DEF TypeInv, TypeOk
<1>5. events'[i] # <<>> /\ Head(events'[i]).op = op /\ Head(events'[i]).gen = Gen
  BY <1>4 DEF Event
<1>6. CleanPort(i, img[i], events'[i], replies'[i], ready', owner', Gen)
  <2>1. CleanPort(i, img[i], events[i], replies'[i], ready', o, Gen)
    BY <1>0
  <2> QED BY <1>1, <1>3, <1>5, <2>1 DEF CleanPort, Engaged, Serves
<1>7. ASSUME NEW j \in Images, j # i
      PROVE  CleanPort(j, img[j], events'[j], replies'[j], ready', owner', Gen)
  <2>1. CleanPort(j, img[j], events'[j], replies'[j], ready', o, Gen)
    BY <1>0, <1>4, <1>7
  <2>2. j # 0
    BY ImagesNat
  <2> QED BY <1>3, <1>7, <2>1, <2>2, CleanAside
<1>8. Gen' = Gen /\ ~host'.gate /\ ~host'.failed /\ OneTurn(ready')
  BY <1>2 DEF Clean, Gen
<1> QED BY <1>2, <1>6, <1>7, <1>8 DEF CleanInv, Clean

\* Between exchanges: what holds, also once the oldest entry is taken.
LEMMA Rests ==
  ASSUME ExchangeInv, CleanInv, ~excused, ~Waiting
  PROVE  /\ Clean(replies, ready, owner) /\ owner.image = 0 /\ owner \in OwnerType
         /\ TypeInv /\ owner.event = "none" /\ ready \in Seq(ReadyType)
         /\ ~host.gate /\ ~host.failed /\ host \in HostType
         /\ \A i \in Images : Healthy(i)
         /\ ready # <<>> => Clean(replies, Tail(ready), owner)
<1>1. /\ Clean(replies, ready, owner) /\ owner.image = 0 /\ owner \in OwnerType
      /\ TypeInv /\ owner.event = "none" /\ ready \in Seq(ReadyType) /\ host \in HostType
  BY DEF ExchangeInv, CleanInv, TypeInv, TypeOk, OwnerInv, OwnerOk, Waiting
<1>2. ~host.gate /\ ~host.failed /\ \A i \in Images : Healthy(i)
  BY <1>1 DEF Clean, CleanPort, Healthy
<1>3. ASSUME ready # <<>> PROVE Clean(replies, Tail(ready), owner)
  <2>1. /\ \A j : HasTurn(Tail(ready), j) => HasTurn(ready, j)
        /\ OneTurn(ready) => OneTurn(Tail(ready))
    BY <1>1, <1>3, TailTurn
  <2> QED BY <1>1, <2>1, FewerTurns DEF Clean
<1> QED BY <1>1, <1>2, <1>3

\* A pause begins with every acknowledgement of the last one gone.
LEMMA StartClean ==
  ASSUME ExchangeInv, CleanInv, ~excused, At("idle"),
         NEW h \in HostType, h.generation = host.generation, ~h.gate, ~h.failed,
         NEW op \in Operations, NEW target \in Images \cup {0},
         Start(owner, h, op, target), Clean(replies', ready', owner),
         UNCHANGED <<img, events>>
  PROVE  CleanInv'
<1>0. /\ owner.image = 0 /\ owner \in OwnerType /\ owner.phase = "idle" /\ QuiescentOk(owner)
      /\ ~host.gate /\ ~host.failed
  BY Rests DEF At, ExchangeInv, QuiescentInv
<1>1. \A j \in Images : owner.quiescent[j] = 0
  BY <1>0 DEF QuiescentOk, Pausing
<1>2. /\ owner'.image = 0 /\ owner'.phase \notin Loose /\ owner'.quiescent = owner.quiescent
      /\ ~host'.gate /\ ~host'.failed
  <2>1. CASE owner' = Idle(owner) /\ host' = [h EXCEPT !.claimed = FALSE]
    BY <1>0, <2>1, IdleOwner DEF HostType, Loose
  <2>2. CASE /\ host' = [h EXCEPT !.generation = h.generation + 1, !.paused = TRUE]
             /\ owner' = [owner EXCEPT !.phase = "drain", !.operation = op,
                            !.target = target, !.uncertain = FALSE, !.advanced = TRUE,
                            !.checked = FALSE]
    <3>1. ~host'.gate /\ ~host'.failed
      BY <2>2 DEF HostType
    <3>2. owner'.image = 0 /\ owner'.phase = "drain" /\ owner'.quiescent = owner.quiescent
      BY <1>0, <2>2 DEF OwnerType
    <3> QED BY <3>1, <3>2 DEF Loose
  <2> QED BY <2>1, <2>2 DEF Start
<1>3. ASSUME NEW j \in Images
      PROVE  CleanPort(j, img[j], events[j], replies'[j], ready', owner', Gen')
  <2>1. CleanPort(j, img[j], events[j], replies'[j], ready', owner, Gen)
    BY DEF Clean
  <2>2. j # 0 /\ owner.phase \notin Loose /\ owner'.quiescent[j] = 0
    BY <1>0, <1>1, <1>2, ImagesNat DEF Loose
  <2> QED BY <1>0, <1>2, <2>1, <2>2, CleanAside
<1>4. OneTurn(ready')
  BY DEF Clean
<1> QED BY <1>2, <1>3, <1>4 DEF CleanInv, Clean

LEMMA AutoCollectClean ==
  ASSUME ExchangeInv, CleanInv, AutoCollect PROVE CleanInv'
<1>1. PICK h : h = [host EXCEPT !.claimed = TRUE, !.left.admin = @ - 1]
  OBVIOUS
<1>2. /\ At("idle") /\ Start(owner, h, "collect", 0)
      /\ UNCHANGED <<img, events, replies, ready, excused>>
  BY <1>1 DEF AutoCollect
<1> SUFFICES ASSUME ~excused PROVE CleanInv'
  BY <1>2 DEF CleanInv
<1>3. Clean(replies, ready, owner) /\ ~host.gate /\ ~host.failed /\ host \in HostType
  BY <1>2, Rests DEF At
<1>4. h \in HostType /\ h.generation = host.generation /\ ~h.gate /\ ~h.failed
  <2>1. PICK l : l = [host.left EXCEPT !.admin = host.left.admin - 1]
    OBVIOUS
  <2>2. l \in [admin : Int, mutate : Int, rotate : Int]
    BY <1>3, <2>1 DEF HostType
  <2>3. h = [host EXCEPT !.claimed = TRUE, !.left = l]
    BY <1>1, <1>3, <2>1 DEF HostType
  <2> QED BY <1>3, <2>2, <2>3 DEF HostType
<1> QED BY <1>2, <1>3, <1>4, StartClean DEF Operations

\* The oldest turn is its image's only one, and the image waits for it.
LEMMA TakeReadyClean ==
  ASSUME ExchangeInv, CleanInv, TakeReady PROVE CleanInv'
<1>1. /\ At("idle") /\ ready # <<>> /\ ready' = Tail(ready)
      /\ UNCHANGED <<replies, excused>>
  BY DEF TakeReady
<1> SUFFICES ASSUME ~excused PROVE CleanInv'
  BY <1>1 DEF CleanInv
<1>2. /\ Clean(replies, ready, owner) /\ ~host.gate /\ ~host.failed /\ host \in HostType
      /\ Clean(replies', ready', owner) /\ TypeInv /\ owner \in OwnerType
      /\ owner.image = 0 /\ owner.phase = "idle" /\ ready \in Seq(ReadyType)
  BY <1>1, Rests DEF At
<1>3. PICK r : r = Head(ready)
  OBVIOUS
<1>4. /\ r \in ReadyType
      /\ r.op \notin Operations =>
           r.image \in Images /\ HasTurn(ready, r.image) /\ ~HasTurn(ready', r.image)
  <2>1. PauseOk(ready, owner) /\ OneTurn(ready)
    BY <1>2 DEF ExchangeInv, PauseInv, Clean
  <2> QED BY <1>1, <1>2, <1>3, <2>1, ReadyTail, TailTurn
<1>5. CASE r.op \in {"compact", "rotate"}
  <2>1. PICK o : o = [owner EXCEPT !.phase = "turn"]
    OBVIOUS
  <2>2. PICK op \in {"allocate", "select"} : Send(o, r.image, op)
    BY <1>3, <1>5, <2>1 DEF TakeReady, Operations
  <2>3. /\ o \in OwnerType /\ o.phase = "turn" /\ o.image = 0
        /\ o.quiescent = owner.quiescent
    BY <1>2, <2>1 DEF OwnerType, Phases
  <2>4. r.op \notin Operations
    BY <1>5 DEF Operations
  <2>5. CleanPort(r.image, img[r.image], events[r.image], replies[r.image], ready, owner, Gen)
    BY <1>2, <1>4, <2>4 DEF Clean
  <2>6. img[r.image].active /\ img[r.image].up = "on"
    BY <1>2, <1>4, <2>4, <2>5 DEF CleanPort, Loose
  <2>7. Serves(r.image, ready', o, op)
    BY <1>4, <2>2, <2>4, <2>6 DEF Serves
  <2>8. Clean(replies', ready', o)
    <3>1. ASSUME NEW j \in Images
          PROVE  CleanPort(j, img[j], events[j], replies'[j], ready', o, Gen)
      <4>1. CleanPort(j, img[j], events[j], replies'[j], ready', owner, Gen)
        BY <1>2 DEF Clean
      <4>2. j # 0 /\ owner.phase \notin Loose
        BY <1>2, ImagesNat DEF Loose
      <4> QED BY <1>2, <2>3, <4>1, <4>2, CleanAside
    <3> QED BY <1>2, <3>1 DEF Clean
  <2> QED BY <1>2, <1>4, <2>2, <2>3, <2>4, <2>7, <2>8, SendClean
<1>6. CASE r.op \in {"collect", "snapshot"}
  <2>1. Start(owner, host, r.op, r.image) /\ UNCHANGED <<img, events>>
    BY <1>3, <1>6 DEF TakeReady
  <2>2. r.image \in Images \cup {0} /\ r.op \in Operations
    BY <1>4, <1>6 DEF ReadyType, Operations
  <2> QED BY <1>1, <1>2, <2>1, <2>2, StartClean
<1> QED BY <1>4, <1>5, <1>6 DEF ReadyType, Operations

\* A queued turn is given back to the image that waits for it, or to no one.
LEMMA DrainReadyClean ==
  ASSUME ExchangeInv, CleanInv, DrainReady PROVE CleanInv'
<1>1. /\ owner.phase \in {"drain", "settle", "unnotify"} /\ ~Waiting
      /\ ready # <<>> /\ ready' = Tail(ready) /\ UNCHANGED <<replies, excused>>
  BY DEF DrainReady
<1> SUFFICES ASSUME ~excused PROVE CleanInv'
  BY <1>1 DEF CleanInv
<1>2. /\ Clean(replies, ready, owner) /\ ~host.gate /\ ~host.failed
      /\ Clean(replies', ready', owner) /\ TypeInv /\ owner \in OwnerType
      /\ owner.image = 0 /\ ready \in Seq(ReadyType) /\ \A j \in Images : Healthy(j)
  BY <1>1, Rests
<1>3. PICK i : i = Head(ready).image
  OBVIOUS
<1>4. i \in Images /\ HasTurn(ready, i) /\ ~HasTurn(ready', i)
  <2>1. PauseOk(ready, owner) /\ OneTurn(ready) /\ owner.phase \in Pausing
    BY <1>1, <1>2 DEF ExchangeInv, PauseInv, Clean, Pausing, Phases
  <2> QED BY <1>1, <1>2, <1>3, <2>1, ReadyTail, TailTurn
<1>5. CASE UNCHANGED <<img, events, owner, host>>
  <2>1. HostClean
    BY <1>5 DEF HostClean
  <2> QED BY <1>2, <1>5, <2>1, MovesClean
<1>6. CASE Cancel(owner, i)
  <2>1. CASE Attached(i)
    <3>1. CleanPort(i, img[i], events[i], replies[i], ready, owner, Gen)
      BY <1>2, <1>4 DEF Clean
    <3>2. Serves(i, ready', owner, "deferred")
      BY <1>1, <1>4, <2>1, <3>1 DEF Serves, CleanPort, Attached
    <3> QED BY <1>2, <1>4, <1>6, <2>1, <3>2, SendClean DEF Cancel
  <2>2. CASE ~Attached(i)
    <3>1. owner' = owner /\ UNCHANGED <<img, events, host>>
      BY <1>2, <1>4, <1>6, <2>2 DEF Cancel, Pass
    <3> QED BY <1>5, <3>1
  <2> QED BY <2>1, <2>2
<1> QED BY <1>3, <1>5, <1>6 DEF DrainReady

\* The owner goes on by itself.
LEMMA StepsClean ==
  ASSUME ExchangeInv, CleanInv, ~excused, ~Waiting,
         UNCHANGED <<img, events, replies, ready>>, HostClean, owner'.image = 0,
         owner'.quiescent = owner.quiescent,
         owner'.phase \in Loose \/ owner.phase \notin Loose \/ ready = <<>>
  PROVE  CleanInv'
<1>1. Clean(replies, ready, owner) /\ owner.image = 0
  BY Rests
<1> QED BY <1>1, MovesClean

LEMMA DrainedClean ==
  ASSUME ExchangeInv, CleanInv, Drained PROVE CleanInv'
<1>1. /\ ~Waiting /\ owner' = [owner EXCEPT !.phase = "quiesce", !.todo = Images]
      /\ UNCHANGED <<img, events, replies, ready, host, excused>>
  BY DEF Drained, At
<1> SUFFICES ASSUME ~excused PROVE CleanInv'
  BY <1>1 DEF CleanInv
<1>2. owner'.image = 0 /\ owner'.phase = "quiesce" /\ owner'.quiescent = owner.quiescent
  BY <1>1, Rests DEF OwnerType
<1>3. HostClean
  BY <1>1 DEF HostClean
<1> QED BY <1>1, <1>2, <1>3, StepsClean DEF Loose

LEMMA BeginClean ==
  ASSUME ExchangeInv, CleanInv, Begin PROVE CleanInv'
<1>1. /\ ~Waiting /\ owner' = [owner EXCEPT !.phase = "operate"] /\ ready = <<>>
      /\ host' = [host EXCEPT !.running = TRUE]
      /\ UNCHANGED <<img, events, replies, ready, excused>>
  BY DEF Begin, At
<1> SUFFICES ASSUME ~excused PROVE CleanInv'
  BY <1>1 DEF CleanInv
<1>2. owner'.image = 0 /\ owner'.quiescent = owner.quiescent
  BY <1>1, Rests DEF OwnerType
<1>3. HostClean
  BY <1>1, Rests DEF HostClean, HostType
<1> QED BY <1>1, <1>2, <1>3, StepsClean

\* The two ways to resume.
LEMMA ResumingClean ==
  ASSUME NEW o \in OwnerType, o.image = 0, NEW phase
  PROVE  /\ Resuming(o).image = 0 /\ Resuming(o).quiescent = o.quiescent
         /\ [Resuming(o) EXCEPT !.phase = phase].image = 0
         /\ [Resuming(o) EXCEPT !.phase = phase].quiescent = o.quiescent
<1>1. PICK S : S = {i \in Images : o.quiescent[i] = Gen}
  OBVIOUS
<1>2. PICK u : u = [o EXCEPT !.phase = "resume", !.todo = S]
  OBVIOUS
<1>3. PICK v : v = [o EXCEPT !.phase = phase, !.todo = S]
  OBVIOUS
<1>4. Resuming(o) = u /\ [Resuming(o) EXCEPT !.phase = phase] = v
  BY <1>1, <1>2, <1>3 DEF Resuming, OwnerType
<1>5. u.image = 0 /\ u.quiescent = o.quiescent /\ v.image = 0 /\ v.quiescent = o.quiescent
  BY <1>2, <1>3 DEF OwnerType
<1> QED BY <1>4, <1>5

LEMMA UnwindClean ==
  ASSUME ExchangeInv, CleanInv, Unwind PROVE CleanInv'
<1>1. /\ ~Waiting /\ owner' = [Resuming(owner) EXCEPT !.phase = "unresume"]
      /\ ready = <<>> /\ UNCHANGED <<img, events, replies, ready, host, excused>>
  BY DEF Unwind, At
<1> SUFFICES ASSUME ~excused PROVE CleanInv'
  BY <1>1 DEF CleanInv
<1>2. owner'.image = 0 /\ owner'.quiescent = owner.quiescent
  BY <1>1, Rests, ResumingClean
<1>3. HostClean
  BY <1>1 DEF HostClean
<1> QED BY <1>1, <1>2, <1>3, StepsClean

LEMMA EndsClean ==
  ASSUME ExchangeInv, CleanInv, Ends PROVE CleanInv'
<1>1. /\ ~Waiting /\ owner' = [owner EXCEPT !.phase = "ended"]
      /\ ready = <<>> /\ UNCHANGED <<img, events, replies, ready, host, excused>>
  BY DEF Ends, At
<1> SUFFICES ASSUME ~excused PROVE CleanInv'
  BY <1>1 DEF CleanInv
<1>2. owner'.image = 0 /\ owner'.quiescent = owner.quiescent
  BY <1>1, Rests DEF OwnerType
<1>3. HostClean
  BY <1>1 DEF HostClean
<1> QED BY <1>1, <1>2, <1>3, StepsClean

\* A collection finds every gate healthy.
LEMMA CollectClean ==
  ASSUME ExchangeInv, CleanInv, Collect PROVE CleanInv'
<1>1. /\ ~Waiting /\ owner.phase = "operate"
      /\ UNCHANGED <<img, events, replies, ready>>
  BY DEF Collect, At
<1>0. CASE OperationErrs
  BY <1>0 DEF CleanInv, OperationErrs
<1> SUFFICES ASSUME ~excused, UNCHANGED excused, ~OperationErrs PROVE CleanInv'
  BY <1>0 DEF CleanInv, Collect
<1>2. owner \in OwnerType /\ owner.image = 0 /\ host \in HostType /\ \A i \in Images : Healthy(i)
  BY <1>1, Rests
<1>3. PICK still \in {FALSE, host.pressured} :
        /\ host' = [host EXCEPT !.pressured = still]
        /\ owner' = IF still
             THEN [owner EXCEPT !.phase = "compact",
                     !.todo = {i \in Images : owner.quiescent[i] = Gen}]
             ELSE Resuming(owner)
  BY <1>2 DEF Collect
<1>4. owner'.image = 0 /\ owner'.quiescent = owner.quiescent
  <2>1. PICK S : S = {i \in Images : owner.quiescent[i] = Gen}
    OBVIOUS
  <2>2. PICK u : u = [owner EXCEPT !.phase = "compact", !.todo = S]
    OBVIOUS
  <2>3. u.image = 0 /\ u.quiescent = owner.quiescent
    BY <1>2, <2>2 DEF OwnerType
  <2>4. owner' = u \/ owner' = Resuming(owner)
    BY <1>3, <2>1, <2>2
  <2> QED BY <1>2, <2>3, <2>4, ResumingClean
<1>5. HostClean
  BY <1>2, <1>3 DEF HostClean, HostType
<1> QED BY <1>1, <1>4, <1>5, StepsClean DEF Loose

\* An attached image that acknowledged the pause can compact.
LEMMA CompactsClean ==
  ASSUME ExchangeInv, CleanInv, ~excused, ~Waiting, owner.phase \in {"operate", "compact"},
         NEW i \in Images, owner.quiescent[i] # 0, img[i].up = "on", NEW c \in BOOLEAN,
         Send([owner EXCEPT !.phase = "compact", !.advanced = FALSE, !.checked = c],
              i, "compactq"),
         UNCHANGED <<replies, ready>>
  PROVE  CleanInv'
<1>1. /\ Clean(replies, ready, owner) /\ owner.image = 0 /\ owner \in OwnerType /\ TypeInv
      /\ ~host.gate
  BY Rests
<1>2. PICK o : o = [owner EXCEPT !.phase = "compact", !.advanced = FALSE, !.checked = c]
  OBVIOUS
<1>3. /\ o \in OwnerType /\ o.phase = "compact" /\ o.image = 0 /\ o.quiescent = owner.quiescent
  BY <1>1, <1>2 DEF OwnerType, Phases
<1>4. ready = <<>> /\ Gen # 0
  BY <1>1 DEF ExchangeInv, PauseInv, PauseOk, Pausing, Phases, Gen
<1>5. \A j : ~HasTurn(ready, j)
  BY <1>4 DEF HasTurn
<1>6. CleanPort(i, img[i], events[i], replies[i], ready, owner, Gen)
  BY <1>1 DEF Clean
<1>7. Serves(i, ready, o, "compactq")
  BY <1>3, <1>4, <1>5, <1>6 DEF Serves, CleanPort
<1>8. Clean(replies, ready, o)
  <2>1. ASSUME NEW j \in Images
        PROVE  CleanPort(j, img[j], events[j], replies[j], ready, o, Gen)
    <3>1. CleanPort(j, img[j], events[j], replies[j], ready, owner, Gen)
      BY <1>1 DEF Clean
    <3>2. j # 0
      BY ImagesNat
    <3> QED BY <1>1, <1>3, <1>5, <3>1, <3>2, CleanAside
  <2> QED BY <1>1, <2>1 DEF Clean
<1> QED BY <1>1, <1>2, <1>3, <1>7, <1>8, SendClean

LEMMA CompactNextClean ==
  ASSUME ExchangeInv, CleanInv, CompactNext PROVE CleanInv'
<1>1. /\ ~Waiting /\ owner.phase = "compact" /\ UNCHANGED <<replies, ready>>
      /\ excused' = (excused \/ \E i \in owner.todo : img[i].up # "on")
  BY DEF CompactNext, At
<1> SUFFICES ASSUME ~excused' PROVE CleanInv'
  BY DEF CleanInv
<1>2. ~excused /\ \A i \in owner.todo : img[i].up = "on"
  BY <1>1
<1>3. owner \in OwnerType /\ owner.image = 0 /\ ~host.gate
  BY <1>1, <1>2, Rests
<1>4. CASE owner.todo = {}
  <2>1. owner' = Resuming(owner) /\ UNCHANGED <<img, events, host>>
    BY <1>4 DEF CompactNext
  <2>2. HostClean
    BY <2>1 DEF HostClean
  <2> QED BY <1>1, <1>2, <1>3, <2>1, <2>2, ResumingClean, StepsClean DEF Loose
<1>5. CASE owner.todo # {}
  <2>1. PICK i : i = First(owner.todo)
    OBVIOUS
  <2>2. i \in owner.todo /\ i \in Images
    BY <1>3, <1>5, <2>1, FirstIn DEF OwnerType
  <2>3. Send([owner EXCEPT !.advanced = FALSE], i, "compactq")
    BY <1>5, <2>1 DEF CompactNext, First
  <2>4. /\ [owner EXCEPT !.advanced = FALSE]
             = [owner EXCEPT !.phase = "compact", !.advanced = FALSE, !.checked = owner.checked]
        /\ owner.checked \in BOOLEAN
    BY <1>1, <1>3 DEF OwnerType
  <2>5. owner.quiescent[i] # 0
    BY <1>1, <1>3, <2>2 DEF ExchangeInv, QuiescentInv, QuiescentOk
  <2> QED BY <1>1, <1>2, <2>2, <2>3, <2>4, <2>5, CompactsClean
<1> QED BY <1>4, <1>5

LEMMA SnapshotClean ==
  ASSUME ExchangeInv, CheckedInv, CleanInv, Snapshot PROVE CleanInv'
<1>1. /\ ~Waiting /\ owner.phase = "operate" /\ owner.operation = "snapshot"
      /\ UNCHANGED <<replies, ready>>
  BY DEF Snapshot, At
<1>2. PICK i : i = owner.target
  OBVIOUS
<1>3. CASE excused' = TRUE
  BY <1>3 DEF CleanInv
<1>4. CASE /\ owner.checked \/ owner.quiescent[i] = Gen
           /\ Send([owner EXCEPT !.phase = "compact", !.advanced = FALSE,
                                 !.checked = TRUE], i, "compactq")
           /\ excused' = (excused \/ img[i].up # "on")
  <2> SUFFICES ASSUME ~excused, img[i].up = "on" PROVE CleanInv'
    BY <1>4 DEF CleanInv
  <2>1. i \in Images /\ Gen # 0
    BY <1>1, <1>2 DEF ExchangeInv, OwnerInv, OwnerOk, PauseInv, PauseOk, Pausing, Phases, Gen
  <2>2. owner.quiescent[i] # 0
    BY <1>1, <1>2, <1>4, <2>1 DEF CheckedInv
  <2> QED BY <1>1, <1>4, <2>1, <2>2, CompactsClean
<1>5. CASE owner' = Resuming(owner) /\ UNCHANGED <<img, events, host, excused>>
  <2> SUFFICES ASSUME ~excused PROVE CleanInv'
    BY <1>5 DEF CleanInv
  <2>1. HostClean
    BY <1>5 DEF HostClean
  <2>2. owner'.image = 0 /\ owner'.quiescent = owner.quiescent
    BY <1>1, <1>5, Rests, ResumingClean
  <2> QED BY <1>1, <1>5, <2>1, <2>2, StepsClean DEF Loose
<1> QED BY <1>2, <1>3, <1>4, <1>5 DEF Snapshot, OperationErrs

\* Each attached image is asked once the last one has answered.
LEMMA QuiesceClean ==
  ASSUME ExchangeInv, CleanInv, Quiesce PROVE CleanInv'
<1>1. ~Waiting /\ owner.phase = "quiesce" /\ UNCHANGED <<replies, ready, excused>>
  BY DEF Quiesce, At
<1> SUFFICES ASSUME ~excused PROVE CleanInv'
  BY <1>1 DEF CleanInv
<1>2. /\ Clean(replies, ready, owner) /\ owner.image = 0 /\ owner \in OwnerType /\ TypeInv
      /\ \A j \in Images : Healthy(j)
  BY <1>1, Rests
<1>3. CASE owner.todo = {}
  <2>1. owner' = [owner EXCEPT !.phase = "settle"] /\ UNCHANGED <<img, events, host>>
    BY <1>3 DEF Quiesce
  <2>2. owner'.image = 0 /\ owner'.quiescent = owner.quiescent /\ owner'.phase = "settle"
    BY <1>2, <2>1 DEF OwnerType
  <2>3. HostClean
    BY <2>1 DEF HostClean
  <2> QED BY <1>1, <2>1, <2>2, <2>3, StepsClean DEF Loose
<1>4. CASE owner.todo # {}
  <2>1. PICK i : i = First(owner.todo)
    OBVIOUS
  <2>2. i \in Images
    BY <1>2, <1>4, <2>1, FirstIn DEF OwnerType
  <2>3. PICK S : S = owner.todo \ {i}
    OBVIOUS
  <2>4. PICK o : o = [owner EXCEPT !.todo = S]
    OBVIOUS
  <2>5. o \in OwnerType /\ o.phase = "quiesce" /\ o.image = 0 /\ o.quiescent = owner.quiescent
    <3>1. S \in SUBSET Images
      BY <1>2, <2>3 DEF OwnerType
    <3> QED BY <1>1, <1>2, <2>4, <3>1 DEF OwnerType
  <2>6. PICK u : u = [o EXCEPT !.uncertain = TRUE]
    OBVIOUS
  <2>7. u \in OwnerType /\ u.phase = "quiesce" /\ u.image = 0 /\ u.quiescent = owner.quiescent
    BY <2>5, <2>6 DEF OwnerType
  <2>8. CASE Attached(i)
    <3>1. Send(u, i, "quiesce")
      BY <1>2, <1>4, <2>1, <2>2, <2>3, <2>4, <2>6, <2>8 DEF Quiesce, First
    <3>2. Serves(i, ready, u, "quiesce")
      BY <2>8 DEF Serves, Attached
    <3>3. ASSUME NEW j \in Images
          PROVE  CleanPort(j, img[j], events[j], replies[j], ready, u, Gen)
      <4>1. CleanPort(j, img[j], events[j], replies[j], ready, owner, Gen)
        BY <1>2 DEF Clean
      <4>2. j # 0 /\ u.phase \in Loose
        BY <2>7, ImagesNat DEF Loose
      <4> QED BY <1>2, <2>7, <4>1, <4>2, CleanAside
    <3>4. Clean(replies, ready, u)
      BY <1>2, <3>3 DEF Clean
    <3> QED BY <1>1, <1>2, <2>2, <2>7, <3>1, <3>2, <3>4, SendClean
  <2>9. CASE ~Attached(i)
    <3>1. owner' = o /\ UNCHANGED <<img, events, host>>
      BY <1>2, <1>4, <2>1, <2>2, <2>3, <2>4, <2>9 DEF Quiesce, First, Pass
    <3>2. HostClean
      BY <3>1 DEF HostClean
    <3> QED BY <1>1, <2>5, <3>1, <3>2, StepsClean DEF Loose
  <2> QED BY <2>8, <2>9
<1> QED BY <1>3, <1>4

\* Each image that acknowledged is resumed, and has not been before.
LEMMA ResumeClean ==
  ASSUME ExchangeInv, CleanInv, Resume PROVE CleanInv'
<1>1. /\ ~Waiting /\ owner.phase \in {"resume", "unresume"}
      /\ UNCHANGED <<replies, ready, excused>>
  BY DEF Resume
<1> SUFFICES ASSUME ~excused PROVE CleanInv'
  BY <1>1 DEF CleanInv
<1>2. /\ Clean(replies, ready, owner) /\ owner.image = 0 /\ owner \in OwnerType /\ TypeInv
      /\ host \in HostType /\ ~host.gate /\ \A j \in Images : Healthy(j)
  BY <1>1, Rests
<1>3. CASE owner.todo = {}
  <2>1. owner' = Idle(owner) /\ host' = Released /\ UNCHANGED <<img, events>>
    BY <1>3 DEF Resume
  <2>2. HostClean
    BY <1>2, <2>1 DEF HostClean, HostType, Released
  <2>3. owner'.image = 0 /\ owner'.quiescent = owner.quiescent
    BY <1>2, <2>1, IdleOwner
  <2> QED BY <1>1, <2>1, <2>2, <2>3, StepsClean DEF Loose
<1>4. CASE owner.todo # {}
  <2>1. PICK i : i = First(owner.todo)
    OBVIOUS
  <2>2. i \in owner.todo /\ i \in Images
    BY <1>2, <1>4, <2>1, FirstIn DEF OwnerType
  <2>3. PICK S : S = owner.todo \ {i}
    OBVIOUS
  <2>4. PICK q : q = [owner.quiescent EXCEPT ![i] = 0]
    OBVIOUS
  <2>5. S \in SUBSET Images /\ q \in [Images -> Nat] /\ q[i] = 0
        /\ \A j \in Images : q[j] # 0 => q[j] = owner.quiescent[j]
    BY <1>2, <2>2, <2>3, <2>4 DEF OwnerType
  <2>6. PICK o : o = [owner EXCEPT !.todo = S, !.quiescent = q]
    OBVIOUS
  <2>7. o \in OwnerType /\ o.phase = owner.phase /\ o.image = 0 /\ o.quiescent = q
    BY <1>2, <2>5, <2>6 DEF OwnerType
  <2>8. ASSUME NEW j \in Images
        PROVE  CleanPort(j, img[j], events[j], replies[j], ready, o, Gen)
    <3>1. CleanPort(j, img[j], events[j], replies[j], ready, owner, Gen)
      BY <1>2 DEF Clean
    <3>2. j # 0 /\ owner.phase \notin Loose
      BY <1>1, ImagesNat DEF Loose
    <3> QED BY <1>2, <2>5, <2>7, <3>1, <3>2, CleanAside
  <2>9. Clean(replies, ready, o)
    BY <1>2, <2>8 DEF Clean
  <2>10. CASE Attached(i)
    <3>1. Send(o, i, "resume")
      BY <1>4, <2>1, <2>3, <2>4, <2>6, <2>10 DEF Resume, First
    <3>2. owner.quiescent[i] # 0
      BY <1>1, <1>2, <2>2 DEF ExchangeInv, QuiescentInv, QuiescentOk
    <3>3. CleanPort(i, img[i], events[i], replies[i], ready, owner, Gen)
      BY <1>2, <2>2 DEF Clean
    <3>4. Serves(i, ready, o, "resume")
      BY <2>5, <2>7, <2>10, <3>2, <3>3 DEF Serves, Attached, CleanPort
    <3> QED BY <1>1, <1>2, <2>2, <2>7, <2>9, <3>1, <3>4, SendClean
  <2>11. CASE ~Attached(i)
    <3>1. owner' = o /\ UNCHANGED <<img, events, host>>
      BY <1>2, <1>4, <2>1, <2>2, <2>3, <2>4, <2>6, <2>11 DEF Resume, First, Pass
    <3>2. HostClean
      BY <3>1 DEF HostClean
    <3> QED BY <1>1, <2>7, <2>9, <3>1, <3>2, MovesClean DEF Loose
  <2> QED BY <2>10, <2>11
<1> QED BY <1>3, <1>4

\* The owner stops awaiting image i, as o with replies rs.
Listens(i, o, rs) ==
  /\ i = owner.image /\ i \in Images /\ i # 0 /\ rs[i] = <<>>
  /\ o \in OwnerType /\ o.phase = owner.phase /\ o.event = "none" /\ o.image = 0
  /\ o.quiescent = owner.quiescent /\ OwnerOk(owner) /\ QuiescentOk(owner)
  /\ Clean(rs, ready, o)
  /\ CleanPort(i, img[i], events[i], replies[i], ready, owner, Gen) /\ Healthy(i)

\* Its port holds no event it still has to answer.
LEMMA Listened ==
  ASSUME ExchangeInv, CleanInv, ~excused, Waiting,
         replies[owner.image] # <<>> \/ events[owner.image] = Closed
  PROVE  Listens(owner.image, [owner EXCEPT !.event = "none", !.image = 0],
                 [replies EXCEPT ![owner.image] = <<>>])
<1> PICK i : i = owner.image
  OBVIOUS
<1> PICK o : o = [owner EXCEPT !.event = "none", !.image = 0]
  OBVIOUS
<1> PICK rs : rs = [replies EXCEPT ![i] = <<>>]
  OBVIOUS
<1>1. Hears(i, o, rs)
  BY Heard
<1>2. /\ i \in Images /\ i # 0 /\ rs[i] = <<>>
      /\ o \in OwnerType /\ o.phase = owner.phase /\ o.event = "none" /\ o.image = 0
      /\ o.quiescent = owner.quiescent /\ OwnerOk(owner) /\ QuiescentOk(owner)
  BY <1>1 DEF Hears
<1>3. \A j \in Images \ {i} : rs[j] = replies[j]
  BY DEF ExchangeInv, TypeInv, TypeOk
<1>4. Clean(replies, ready, owner) /\ Healthy(i)
  BY <1>2, CleanOf DEF CleanInv
<1>5. events[i] = <<>> \/ (events[i] = Closed /\ img[i].up = "off")
  <2>1. CleanPort(i, img[i], events[i], replies[i], ready, owner, Gen)
    BY <1>2, <1>4 DEF Clean
  <2>2. owner.event # "closed"
    BY DEF ExchangeInv, TypeInv, TypeOk, OwnerType, EventOps
  <2>3. Closed # <<>> /\ Head(Closed).op = "closed"
    BY DEF Closed, Event
  <2> QED BY <2>1, <2>2, <2>3 DEF CleanPort
<1>6. ASSUME NEW j \in Images
      PROVE  CleanPort(j, img[j], events[j], rs[j], ready, o, Gen)
  <2>1. CleanPort(j, img[j], events[j], replies[j], ready, owner, Gen)
    BY <1>4 DEF Clean
  <2>2. CASE j # i
    <3>1. j # 0 /\ owner.image # j
      BY <2>2, ImagesNat
    <3>2. CleanPort(j, img[j], events[j], rs[j], ready, owner, Gen)
      BY <1>3, <2>1, <2>2
    <3>3. o.image # j /\ o.quiescent[j] = owner.quiescent[j]
          /\ (o.phase \in Loose \/ owner.phase \notin Loose)
      BY <1>2, <3>1
    <3> QED BY <3>1, <3>2, <3>3 DEF CleanPort, Engaged
  <2>3. CASE j = i
    BY <1>2, <1>5, <2>1, <2>3 DEF CleanPort, Engaged
  <2> QED BY <2>2, <2>3
<1>7. Clean(rs, ready, o)
  BY <1>4, <1>6 DEF Clean
<1>8. CleanPort(i, img[i], events[i], replies[i], ready, owner, Gen)
  BY <1>2, <1>4 DEF Clean
<1> QED BY <1>2, <1>4, <1>7, <1>8 DEF Listens

\* A channel that closed answers for an image that left.
LEMMA UnansweredClean ==
  ASSUME ExchangeInv, CleanInv, Unanswered PROVE CleanInv'
<1>1. PICK i : i = owner.image
  OBVIOUS
<1>2. PICK o : o = [owner EXCEPT !.event = "none", !.image = 0]
  OBVIOUS
<1>3. /\ Waiting /\ replies[i] = <<>> /\ UNCHANGED <<replies, ready>>
      /\ excused' = (excused \/ (events[i] # Closed /\ ~img[i].failed))
      /\ IF o.phase \in {"turn", "compact"} \/ Attached(i) THEN Fails(o, i)
         ELSE Pass(o, i, [o EXCEPT !.uncertain = FALSE])
  BY <1>1, <1>2 DEF Unanswered
<1> SUFFICES ASSUME ~excused' PROVE CleanInv'
  BY DEF CleanInv
<1>4. ~excused /\ (events[i] = Closed \/ img[i].failed) /\ i \in Images
  BY <1>1, <1>3 DEF ExchangeInv, TypeInv, TypeOk, OwnerType, OwnerInv, OwnerOk, Waiting
<1>5. events[i] = Closed /\ replies = [replies EXCEPT ![i] = <<>>]
  <2>1. ~img[i].failed
    BY <1>4, CleanOf
  <2> QED BY <1>3, <1>4, <2>1 DEF ExchangeInv, TypeInv, TypeOk
<1>6. Listens(i, o, replies)
  BY <1>1, <1>2, <1>3, <1>4, <1>5, Listened
<1>7. img[i].up = "off" /\ owner.phase \notin {"turn", "compact"}
  <2>1. CleanPort(i, img[i], events[i], replies[i], ready, owner, Gen) /\ OwnerOk(owner)
        /\ owner.image = i
    BY <1>6 DEF Listens
  <2>2. owner.event # "closed"
    BY DEF ExchangeInv, TypeInv, TypeOk, OwnerType, EventOps
  <2>3. Closed # <<>> /\ Head(Closed).op = "closed"
    BY DEF Closed, Event
  <2>4. img[i].up = "off"
    BY <1>5, <2>1, <2>2, <2>3 DEF CleanPort
  <2>5. ~(owner.phase = "turn" /\ Engaged(i, replies[i], owner))
        /\ ~(owner.phase = "compact" /\ Engaged(i, replies[i], owner))
    BY <2>1, <2>4 DEF CleanPort
  <2>6. owner.phase \in {"turn", "compact"} => Engaged(i, replies[i], owner)
    BY <1>3, <2>1 DEF Engaged, OwnerOk
  <2> QED BY <2>4, <2>5, <2>6
<1>8. owner' = [o EXCEPT !.uncertain = FALSE] /\ UNCHANGED <<img, events, host>>
  BY <1>3, <1>6, <1>7 DEF Attached, Pass, Listens
<1>9. owner'.image = 0 /\ owner'.phase = o.phase /\ owner'.quiescent = o.quiescent
  BY <1>6, <1>8 DEF Listens, OwnerType
<1>10. HostClean
  BY <1>8 DEF HostClean
<1> QED BY <1>3, <1>6, <1>8, <1>9, <1>10, MovesClean DEF Listens

\* The owner goes on with a turn, or ends it.
LEMMA ProceedClean ==
  ASSUME TypeInv, NEW rs, NEW o, NEW i, NEW e, NEW w, Listens(i, o, rs),
         replies[i] # <<>>, w = Head(replies[i]).op, o.phase \in {"turn", "compact"},
         Proceed(o, i, e, w), replies' = rs, UNCHANGED ready
  PROVE  CleanInv'
<1>1. /\ i \in Images /\ i # 0 /\ o \in OwnerType /\ o.image = 0 /\ o.phase = owner.phase
      /\ Clean(rs, ready, o) /\ OwnerOk(owner) /\ owner.image = i /\ Healthy(i)
      /\ CleanPort(i, img[i], events[i], replies[i], ready, owner, Gen)
  BY DEF Listens
<1>2. ASSUME w \in {"selected", "reclaim", "rotation"}
      PROVE  \A op : op # "resume" => Serves(i, ready, o, op)
  <2>1. Engaged(i, replies[i], owner)
    BY <1>1, <1>2 DEF Engaged, OwnerOk
  <2>2. /\ ~HasTurn(ready, i)
        /\ img[i].up = "on" => img[i].active \/ img[i].gen # 0
        /\ o.phase = "turn" => img[i].active
        /\ img[i].up = "on"
    BY <1>1, <2>1 DEF CleanPort
  <2> QED BY <2>2 DEF Serves
<1>3. CASE Done(o, i)
  <2>1. HostClean /\ UNCHANGED <<img, events>>
    BY <1>3 DEF Done, HostClean
  <2>2. owner'.image = 0 /\ owner'.quiescent = o.quiescent
    <3>1. PICK S : S = o.todo \ {i}
      OBVIOUS
    <3>2. PICK u, v : u = [o EXCEPT !.phase = "operate"] /\ v = [o EXCEPT !.todo = S]
      OBVIOUS
    <3>3. u.image = 0 /\ u.quiescent = o.quiescent /\ v.image = 0 /\ v.quiescent = o.quiescent
      BY <1>1, <3>2 DEF OwnerType
    <3>4. owner' = Idle(o) \/ owner' = u \/ owner' = v
      BY <1>3, <3>1, <3>2 DEF Done
    <3> QED BY <1>1, <3>3, <3>4, IdleOwner
  <2> QED BY <1>1, <2>1, <2>2, MovesClean DEF Loose
<1>4. CASE w = "selected" /\ Send([o EXCEPT !.advanced = TRUE], i, "published")
  <2>1. PICK u : u = [o EXCEPT !.advanced = TRUE]
    OBVIOUS
  <2>2. u \in OwnerType /\ u.image = 0 /\ u.phase = o.phase /\ u.quiescent = o.quiescent
    BY <1>1, <2>1 DEF OwnerType
  <2>3. ASSUME NEW j \in Images
        PROVE  CleanPort(j, img[j], events[j], rs[j], ready, u, Gen)
    <3>1. CleanPort(j, img[j], events[j], rs[j], ready, o, Gen) /\ j # 0
      BY <1>1, ImagesNat DEF Clean
    <3> QED BY <1>1, <2>2, <3>1, CleanAside
  <2>4. Clean(rs, ready, u)
    BY <1>1, <2>3 DEF Clean
  <2>5. Serves(i, ready, u, "published")
    <3>1. Serves(i, ready, o, "published")
      BY <1>2, <1>4
    <3> QED BY <2>2, <3>1 DEF Serves
  <2> QED BY <1>1, <1>4, <2>1, <2>2, <2>4, <2>5, SendClean
<1>5. CASE w = "reclaim" /\ Send(o, i, "reclaimed")
  BY <1>1, <1>2, <1>5, SendClean
<1>6. CASE w = "rotation" /\ Send(o, i, "rotated")
  BY <1>1, <1>2, <1>6, SendClean
<1>7. CASE w \in {"selected", "reclaim", "rotation"} /\ Send(o, i, "deferred")
  BY <1>1, <1>2, <1>7, SendClean
<1> QED
  BY <1>1, <1>3, <1>4, <1>5, <1>6, <1>7
     DEF Proceed, Compacts, Reclaims, Rotates, Defers

\* The reply is one the owner expects, so it goes on, records an
\* acknowledgement, or gives the pause up.
LEMMA ReceiveClean ==
  ASSUME ExchangeInv, CleanInv, Receive PROVE CleanInv'
<1>1. PICK i : i = owner.image
  OBVIOUS
<1>2. PICK o : o = [owner EXCEPT !.event = "none", !.image = 0]
  OBVIOUS
<1>3. PICK rs : rs = [replies EXCEPT ![i] = <<>>]
  OBVIOUS
<1>4. PICK r, e : r = Head(replies[i]) /\ e = owner.event
  OBVIOUS
<1>5. Waiting /\ replies[i] # <<>> /\ replies' = rs /\ UNCHANGED <<ready, excused>>
  BY <1>1, <1>3 DEF Receive
<1> SUFFICES ASSUME ~excused PROVE CleanInv'
  BY <1>5 DEF CleanInv
<1>6. Listens(i, o, rs)
  BY <1>1, <1>2, <1>3, <1>5, Listened
<1>7. /\ i \in Images /\ i # 0 /\ o \in OwnerType /\ o.image = 0 /\ o.phase = owner.phase
      /\ Clean(rs, ready, o) /\ OwnerOk(owner) /\ owner.image = i /\ Healthy(i)
      /\ CleanPort(i, img[i], events[i], replies[i], ready, owner, Gen)
      /\ TypeInv /\ o.quiescent = owner.quiescent
  BY <1>6 DEF Listens, ExchangeInv
<1>8. r.op \in Expected[e] /\ (r.op = "quiesced" => r.gen = Gen)
  BY <1>4, <1>5, <1>7 DEF CleanPort
<1>9. CASE o.phase \in {"turn", "compact"} /\ Proceed(o, i, e, r.op)
  BY <1>4, <1>5, <1>6, <1>7, <1>9, ProceedClean
<1>10. CASE owner' = o /\ UNCHANGED <<img, events, host>>
  <2>1. HostClean
    BY <1>10 DEF HostClean
  <2> QED BY <1>5, <1>7, <1>10, <2>1, MovesClean
<1>11. CASE /\ r.op = "quiesced" /\ e = "quiesce"
            /\ owner' = [o EXCEPT !.quiescent[i] = Gen, !.uncertain = FALSE]
            /\ UNCHANGED <<img, events, host>>
  <2>1. PICK q : q = [owner.quiescent EXCEPT ![i] = Gen]
    OBVIOUS
  <2>2. PICK u : u = [o EXCEPT !.quiescent = q, !.uncertain = FALSE]
    OBVIOUS
  <2>3. owner' = u
    BY <1>7, <1>11, <2>1, <2>2 DEF OwnerType
  <2>4. u.image = 0 /\ u.phase = o.phase /\ u.quiescent = q /\ u.event = "none"
    BY <1>6, <1>7, <2>2 DEF OwnerType, Listens
  <2>5. \A j \in Images \ {i} : q[j] = owner.quiescent[j]
    BY <1>7, <2>1 DEF TypeInv, TypeOk, OwnerType
  <2>6. img[i].up = "on" => img[i].gen = Gen /\ img[i].acked
    <3>1. HealthyInv(i, img[i], events[i], replies[i], owner, Gen, manifest[i])
      BY <1>7 DEF ExchangeInv, PortInv, PortsOk
    <3> QED BY <1>4, <1>5, <1>11, <3>1 DEF HealthyInv, OnInv
  <2>7. ASSUME NEW j \in Images
        PROVE  CleanPort(j, img[j], events[j], rs[j], ready, u, Gen)
    <3>1. CleanPort(j, img[j], events[j], rs[j], ready, o, Gen) /\ j # 0
      BY <1>7, ImagesNat DEF Clean
    <3>2. CASE j # i
      BY <1>7, <2>4, <2>5, <3>1, <3>2, CleanAside
    <3>3. CASE j = i
      <4>1. rs[i] = <<>> /\ o.image # i /\ u.image # i
        BY <1>6, <1>7, <2>4 DEF Listens
      <4> QED BY <2>4, <2>6, <3>1, <3>3, <4>1 DEF CleanPort, Engaged
    <3> QED BY <3>2, <3>3
  <2>8. Gen' = Gen /\ ~host'.gate /\ ~host'.failed /\ OneTurn(ready)
    BY <1>7, <1>11 DEF Clean, Gen
  <2> QED BY <1>5, <1>11, <2>3, <2>7, <2>8 DEF CleanInv, Clean
<1>12. CASE e = "quiesce" /\ Fails([o EXCEPT !.uncertain = FALSE], i)
  <2>1. PICK v : v = [o EXCEPT !.uncertain = FALSE]
    OBVIOUS
  <2>2. /\ v \in OwnerType /\ v.phase = "quiesce" /\ ~v.uncertain /\ v.image = 0
        /\ v.quiescent = o.quiescent
    BY <1>4, <1>7, <1>12, <2>1 DEF OwnerType, OwnerOk
  <2>3. owner' = [v EXCEPT !.phase = "unnotify", !.event = "none"]
        /\ UNCHANGED <<img, events, host>>
    BY <1>12, <2>1, <2>2 DEF Fails
  <2>4. owner'.image = 0 /\ owner'.phase = "unnotify" /\ owner'.quiescent = o.quiescent
    BY <2>2, <2>3 DEF OwnerType
  <2>5. HostClean
    BY <2>3 DEF HostClean
  <2> QED BY <1>5, <1>7, <2>3, <2>4, <2>5, MovesClean DEF Loose
<1> QED
  BY <1>1, <1>2, <1>4, <1>8, <1>9, <1>10, <1>11, <1>12 DEF Receive

LEMMA InitClean == Init => CleanInv
<1> SUFFICES ASSUME Init PROVE Clean(replies, ready, owner)
  BY DEF CleanInv
<1>1. ASSUME NEW i \in Images
      PROVE  CleanPort(i, img[i], events[i], replies[i], ready, owner, Gen)
  <2>1. /\ img[i].up = "new" /\ ~img[i].failed /\ ~img[i].active /\ img[i].turn = "none"
        /\ events[i] = <<>> /\ replies[i] = <<>> /\ owner.image = 0 /\ i # 0
        /\ owner.quiescent[i] = 0
    BY ImagesNat DEF Init
  <2>2. ~HasTurn(ready, i)
    BY DEF Init, HasTurn
  <2> QED BY <2>1, <2>2 DEF CleanPort, Engaged
<1>2. ~host.gate /\ ~host.failed /\ OneTurn(ready)
  BY DEF Init, OneTurn
<1> QED BY <1>1, <1>2 DEF Clean

\* Every step keeps it.
LEMMA NextClean ==
  ASSUME ExchangeInv, CheckedInv, CleanInv, [Next]_vars PROVE CleanInv'
<1>1. CASE Environment
  <2>1. CASE \E i \in Images : Attach(i) \/ Enter(i) \/ CancelRollover(i) \/ Exit(i)
    BY <2>1, AttachClean, EnterClean, CancelRolloverClean, ExitClean
  <2>2. CASE DrainExpired \/ \E i \in Images : FailImage(i) \/ Overdue(i)
    <3>1. excused' = TRUE
      BY <2>2 DEF DrainExpired, FailImage, Overdue
    <3> QED BY <3>1 DEF CleanInv
  <2>3. CASE \E i \in Images, kind \in {"roll", "fresh"} : Rotate(i, kind)
    BY <2>3, RotateClean
  <2>4. CASE Request("collect", 0) \/ \E i \in Images : Request("snapshot", i)
    BY <2>4, RequestClean DEF Operations
  <2>5. CASE Pressure \/ Shutdown
    BY <2>5, PressureClean, ShutdownClean
  <2> QED BY <1>1, <2>1, <2>2, <2>3, <2>4, <2>5 DEF Environment
<1>2. CASE OwnerStep
  <2>1. CASE AutoCollect \/ TakeReady \/ Receive \/ Unanswered \/ DrainReady \/ Drained
    BY <2>1, AutoCollectClean, TakeReadyClean, ReceiveClean, UnansweredClean,
       DrainReadyClean, DrainedClean
  <2>2. CASE Quiesce \/ Begin \/ Collect \/ CompactNext
    BY <2>2, QuiesceClean, BeginClean, CollectClean, CompactNextClean
  <2>3. CASE Snapshot \/ Resume \/ Unwind \/ Ends
    BY <2>3, SnapshotClean, ResumeClean, UnwindClean, EndsClean
  <2> QED BY <1>2, <2>1, <2>2, <2>3 DEF OwnerStep
<1>3. CASE \E i \in Images : Reactor(i)
  <2> PICK i \in Images : Reactor(i)
    BY <1>3
  <2>1. CASE Leave(i) \/ Fence(i) \/ ChooseTurn(i) \/ Queue(i)
    BY <2>1, LeaveClean, FenceClean, ChooseTurnClean, QueueClean
  <2>2. CASE Acknowledge(i) \/ Poll(i) \/ Disconnect(i)
    BY <2>2, AcknowledgeClean, PollClean, DisconnectClean
  <2> QED BY <2>1, <2>2 DEF Reactor
<1>4. CASE UNCHANGED vars
  BY <1>4 DEF vars, CleanInv, Clean, Gen
<1> QED BY <1>1, <1>2, <1>3, <1>4 DEF Next

\* The mailbox protocol is sound for any number of images: until a fault is
\* injected or an operation loses its image, every reply answers the event the
\* owner awaits, and no image, no queue and no gate of the host fails
\* (host/worker.rs, host/collection.rs, host/administration.rs).
THEOREM ExchangeSoundHolds == Spec => []ExchangeSound
<1>1. Init => CleanInv
  BY InitClean
<1>2. ExchangeInv /\ CutInv /\ CleanInv /\ [Next]_vars => CleanInv'
  BY NextClean DEF CutInv
<1>3. ExchangeInv /\ CleanInv => ExchangeSound
  <2> SUFFICES ASSUME ExchangeInv, CleanInv, ~excused PROVE ExchangeSound
    BY DEF ExchangeSound, ReplyMatches, HostSurvives
  <2>1. HostSurvives
    <3>1. Clean(replies, ready, owner)
      BY DEF CleanInv
    <3> QED BY <3>1 DEF HostSurvives, Clean, CleanPort
  <2>2. ASSUME NEW i \in Images, replies[i] # <<>>
        PROVE  Waiting /\ owner.image = i /\ Head(replies[i]).for = owner.event
    <3>1. CleanPort(i, img[i], events[i], replies[i], ready, owner, Gen)
      BY CleanOf
    <3>2. owner.image = i /\ Head(replies[i]).for = owner.event
      BY <2>2, <3>1 DEF CleanPort
    <3>3. Waiting
      BY <3>2, ImagesNat DEF ExchangeInv, OwnerInv, OwnerOk, Waiting
    <3> QED BY <3>2, <3>3
  <2>3. ReplyMatches
    BY <2>2 DEF ReplyMatches
  <2> QED BY <2>1, <2>3 DEF ExchangeSound
<1> QED BY <1>1, <1>2, <1>3, ExchangeHolds, CutHolds, PTL DEF Spec
=============================================================================
