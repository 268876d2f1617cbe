--------------------------- MODULE FrontendProofs ---------------------------
(***************************************************************************)
(* Proofs about the frontends of a shared host: conflicting requests are   *)
(* admitted in order, the bookkeeping of tickets and turns, and the bound  *)
(* on the bytes admitted past a waiting image, for every number of images  *)
(* and every program of their guests.                                      *)
(***************************************************************************)
EXTENDS Frontend, SequenceTheorems, FiniteSetTheorems, WellFoundedInduction, TLAPS

-----------------------------------------------------------------------------
(* The inductive invariant                                                 *)

Names == {"head", "read"}
Tickets == [id : Names \X Nat, bytes : 1 .. Quantum, ready : BOOLEAN]
Turns == [image : 0 .. NImages, id : Names \X Nat]

FairType(f) ==
  f \in [heads : [Images -> Seq(Tickets)],
         deficit : [Images -> 0 .. 2 * Quantum - 1],
         cursor : Images, replenish : BOOLEAN, granted : Turns,
         released : BOOLEAN]

\* The shape of what an image's frontend keeps.
QueueType(i) ==
  /\ posted[i] \in [Queues(i) -> Nat] /\ found[i] \in [Queues(i) -> Nat]
  /\ \A q \in Queues(i) : /\ posted[i][q] <= Len(program[i][q])
                          /\ found[i][q] <= posted[i][q]
  /\ frontier[i] \in [Queues(i) -> Seq(Requests)]
  /\ \A q \in Queues(i) : Len(frontier[i][q]) <= QueueSize
  /\ orders[i] \in Nat
  /\ slots[i] \in [Names -> [Queues(i) -> Nat]]
  /\ pass[i] \in [first : Queues(i), at : Queues(i), cand : Nat \ {0},
                  step : {"idle", "scan", "turn", "refused"}]
  /\ admitted[i] \in SUBSET Requests

IoType(i) ==
  /\ pending[i] \in SUBSET Requests
  /\ wal[i] \in [used : 0 .. WalRoom, wanted : BOOLEAN, rotated : BOOLEAN]

Domains ==
  /\ program \in Programs
  /\ DOMAIN posted = Images /\ DOMAIN found = Images
  /\ DOMAIN frontier = Images /\ orders \in [Images -> Nat]
  /\ DOMAIN slots = Images /\ DOMAIN pass = Images
  /\ DOMAIN pending = Images /\ DOMAIN wal = Images
  /\ DOMAIN admitted = Images
  /\ wake \in [Images -> BOOLEAN]
  /\ passed \in [Images -> Nat]

\* Orders: ring order within a queue, distinct across the queues, and none
\* above the last one given.
OrderInv(i) ==
  /\ \A q \in Queues(i) : \A n \in 1 .. Len(frontier[i][q]) :
       /\ frontier[i][q][n].queue = q
       /\ 0 < frontier[i][q][n].order /\ frontier[i][q][n].order <= orders[i]
       /\ \A m \in 1 .. Len(frontier[i][q]) :
            n < m => frontier[i][q][n].order < frontier[i][q][m].order
  /\ \A p, q \in Queues(i) :
       \A n \in 1 .. Len(frontier[i][p]), m \in 1 .. Len(frontier[i][q]) :
         frontier[i][p][n].order = frontier[i][q][m].order => p = q
  /\ \A a \in admitted[i] : a.order <= orders[i]

AdmitInv(i) ==
  \A a \in admitted[i] : \A q \in Queues(i) : \A n \in 1 .. Len(frontier[i][q]) :
    frontier[i][q][n].order < a.order =>
      /\ ~Conflicts(frontier[i][q][n], a)
      /\ a.queue = q => a.kind = "read"

\* What a frontend in a turn has established.
TurnInv(i) ==
  pass[i].step \in {"turn", "refused"} =>
    /\ pass[i].cand \in 1 .. Len(frontier[i][QueueAt(i)])
    /\ Eligible(i, QueueAt(i), pass[i].cand)
    /\ slots[i][Slot(pass[i].cand)][QueueAt(i)] = Candidate(i).order

\* The head slot is the head's, the read slot another discovered request's or
\* that of a request that has become the head since.
Slotted(slot, queue, Q) ==
  \A q \in Q :
    /\ slot["head"][q] # 0 =>
         /\ Len(queue[q]) > 0
         /\ slot["head"][q] = queue[q][1].order
    /\ slot["read"][q] # 0 =>
         /\ \E n \in 1 .. Len(queue[q]) : slot["read"][q] = queue[q][n].order
         /\ slot["head"][q] # slot["read"][q]
SlotInv(i) == Slotted(slots[i], frontier[i], Queues(i))

\* Every ticket is that of a discovered data request in a slot.
Backed(heads, slot, queue, Q) ==
  \A m \in 1 .. Len(heads) : \E q \in Q :
    /\ heads[m].id[2] # 0 /\ slot[heads[m].id[1]][q] = heads[m].id[2]
    /\ \E n \in 1 .. Len(queue[q]) :
         /\ queue[q][n].order = heads[m].id[2] /\ queue[q][n].bytes = heads[m].bytes
         /\ Data(queue[q][n])

\* Every data request in a slot has a ticket.
Covered(heads, slot, queue, Q) ==
  \A s \in Names, q \in Q : \A n \in 1 .. Len(queue[q]) :
    slot[s][q] = queue[q][n].order /\ Data(queue[q][n]) =>
      \E m \in 1 .. Len(heads) : heads[m].id = <<s, slot[s][q]>>

\* Tickets of different requests.
Distinct(heads) ==
  \A m, n \in 1 .. Len(heads) : heads[m].id[2] = heads[n].id[2] => m = n

\* Tickets against slots.
TicketInv(i) ==
  /\ Backed(fair.heads[i], slots[i], frontier[i], Queues(i))
  /\ Covered(fair.heads[i], slots[i], frontier[i], Queues(i))
  /\ Distinct(fair.heads[i])

InTurn(i) == pass[i].step \in {"turn", "refused"} /\ Data(Candidate(i))

\* The turn in progress.
GrantInv ==
  /\ \A i \in Images :
       InTurn(i) => fair.granted = [image |-> i, id |-> Ticket(i)]
  /\ fair.granted # NoTurn =>
       \E i \in Images :
         /\ InTurn(i) /\ fair.granted = [image |-> i, id |-> Ticket(i)]
         /\ fair.cursor = i /\ ~fair.replenish /\ passed[i] = 0
         /\ \E n \in 1 .. Len(fair.heads[i]) :
              /\ fair.heads[i][n].id = Ticket(i) /\ fair.heads[i][n].ready
              /\ fair.heads[i][n].bytes <= fair.deficit[i]

HostInv ==
  /\ host \in [paused : BOOLEAN, running : BOOLEAN] /\ pauses \in 0 .. MaxPauses
  /\ host.running => host.paused
  /\ CollectionAlone

\* Visits to other images the bytes passed so far may have taken since the
\* last one the image lost.
Visit == 2 * Quantum - 1
Bound(b, v) == (b - 1) * ((NImages - 1) * Visit) + v * Visit
Ahead(f, i) == IF i > f.cursor THEN i - f.cursor ELSE i - f.cursor + NImages
Visits(f, i) ==
  IF f.cursor = i
  THEN IF ~f.replenish /\ f.deficit[i] < FirstReady(f.heads[i]).bytes
       THEN 0 ELSE NImages - 1
  ELSE NImages - Ahead(f, i) - (IF f.replenish THEN 1 ELSE 0)
Unspent(f, i) ==
  IF f.cursor = i \/ f.replenish THEN 0 ELSE f.deficit[f.cursor]

\* Bytes passed and still to spend in the visit under way.
ShareOf(f, i, bytes) ==
  IF ReadyAt(f.heads[i]) = {} THEN bytes = 0
  ELSE bytes + Unspent(f, i) <= Bound(Behind(f.heads[i]), Visits(f, i))
ShareInv == \A i \in Images : ShareOf(fair, i, passed[i])

ImageInv(i) ==
  /\ QueueType(i) /\ IoType(i) /\ OrderInv(i) /\ AdmitInv(i) /\ TurnInv(i)
  /\ SlotInv(i) /\ TicketInv(i)

\* What every reachable state of the frontends satisfies.
FrontendInv ==
  /\ Domains /\ FairType(fair)
  /\ \A i \in Images : ImageInv(i)
  /\ GrantInv /\ HostInv /\ ShareInv

-----------------------------------------------------------------------------
(* Numbers                                                                 *)

LEMMA Constants ==
  /\ NImages \in Nat \ {0} /\ Quantum \in Nat \ {0} /\ QueueSize \in Nat \ {0}
  /\ WalRoom \in Nat /\ MaxPauses \in Nat /\ Visit \in Nat \ {0}
  /\ Images \subseteq Nat /\ NImages \notin Images
<1>1. NImages \in Nat \ {0} /\ Quantum \in Nat \ {0} /\ QueueSize \in Nat \ {0}
      /\ WalRoom \in Nat /\ MaxPauses \in Nat
  BY FrontendAssumption
<1> QED BY <1>1 DEF Visit, Images

\* A nonempty set of naturals has a least element.
LEMMA LeastIs ==
  ASSUME NEW S \in SUBSET Nat, S # {}
  PROVE  Least(S) \in S /\ \A x \in S : Least(S) <= x
<1> DEFINE R == OpToRel(<, Nat)
<1>1. IsWellFoundedOn(R, Nat)
  BY NatLessThanWellFounded
<1>2. \E y \in S : \A z \in S : ~(<<z, y>> \in R)
  <2> HIDE DEF R
  <2> QED BY <1>1, WFMin
<1>3. \A a, b \in Nat : <<a, b>> \in R <=> a < b
  BY DEF OpToRel
<1>4. PICK y \in S : \A z \in S : ~(<<z, y>> \in R)
  BY <1>2
<1>5. \A z \in S : ~(z < y)
  <2> HIDE DEF R
  <2> QED BY <1>3, <1>4
<1>6. \E n \in S : \A m \in S : n <= m
  BY <1>5
<1> QED BY <1>6 DEF Least

LEMMA ModSmall ==
  ASSUME NEW a \in Nat, a < 2 * NImages
  PROVE  a % NImages = IF a < NImages THEN a ELSE a - NImages
BY Constants

LEMMA ModIn ==
  ASSUME NEW a \in Nat
  PROVE  a % NImages \in Images
BY Constants DEF Images

LEMMA BoundNat ==
  ASSUME NEW b \in Nat \ {0}, NEW v \in Nat
  PROVE  Bound(b, v) \in Nat
BY Constants DEF Bound

LEMMA BoundStep ==
  ASSUME NEW b \in Nat \ {0}, NEW v \in Nat
  PROVE  Bound(b, v + 1) = Bound(b, v) + Visit
BY Constants DEF Bound

LEMMA BoundMore ==
  ASSUME NEW b \in Nat \ {0}, NEW v \in Nat, NEW w \in Nat, v <= w
  PROVE  /\ Bound(b, v) <= Bound(b, w)
         /\ v < w => Bound(b, v) + Visit <= Bound(b, w)
BY Constants DEF Bound

LEMMA BoundRound ==
  ASSUME NEW b \in Nat \ {0}
  PROVE  /\ Bound(b, NImages - 1) = Bound(b + 1, 0)
         /\ Bound(b + 1, 0) = b * ((NImages - 1) * Visit)
BY Constants DEF Bound

LEMMA BoundBehind ==
  ASSUME NEW b \in Nat \ {0}, NEW c \in Nat, b <= c, NEW v \in Nat
  PROVE  Bound(b, v) <= Bound(c, v)
BY Constants DEF Bound
\* The queues of an image.
LEMMA QueuesOf ==
  ASSUME program \in Programs, NEW i \in Images
  PROVE  /\ NQueues(i) \in Nat \ {0} /\ Queues(i) = 0 .. NQueues(i) - 1
         /\ Queues(i) \subseteq Nat
         /\ \A q \in Queues(i) : program[i][q] \in Seq(Posted)
         /\ \A a \in Nat : a % NQueues(i) \in Queues(i)
<1>1. /\ IsFiniteSet(Queues(i)) /\ 0 \in Queues(i)
      /\ Queues(i) = 0 .. NQueues(i) - 1
      /\ program[i] \in [Queues(i) -> Seq(Posted)]
  BY FrontendAssumption DEF Queues, NQueues
<1>2. NQueues(i) \in Nat
  BY <1>1, FS_CardinalityType DEF NQueues
<1>3. NQueues(i) # 0
  BY <1>1, <1>2
<1>4. \A a \in Nat : a % NQueues(i) \in 0 .. NQueues(i) - 1
  <2> DEFINE n == NQueues(i)
  <2>1. n \in Nat \ {0}
    BY <1>2, <1>3
  <2> HIDE DEF n
  <2>2. \A a \in Nat : a % n \in 0 .. n - 1
    BY <2>1
  <2> QED BY <2>2 DEF n
<1>5. Queues(i) \subseteq Nat
  BY <1>1, <1>2
<1>6. \A q \in Queues(i) : program[i][q] \in Seq(Posted)
  BY <1>1
<1>7. \A a \in Nat : a % NQueues(i) \in Queues(i)
  BY <1>1, <1>4
<1> QED BY <1>1, <1>2, <1>3, <1>5, <1>6, <1>7

LEMMA QueuesHold ==
  ASSUME program \in Programs, NEW i \in Images
  PROVE  0 \in Queues(i) /\ NQueues(i) - 1 \in Queues(i)
<1> DEFINE n == NQueues(i)
           Q == Queues(i)
<1>1. n \in Nat \ {0} /\ Q = 0 .. n - 1
  BY QueuesOf
<1> HIDE DEF n, Q
<1>2. 0 \in Q /\ n - 1 \in Q
  BY <1>1
<1> QED BY <1>2 DEF n, Q

-----------------------------------------------------------------------------
(* The scheduler                                                           *)

LEMMA FirstReadyIs ==
  ASSUME NEW h \in Seq(Tickets), ReadyAt(h) # {}
  PROVE  /\ Least(ReadyAt(h)) \in 1 .. Len(h) /\ FirstReady(h) \in Tickets
         /\ FirstReady(h) = h[Least(ReadyAt(h))] /\ FirstReady(h).ready
         /\ \A n \in 1 .. Len(h) : h[n].ready => Least(ReadyAt(h)) <= n
         /\ Behind(h) \in 1 .. Len(h)
<1>1. ReadyAt(h) \in SUBSET Nat /\ DOMAIN h = 1 .. Len(h) /\ Len(h) \in Nat
  BY DEF ReadyAt
<1>2. Least(ReadyAt(h)) \in ReadyAt(h) /\ \A n \in ReadyAt(h) : Least(ReadyAt(h)) <= n
  BY <1>1, LeastIs
<1>3. Least(ReadyAt(h)) \in 1 .. Len(h) /\ h[Least(ReadyAt(h))].ready
  BY <1>1, <1>2 DEF ReadyAt
<1>4. \A n \in 1 .. Len(h) : h[n].ready => Least(ReadyAt(h)) <= n
  BY <1>1, <1>2 DEF ReadyAt
<1> QED BY <1>1, <1>3, <1>4 DEF FirstReady, Behind

LEMMA BehindNone ==
  ASSUME NEW h, ReadyAt(h) = {}
  PROVE  Behind(h) = 0
BY DEF Behind

LEMMA VisitedIn ==
  ASSUME NEW f, FairType(f), NEW k \in Nat
  PROVE  Visited(f, k) \in Images
<1>1. f.cursor \in Nat
  BY Constants DEF FairType
<1> QED BY <1>1, ModIn DEF Visited

LEMMA VisitedIs ==
  ASSUME NEW f, FairType(f), NEW k \in 0 .. NImages
  PROVE  Visited(f, k) = IF f.cursor + k < NImages THEN f.cursor + k
                         ELSE f.cursor + k - NImages
<1>1. f.cursor \in 0 .. NImages - 1
  BY DEF FairType, Images
<1> QED BY <1>1, Constants, ModSmall DEF Visited

LEMMA BudgetIs ==
  ASSUME NEW f, FairType(f), NEW k \in Nat, ReadyAt(f.heads[Visited(f, k)]) # {}
  PROVE  LET i == Visited(f, k)
         IN  /\ Budget(f, k) \in 0 .. Visit
             /\ k > 0 \/ f.replenish => Budget(f, k) >= FirstReady(f.heads[i]).bytes
             /\ k = 0 /\ ~f.replenish => Budget(f, k) = f.deficit[i]
<1> DEFINE i == Visited(f, k)
<1>1. i \in Images
  BY VisitedIn
<1>2. f.heads[i] \in Seq(Tickets) /\ f.deficit[i] \in 0 .. 2 * Quantum - 1
  BY <1>1 DEF FairType
<1>3. FirstReady(f.heads[i]).bytes \in 1 .. Quantum
  BY <1>2, FirstReadyIs DEF Tickets
<1> HIDE DEF i
<1>4. f.replenish \in BOOLEAN
  BY DEF FairType
<1>5. Budget(f, k) = f.deficit[i] + (IF (k > 0 \/ f.replenish) /\ f.deficit[i] < FirstReady(f.heads[i]).bytes THEN Quantum ELSE 0)
  BY DEF Budget, i
<1> QED BY <1>2, <1>3, <1>4, <1>5, Constants DEF Visit, i

\* What a choice leaves and picks.
Chosen(f, c) ==
  /\ FairType(c.fair) /\ c.fair.heads = f.heads /\ c.fair.granted = f.granted
  /\ c.fair.released = f.released
  /\ c.pick \in Turns
  /\ f.granted # NoTurn => c.pick = NoTurn /\ c.fair = f
  /\ c.pick # NoTurn =>
       LET i == c.pick.image
       IN  /\ i \in Images /\ c.fair.cursor = i /\ ~c.fair.replenish
           /\ \E n \in 1 .. Len(f.heads[i]) :
                /\ f.heads[i][n].id = c.pick.id /\ f.heads[i][n].ready
                /\ f.heads[i][n].bytes <= c.fair.deficit[i]

LEMMA NoTurnIn == NoTurn \in Turns /\ NoTurn.image = NImages
<1>1. NImages \in 0 .. NImages /\ <<"head", 0>> \in Names \X Nat
  BY Constants DEF Names
<1> QED BY <1>1 DEF NoTurn, Turns

LEMMA ServedLeast ==
  ASSUME NEW f, FairType(f), Served(f) # {}
  PROVE  /\ Least(Served(f)) \in Served(f) /\ Least(Served(f)) \in 0 .. NImages
         /\ \A k \in Served(f) : Least(Served(f)) <= k
<1>1. Served(f) \subseteq 0 .. NImages
  BY DEF Served
<1> QED BY <1>1, LeastIs, Constants

\* The state after a search that serves iteration k.
ServedAt(f, k) ==
  [Searched(f, k) EXCEPT !.deficit[Visited(f, k)] = Budget(f, k),
                         !.cursor = Visited(f, k), !.replenish = FALSE]

LEMMA SearchedType ==
  ASSUME NEW f, FairType(f), NEW n
  PROVE  /\ FairType(Searched(f, n))
         /\ Searched(f, n) = [f EXCEPT !.deficit = Searched(f, n).deficit]
<1> DEFINE d == [i \in Images |->
     IF ReadyAt(f.heads[i]) = {} /\ \E k \in 0 .. n - 1 : Visited(f, k) = i
     THEN 0 ELSE f.deficit[i]]
<1>1. d \in [Images -> 0 .. 2 * Quantum - 1]
  BY Constants DEF FairType
<1>2. Searched(f, n) = [f EXCEPT !.deficit = d]
  BY DEF Searched
<1> HIDE DEF d
<1> QED BY <1>1, <1>2 DEF FairType

LEMMA ServedType ==
  ASSUME NEW f, FairType(f), Served(f) # {}, NEW k, k = Least(Served(f))
  PROVE  LET i == Visited(f, k)
             g == ServedAt(f, k)
         IN  /\ i \in Images /\ k \in 0 .. NImages /\ ReadyAt(f.heads[i]) # {}
             /\ FairType(g) /\ g.heads = f.heads /\ g.granted = f.granted
             /\ g.released = f.released /\ g.cursor = i /\ g.replenish = FALSE
             /\ g.deficit[i] = Budget(f, k)
             /\ Budget(f, k) \in 0 .. Visit
             /\ Budget(f, k) >= FirstReady(f.heads[i]).bytes
<1> DEFINE i == Visited(f, k)
           s == Searched(f, k)
<1>1. k \in Served(f) /\ k \in 0 .. NImages
  BY ServedLeast
<1>2. i \in Images
  BY <1>1, VisitedIn
<1>3. ReadyAt(f.heads[i]) # {} /\ Budget(f, k) >= FirstReady(f.heads[i]).bytes
  BY <1>1 DEF Served
<1>4. Budget(f, k) \in 0 .. Visit
  BY <1>1, <1>3, BudgetIs
<1>5. FairType(s) /\ s.heads = f.heads /\ s.granted = f.granted /\ s.released = f.released
  <2>1. FairType(s) /\ s = [f EXCEPT !.deficit = s.deficit]
    BY SearchedType
  <2> HIDE DEF s
  <2> QED BY <2>1 DEF FairType
<1>6. ServedAt(f, k) = [s EXCEPT !.deficit[i] = Budget(f, k), !.cursor = i, !.replenish = FALSE]
  BY DEF ServedAt
<1> HIDE DEF i, s
<1>7. /\ FairType(ServedAt(f, k)) /\ ServedAt(f, k).heads = f.heads
      /\ ServedAt(f, k).granted = f.granted /\ ServedAt(f, k).released = f.released
      /\ ServedAt(f, k).cursor = i /\ ServedAt(f, k).replenish = FALSE
      /\ ServedAt(f, k).deficit[i] = Budget(f, k)
  <2> DEFINE g == ServedAt(f, k)
             b == Budget(f, k)
             d == [s.deficit EXCEPT ![i] = b]
  <2>1. b \in 0 .. 2 * Quantum - 1
    BY <1>4 DEF Visit
  <2>2. s.deficit \in [Images -> 0 .. 2 * Quantum - 1]
    BY <1>5 DEF FairType
  <2> HIDE DEF b
  <2>3. d \in [Images -> 0 .. 2 * Quantum - 1] /\ d[i] = b
    BY <1>2, <2>1, <2>2
  <2>4. g = [s EXCEPT !.deficit = d, !.cursor = i, !.replenish = FALSE]
    BY <1>5, <1>6 DEF b, FairType
  <2> HIDE DEF d, g
  <2>5. FairType(g) /\ g.heads = s.heads /\ g.granted = s.granted /\ g.released = s.released
        /\ g.cursor = i /\ g.replenish = FALSE /\ g.deficit = d
    BY <1>2, <1>5, <2>3, <2>4 DEF FairType
  <2> QED BY <1>5, <2>3, <2>5 DEF g, b
<1> QED BY <1>1, <1>2, <1>3, <1>4, <1>7 DEF i

LEMMA ChooseIs ==
  ASSUME NEW f, FairType(f), NEW c \in Choose(f)
  PROVE  \/ f.granted # NoTurn /\ c.fair = f /\ c.pick = NoTurn
         \/ /\ f.granted = NoTurn /\ Served(f) = {} /\ c.pick = NoTurn
            /\ c.fair = [Searched(f, NImages + 1) EXCEPT
                           !.cursor = Visited(f, NImages + 1), !.replenish = TRUE]
         \/ /\ f.granted = NoTurn /\ Served(f) # {}
            /\ c.fair = ServedAt(f, Least(Served(f)))
            /\ c.pick = [image |-> Visited(f, Least(Served(f))),
                         id |-> FirstReady(f.heads[Visited(f, Least(Served(f)))]).id]
BY DEF Choose, Search, ServedAt

LEMMA ChooseType ==
  ASSUME NEW f, FairType(f), NEW c \in Choose(f)
  PROVE  Chosen(f, c)
<1>1. CASE f.granted # NoTurn /\ c.fair = f /\ c.pick = NoTurn
  BY <1>1, NoTurnIn DEF Chosen
<1>2. CASE /\ f.granted = NoTurn /\ Served(f) = {} /\ c.pick = NoTurn
           /\ c.fair = [Searched(f, NImages + 1) EXCEPT
                          !.cursor = Visited(f, NImages + 1), !.replenish = TRUE]
  <2> DEFINE s == Searched(f, NImages + 1)
  <2>1. FairType(s) /\ s = [f EXCEPT !.deficit = s.deficit]
    BY SearchedType
  <2>2. Visited(f, NImages + 1) \in Images
    BY VisitedIn, Constants
  <2> HIDE DEF s
  <2>3. FairType(c.fair) /\ c.fair.heads = f.heads /\ c.fair.granted = f.granted
        /\ c.fair.released = f.released
    BY <1>2, <2>1, <2>2 DEF FairType, s
  <2> QED BY <1>2, <2>3, NoTurnIn DEF Chosen
<1>3. CASE /\ f.granted = NoTurn /\ Served(f) # {}
           /\ c.fair = ServedAt(f, Least(Served(f)))
           /\ c.pick = [image |-> Visited(f, Least(Served(f))),
                        id |-> FirstReady(f.heads[Visited(f, Least(Served(f)))]).id]
  <2> DEFINE k == Least(Served(f))
             i == Visited(f, k)
             h == f.heads[i]
  <2>1. /\ i \in Images /\ ReadyAt(h) # {}
        /\ FairType(c.fair) /\ c.fair.heads = f.heads /\ c.fair.granted = f.granted
        /\ c.fair.released = f.released /\ c.fair.cursor = i /\ c.fair.replenish = FALSE
        /\ c.fair.deficit[i] = Budget(f, k)
        /\ Budget(f, k) \in 0 .. Visit
        /\ Budget(f, k) >= FirstReady(h).bytes
    <3>1. c.fair = ServedAt(f, k) /\ Served(f) # {}
      BY <1>3
    <3>2. k = Least(Served(f))
      OBVIOUS
    <3> HIDE DEF k
    <3>3. LET j == Visited(f, k)
              g == ServedAt(f, k)
          IN  /\ j \in Images /\ k \in 0 .. NImages /\ ReadyAt(f.heads[j]) # {}
              /\ FairType(g) /\ g.heads = f.heads /\ g.granted = f.granted
              /\ g.released = f.released /\ g.cursor = j /\ g.replenish = FALSE
              /\ g.deficit[j] = Budget(f, k)
              /\ Budget(f, k) \in 0 .. Visit
              /\ Budget(f, k) >= FirstReady(f.heads[j]).bytes
      BY <3>1, <3>2, ServedType
    <3> QED BY <3>1, <3>3
  <2>2. h \in Seq(Tickets)
    BY <2>1 DEF FairType
  <2> HIDE DEF k, i
  <2>3. /\ Least(ReadyAt(h)) \in 1 .. Len(h) /\ FirstReady(h) = h[Least(ReadyAt(h))]
        /\ FirstReady(h).ready /\ FirstReady(h) \in Tickets
    BY <2>1, <2>2, FirstReadyIs
  <2>4. c.pick = [image |-> i, id |-> FirstReady(h).id]
    BY <1>3 DEF k, i
  <2>5. i \in 0 .. NImages
    BY <2>1, Constants DEF Images
  <2>6. c.pick \in Turns
    BY <2>3, <2>4, <2>5 DEF Turns, Tickets
  <2>7. FirstReady(h).bytes <= c.fair.deficit[i]
    BY <2>1, <2>3, Constants DEF Tickets
  <2> QED BY <1>3, <2>1, <2>3, <2>4, <2>6, <2>7 DEF Chosen
<1> QED BY <1>1, <1>2, <1>3, ChooseIs
-----------------------------------------------------------------------------
(* The share of an image while it waits                                    *)

LEMMA AheadIs ==
  ASSUME NEW f, FairType(f), NEW j \in Images
  PROVE  /\ Ahead(f, j) \in 1 .. NImages /\ Visited(f, Ahead(f, j)) = j
         /\ Ahead(f, j) = NImages <=> f.cursor = j
<1>1. f.cursor \in 0 .. NImages - 1 /\ j \in 0 .. NImages - 1
  BY DEF FairType, Images
<1>2. Ahead(f, j) \in 1 .. NImages /\ (Ahead(f, j) = NImages <=> f.cursor = j)
  BY <1>1, Constants DEF Ahead
<1>3. Visited(f, Ahead(f, j)) = IF f.cursor + Ahead(f, j) < NImages THEN f.cursor + Ahead(f, j)
                         ELSE f.cursor + Ahead(f, j) - NImages
  BY <1>2, VisitedIs, Constants
<1> QED BY <1>1, <1>2, <1>3, Constants DEF Ahead

LEMMA VisitsIn ==
  ASSUME NEW f, FairType(f), NEW j \in Images
  PROVE  /\ Visits(f, j) \in 0 .. NImages - 1 /\ Unspent(f, j) \in 0 .. Visit
         /\ f.cursor # j /\ ~f.replenish => Visits(f, j) > 0
<1>1. Ahead(f, j) \in 1 .. NImages /\ (Ahead(f, j) = NImages <=> f.cursor = j)
  BY AheadIs
<1>2. f.deficit[f.cursor] \in 0 .. 2 * Quantum - 1
  BY DEF FairType
<1>3. Unspent(f, j) \in 0 .. Visit
  BY <1>2, Constants DEF Unspent, Visit
<1>4. /\ Visits(f, j) \in 0 .. NImages - 1
      /\ f.cursor # j /\ ~f.replenish => Visits(f, j) > 0
  BY <1>1, Constants DEF Visits
<1> QED BY <1>3, <1>4

\* Nothing passed is within every share.
LEMMA ShareZero ==
  ASSUME NEW f, FairType(f), NEW j \in Images
  PROVE  ShareOf(f, j, 0)
<1>1. CASE ReadyAt(f.heads[j]) = {}
  BY <1>1 DEF ShareOf
<1>2. CASE ReadyAt(f.heads[j]) # {}
  <2>1. f.heads[j] \in Seq(Tickets)
    BY DEF FairType
  <2>2. Behind(f.heads[j]) \in Nat \ {0}
    BY <1>2, <2>1, FirstReadyIs
  <2>3. Visits(f, j) \in Nat /\ Unspent(f, j) \in 0 .. Visit
        /\ (f.cursor # j /\ ~f.replenish => Visits(f, j) > 0)
    BY VisitsIn, Constants
  <2>4. CASE Unspent(f, j) = 0
    BY <1>2, <2>2, <2>3, <2>4, BoundNat DEF ShareOf
  <2>5. CASE Unspent(f, j) # 0
    <3>1. Visits(f, j) > 0
      BY <2>3, <2>5 DEF Unspent
    <3>2. Bound(Behind(f.heads[j]), 0) + Visit <= Bound(Behind(f.heads[j]), Visits(f, j))
      BY <2>2, <2>3, <3>1, BoundMore
    <3>3. Bound(Behind(f.heads[j]), 0) \in Nat /\ Bound(Behind(f.heads[j]), Visits(f, j)) \in Nat
      BY <2>2, <2>3, BoundNat
    <3> QED BY <1>2, <2>3, <3>2, <3>3, Constants DEF ShareOf
  <2> QED BY <2>4, <2>5
<1> QED BY <1>1, <1>2

LEMMA ReadyServed ==
  ASSUME NEW f, FairType(f), NEW j \in Images, ReadyAt(f.heads[j]) # {}
  PROVE  Ahead(f, j) \in Served(f)
<1>1. Ahead(f, j) \in 1 .. NImages /\ Visited(f, Ahead(f, j)) = j
  BY AheadIs
<1>2. Ahead(f, j) \in Nat /\ Ahead(f, j) > 0 /\ Ahead(f, j) \in 0 .. NImages
  BY <1>1, Constants
<1>3. Budget(f, Ahead(f, j)) >= FirstReady(f.heads[j]).bytes
  BY <1>1, <1>2, BudgetIs
<1> QED BY <1>1, <1>2, <1>3 DEF Served

\* A choice keeps the share of every image.
LEMMA ChooseShare ==
  ASSUME NEW f, FairType(f), NEW c \in Choose(f), NEW j \in Images,
         NEW bytes \in Nat, ShareOf(f, j, bytes)
  PROVE  ShareOf(c.fair, j, bytes)
<1> DEFINE k == Least(Served(f))
           g == c.fair
           a == Ahead(f, j)
           b == Behind(f.heads[j])
<1>0. Chosen(f, c)
  BY ChooseType
<1>1. CASE f.granted # NoTurn
  BY <1>0, <1>1 DEF Chosen
<1>2. CASE ReadyAt(f.heads[j]) = {}
  BY <1>0, <1>2 DEF Chosen, ShareOf
<1>3. CASE f.granted = NoTurn /\ ReadyAt(f.heads[j]) # {}
  <2>1. a \in Served(f) /\ Served(f) # {} /\ g = ServedAt(f, k)
    BY <1>3, ReadyServed, ChooseIs
  <2>2. a \in 1 .. NImages /\ (a = NImages <=> f.cursor = j) /\ Visited(f, a) = j
    BY AheadIs
  <2>3. k \in Served(f) /\ k \in 0 .. NImages /\ k <= a /\ \A m \in Served(f) : k <= m
    BY <2>1, ServedLeast
  <2>4. /\ FairType(g) /\ g.heads = f.heads /\ g.cursor = Visited(f, k) /\ g.replenish = FALSE
        /\ g.deficit[Visited(f, k)] = Budget(f, k) /\ Budget(f, k) \in 0 .. Visit
        /\ Budget(f, k) >= FirstReady(f.heads[Visited(f, k)]).bytes
        /\ Visited(f, k) \in Images /\ ReadyAt(f.heads[Visited(f, k)]) # {}
    <3>1. k = Least(Served(f))
      OBVIOUS
    <3> HIDE DEF k
    <3>3. LET i == Visited(f, k)
              e == ServedAt(f, k)
          IN  /\ i \in Images /\ k \in 0 .. NImages /\ ReadyAt(f.heads[i]) # {}
              /\ FairType(e) /\ e.heads = f.heads /\ e.granted = f.granted
              /\ e.released = f.released /\ e.cursor = i /\ e.replenish = FALSE
              /\ e.deficit[i] = Budget(f, k)
              /\ Budget(f, k) \in 0 .. Visit
              /\ Budget(f, k) >= FirstReady(f.heads[i]).bytes
      BY <2>1, <3>1, ServedType
    <3> QED BY <2>1, <3>3
  <2>5. f.cursor \in 0 .. NImages - 1 /\ j \in 0 .. NImages - 1 /\ f.replenish \in BOOLEAN
    BY DEF FairType, Images
  <2>6. Visited(f, k) = IF f.cursor + k < NImages THEN f.cursor + k
                        ELSE f.cursor + k - NImages
    BY <2>3, VisitedIs
  <2>7. f.heads[j] \in Seq(Tickets)
    BY DEF FairType
  <2>8. b \in Nat \ {0} /\ FirstReady(f.heads[j]).bytes \in Nat
    <3>1. Behind(f.heads[j]) \in 1 .. Len(f.heads[j]) /\ FirstReady(f.heads[j]) \in Tickets
      BY <1>3, <2>7, FirstReadyIs
    <3>2. FirstReady(f.heads[j]).bytes \in 1 .. Quantum
      BY <3>1 DEF Tickets
    <3> QED BY <3>1, <3>2, Constants
  <2>9. bytes + Unspent(f, j) <= Bound(b, Visits(f, j))
    BY <1>3 DEF ShareOf
  <2>10. Visits(f, j) \in 0 .. NImages - 1 /\ Unspent(f, j) \in 0 .. Visit
    BY VisitsIn
  <2>11. Visits(g, j) \in 0 .. NImages - 1 /\ Unspent(g, j) \in 0 .. Visit
    BY <2>4, VisitsIn
  <2>12. SUFFICES bytes + Unspent(g, j) <= Bound(b, Visits(g, j))
    BY <1>3, <2>4 DEF ShareOf
  <2> HIDE DEF k, g, a, b
  <2>13. Bound(b, Visits(f, j)) \in Nat /\ Bound(b, Visits(g, j)) \in Nat
    <3>1. Visits(f, j) \in Nat /\ Visits(g, j) \in Nat
      BY <2>10, <2>11, Constants
    <3>2. Bound(b, Visits(f, j)) \in Nat
      BY <2>8, <3>1, BoundNat, Zenon
    <3>3. Bound(b, Visits(g, j)) \in Nat
      BY <2>8, <3>1, BoundNat, Zenon
    <3> QED BY <3>2, <3>3
  <2>14. CASE g.cursor = j
    <3>1. Visits(g, j) = NImages - 1 /\ Unspent(g, j) = 0
      BY <2>4, <2>14, <2>8, Constants DEF Visits, Unspent
    <3>2. Bound(b, Visits(f, j)) <= Bound(b, Visits(g, j))
      BY <2>8, <2>10, <2>11, <3>1, BoundMore, Constants
    <3> QED BY <2>9, <2>10, <2>13, <3>1, <3>2
  <2>15. CASE g.cursor # j /\ k = 0
    <3>1. g.cursor = f.cursor /\ f.cursor # j
      BY <2>4, <2>5, <2>6, <2>15, Constants
    <3>2. Ahead(g, j) = a
      BY <3>1 DEF Ahead, a
    <3>3. Visits(g, j) = NImages - a /\ Unspent(g, j) = Budget(f, k)
      BY <2>4, <3>1, <3>2, <2>2, Constants DEF Visits, Unspent
    <3>4. CASE f.replenish
      <4>1. Visits(f, j) = NImages - a - 1 /\ Unspent(f, j) = 0
        BY <3>1, <3>4, <2>2, Constants DEF Visits, Unspent, a
      <4>2. Bound(b, Visits(f, j)) + Visit <= Bound(b, Visits(g, j))
        <5>1. Visits(f, j) < Visits(g, j) /\ Visits(f, j) \in Nat /\ Visits(g, j) \in Nat
          BY <2>2, <2>10, <2>11, <3>3, <4>1, Constants
        <5> QED BY <5>1, <2>8, BoundMore
      <4> QED BY <2>9, <2>4, <2>13, <3>3, <4>1, <4>2, Constants
    <3>5. CASE ~f.replenish
      <4>1. Visits(f, j) = NImages - a /\ Unspent(f, j) = f.deficit[f.cursor]
        BY <3>1, <3>5, <2>2, Constants DEF Visits, Unspent, a
      <4>2. Budget(f, k) = f.deficit[Visited(f, k)] /\ Visited(f, k) = f.cursor
        BY <2>4, <2>5, <2>6, <2>15, <3>5, BudgetIs, Constants
      <4> QED BY <2>9, <3>3, <4>1, <4>2
    <3> QED BY <3>4, <3>5
  <2>16. CASE g.cursor # j /\ k # 0
    <3>1. k < a
      BY <2>2, <2>3, <2>4, <2>16, Constants
    <3>2. Ahead(g, j) = a - k
      BY <2>2, <2>3, <2>4, <2>5, <2>6, <2>16, <3>1, Constants DEF Ahead, a
    <3>3. Visits(g, j) = NImages - a + k /\ Unspent(g, j) = Budget(f, k)
      BY <2>4, <2>16, <3>2, <2>2, <2>3, Constants DEF Visits, Unspent
    <3>4. bytes <= Bound(b, Visits(f, j))
      BY <2>9, <2>10, <2>13, Constants
    <3>5. Visits(f, j) < Visits(g, j)
      <4>1. CASE f.cursor # j
        <5>1. Visits(f, j) <= NImages - a
          BY <4>1, <2>2, <2>5, Constants DEF Visits, a
        <5> QED BY <5>1, <3>3, <2>3, <2>10, <2>16, <2>2, Constants
      <4>2. CASE f.cursor = j
        <5>1. 0 \notin Served(f)
          BY <2>3, <2>16, Constants
        <5>2. Visited(f, 0) = j
          BY <4>2, <2>5, VisitedIs, Constants
        <5>3. ~(Budget(f, 0) >= FirstReady(f.heads[j]).bytes)
          BY <1>3, <5>1, <5>2, Constants DEF Served
        <5>4. ~f.replenish /\ Budget(f, 0) = f.deficit[j]
          BY <1>3, <5>2, <5>3, <2>5, BudgetIs
        <5>5. f.deficit[j] \in Nat
          BY DEF FairType
        <5>6. Visits(f, j) = 0
          BY <4>2, <5>3, <5>4, <5>5, <2>8 DEF Visits
        <5> QED BY <5>6, <3>3, <2>2, <2>3, <4>2, <2>16, Constants
      <4> QED BY <4>1, <4>2
    <3>6. Bound(b, Visits(f, j)) + Visit <= Bound(b, Visits(g, j))
      BY <3>5, <2>8, <2>10, <2>11, BoundMore, Constants
    <3> QED BY <2>4, <2>13, <3>3, <3>4, <3>6, Constants
  <2> QED BY <2>14, <2>15, <2>16
<1> QED BY <1>1, <1>2, <1>3
\* Heads made ready or added at the end cost an image a round at most when its
\* first ready head changes.
LEMMA ReadierShare ==
  ASSUME NEW f, FairType(f), NEW g, FairType(g), NEW j \in Images,
         g.cursor = f.cursor, g.replenish = f.replenish, g.deficit = f.deficit,
         Len(f.heads[j]) <= Len(g.heads[j]),
         \A n \in 1 .. Len(f.heads[j]) :
           /\ g.heads[j][n].bytes = f.heads[j][n].bytes
           /\ f.heads[j][n].ready => g.heads[j][n].ready,
         NEW bytes \in Nat, ShareOf(f, j, bytes)
  PROVE  ShareOf(g, j, bytes)
<1> DEFINE h == f.heads[j]
           e == g.heads[j]
           p == Least(ReadyAt(h))
           q == Least(ReadyAt(e))
           b == Behind(h)
           d == Behind(e)
<1>0. /\ h \in Seq(Tickets) /\ e \in Seq(Tickets)
      /\ DOMAIN h = 1 .. Len(h) /\ DOMAIN e = 1 .. Len(e)
      /\ Len(h) \in Nat /\ Len(e) \in Nat /\ Len(h) <= Len(e)
      /\ \A n \in 1 .. Len(h) : /\ e[n].bytes = h[n].bytes
                                /\ h[n].ready => e[n].ready
  <2>1. h \in Seq(Tickets) /\ e \in Seq(Tickets)
    BY DEF FairType
  <2> QED BY <2>1
<1>1. CASE ReadyAt(h) = {}
  BY <1>1, ShareZero DEF ShareOf
<1>2. CASE ReadyAt(h) # {}
  <2>1. /\ p \in 1 .. Len(h) /\ FirstReady(h) = h[p] /\ h[p].ready
        /\ b = Len(h) + 1 - p /\ b \in 1 .. Len(h)
    BY <1>0, <1>2, FirstReadyIs DEF Behind
  <2>2. p \in 1 .. Len(e) /\ e[p].ready /\ e[p].bytes = h[p].bytes
    <3> HIDE DEF p, h, e
    <3> QED BY <1>0, <2>1
  <2>3. ReadyAt(e) # {}
    <3> HIDE DEF p, e
    <3> QED BY <1>0, <2>2 DEF ReadyAt
  <2>4. /\ q \in 1 .. Len(e) /\ FirstReady(e) = e[q] /\ q <= p
        /\ d = Len(e) + 1 - q /\ d \in 1 .. Len(e)
    BY <1>0, <2>2, <2>3, FirstReadyIs DEF Behind
  <2>5. Unspent(g, j) = Unspent(f, j) /\ Unspent(f, j) \in 0 .. Visit
    BY VisitsIn DEF Unspent
  <2>6. Visits(g, j) \in 0 .. NImages - 1 /\ Visits(f, j) \in 0 .. NImages - 1
    BY VisitsIn
  <2>7. bytes + Unspent(f, j) <= Bound(b, Visits(f, j))
    BY <1>2 DEF ShareOf
  <2>8. SUFFICES bytes + Unspent(g, j) <= Bound(d, Visits(g, j))
    BY <2>3 DEF ShareOf
  <2>9. b \in Nat \ {0} /\ d \in Nat \ {0}
    BY <2>1, <2>4
  <2>10. Bound(b, Visits(f, j)) \in Nat /\ Bound(d, Visits(g, j)) \in Nat
    <3>1. Visits(g, j) \in Nat /\ Visits(f, j) \in Nat
      BY <2>6, Constants
    <3> HIDE DEF b, d
    <3> QED BY <3>1, <2>9, BoundNat
  <2>11. CASE q = p
    <3>1. Visits(g, j) = Visits(f, j)
      BY <2>1, <2>2, <2>4, <2>11 DEF Visits, Ahead
    <3>2. b <= d
      BY <1>0, <2>1, <2>4, <2>11, SMTT(20)
    <3>3. Bound(b, Visits(f, j)) <= Bound(d, Visits(g, j))
      <4> HIDE DEF b, d
      <4> QED BY <3>1, <3>2, <2>9, <2>6, BoundBehind, Constants
    <3> QED BY <2>5, <2>7, <2>10, <3>3, Constants
  <2>12. CASE q # p
    <3> HIDE DEF b, d, p, q, h, e
    <3>1. b + 1 <= d
      BY <1>0, <2>1, <2>4, <2>12
    <3>0. NImages - 1 \in Nat
      BY Constants
    <3>2. Bound(b, Visits(f, j)) <= Bound(b, NImages - 1)
      BY <2>6, <2>9, BoundMore, Constants
    <3>3. Bound(b, NImages - 1) = Bound(b + 1, 0)
      BY <2>9, BoundRound
    <3>4. Bound(b + 1, 0) <= Bound(d, 0)
      BY <2>9, <3>1, BoundBehind
    <3>5. Bound(d, 0) <= Bound(d, Visits(g, j))
      BY <2>6, <2>9, BoundMore, Constants
    <3>6. Bound(b, NImages - 1) \in Nat /\ Bound(d, 0) \in Nat
      BY <2>9, <3>0, BoundNat
    <3> QED BY <2>5, <2>7, <2>10, <3>2, <3>3, <3>4, <3>5, <3>6, Constants
  <2> QED BY <2>11, <2>12
<1> QED BY <1>1, <1>2

\* What the share of an image depends on.
LEMMA SameShare ==
  ASSUME NEW f, NEW g, NEW j \in Images, NEW bytes, ShareOf(f, j, bytes),
         g.cursor = f.cursor, g.replenish = f.replenish,
         g.deficit = f.deficit, g.heads[j] = f.heads[j]
  PROVE  ShareOf(g, j, bytes)
<1>1. Visits(g, j) = Visits(f, j) /\ Unspent(g, j) = Unspent(f, j)
  BY DEF Visits, Unspent, Ahead
<1> QED BY <1>1 DEF ShareOf

-----------------------------------------------------------------------------
(* Tickets                                                                 *)

LEMMA TicketId ==
  ASSUME NEW t \in Tickets
  PROVE  t.id[1] \in Names /\ t.id[2] \in Nat /\ t.id = <<t.id[1], t.id[2]>>
BY DEF Tickets

LEMMA RemoveAtIs ==
  ASSUME NEW T, NEW s \in Seq(T), NEW p \in 1 .. Len(s)
  PROVE  /\ RemoveAt(s, p) \in Seq(T) /\ Len(RemoveAt(s, p)) = Len(s) - 1
         /\ \A n \in 1 .. Len(s) - 1 :
              RemoveAt(s, p)[n] = IF n < p THEN s[n] ELSE s[n + 1]
<1> DEFINE a == SubSeq(s, 1, p - 1)
           b == SubSeq(s, p + 1, Len(s))
<1>1. Len(s) \in Nat /\ p \in Nat
  OBVIOUS
<1>2. a \in Seq(T) /\ Len(a) = p - 1 /\ \A n \in 1 .. p - 1 : a[n] = s[n]
  BY <1>1
<1>3. b \in Seq(T) /\ Len(b) = Len(s) - p /\ \A n \in 1 .. Len(s) - p : b[n] = s[p + n]
  BY <1>1
<1>4. RemoveAt(s, p) = a \o b
  BY DEF RemoveAt
<1> HIDE DEF a, b
<1>5. a \o b \in Seq(T) /\ Len(a \o b) = Len(s) - 1
  <2>1. a \o b \in Seq(T) /\ Len(a \o b) = Len(a) + Len(b)
    BY <1>2, <1>3, ConcatProperties
  <2> QED BY <1>1, <1>2, <1>3, <2>1
<1>6. ASSUME NEW n \in 1 .. Len(s) - 1
      PROVE  (a \o b)[n] = IF n < p THEN s[n] ELSE s[n + 1]
  <2>1. CASE n < p
    BY <1>1, <1>2, <1>3, <2>1
  <2>2. CASE ~(n < p)
    <3>1. (a \o b)[n] = b[n - (p - 1)]
      BY <1>1, <1>2, <1>3, <2>2
    <3>2. n - (p - 1) \in 1 .. Len(s) - p
      BY <1>1, <2>2
    <3>3. b[n - (p - 1)] = s[p + (n - (p - 1))]
      BY <1>3, <3>2
    <3> QED BY <1>1, <2>2, <3>1, <3>3
  <2> QED BY <2>1, <2>2
<1> QED BY <1>4, <1>5, <1>6

\* The scheduler apart from the queue of one image.
OnlyHeads(f, g, i) ==
  /\ g.cursor = f.cursor /\ g.replenish = f.replenish /\ g.deficit = f.deficit
  /\ g.granted = f.granted
  /\ \A j \in Images : j # i => g.heads[j] = f.heads[j]

LEMMA ReleasedIs ==
  ASSUME NEW f, FairType(f)
  PROVE  LET g == Released(f)
         IN  /\ FairType(g)
             /\ g.cursor = f.cursor /\ g.replenish = f.replenish
             /\ g.deficit = f.deficit /\ g.granted = f.granted
             /\ \A j \in Images :
                  /\ Len(g.heads[j]) = Len(f.heads[j])
                  /\ \A n \in 1 .. Len(f.heads[j]) :
                       /\ g.heads[j][n].id = f.heads[j][n].id
                       /\ g.heads[j][n].bytes = f.heads[j][n].bytes
                       /\ g.heads[j][n].ready
<1> DEFINE e == [i \in Images |->
              [n \in DOMAIN f.heads[i] |-> [f.heads[i][n] EXCEPT !.ready = TRUE]]]
           g == Released(f)
<1>1. ASSUME NEW j \in Images
      PROVE  /\ e[j] \in Seq(Tickets) /\ Len(e[j]) = Len(f.heads[j])
             /\ \A n \in 1 .. Len(f.heads[j]) :
                       /\ e[j][n].id = f.heads[j][n].id
                       /\ e[j][n].bytes = f.heads[j][n].bytes
                       /\ e[j][n].ready
  <2> DEFINE h == f.heads[j]
             w == [n \in DOMAIN h |-> [h[n] EXCEPT !.ready = TRUE]]
  <2>1. h \in Seq(Tickets)
    BY DEF FairType
  <2>2. e[j] = w
    OBVIOUS
  <2> HIDE DEF h, e
  <2>3. DOMAIN h = 1 .. Len(h) /\ Len(h) \in Nat
    BY <2>1
  <2>4. \A n \in 1 .. Len(h) : /\ w[n] \in Tickets /\ w[n].id = h[n].id
                               /\ w[n].bytes = h[n].bytes /\ w[n].ready
    <3> TAKE n \in 1 .. Len(h)
    <3>1. h[n] \in Tickets /\ w[n] = [h[n] EXCEPT !.ready = TRUE]
      BY <2>1, <2>3
    <3> QED BY <3>1 DEF Tickets
  <2>5. w \in Seq(Tickets) /\ Len(w) = Len(h)
    BY <2>3, <2>4
  <2> QED BY <2>2, <2>4, <2>5 DEF h
<1>2. e \in [Images -> Seq(Tickets)]
  BY <1>1
<1>3. g = [f EXCEPT !.released = f.released \/ f.granted # NoTurn, !.heads = e]
  BY DEF Released
<1>4. (f.released \/ f.granted # NoTurn) \in BOOLEAN
  OBVIOUS
<1> HIDE DEF e, g
<1>5. /\ FairType(g) /\ g.cursor = f.cursor /\ g.replenish = f.replenish
      /\ g.deficit = f.deficit /\ g.granted = f.granted /\ g.heads = e
  BY <1>2, <1>3, <1>4 DEF FairType
<1> QED BY <1>1, <1>5 DEF g

\* Two queues of tickets that differ in readiness at most, the second longer.
Grown(h, e) ==
  /\ Len(h) <= Len(e)
  /\ \A n \in 1 .. Len(h) : /\ e[n].id = h[n].id /\ e[n].bytes = h[n].bytes
                            /\ h[n].ready => e[n].ready

LEMMA TicketedIs ==
  ASSUME NEW f, FairType(f), NEW i \in Images, NEW id \in Names \X Nat,
         NEW bytes \in 1 .. Quantum
  PROVE  LET g == Ticketed(f, i, id, bytes)
             h == f.heads[i]
             e == g.heads[i]
         IN  /\ FairType(g) /\ OnlyHeads(f, g, i) /\ Grown(h, e)
             /\ (\E n \in 1 .. Len(h) : h[n].id = id) => Len(e) = Len(h)
             /\ ~(\E n \in 1 .. Len(h) : h[n].id = id) =>
                  /\ Len(e) = Len(h) + 1
                  /\ e[Len(e)] = [id |-> id, bytes |-> bytes, ready |-> TRUE]
<1> DEFINE g == Ticketed(f, i, id, bytes)
           h == f.heads[i]
           e == g.heads[i]
           t == [id |-> id, bytes |-> bytes, ready |-> TRUE]
           w == [n \in DOMAIN h |->
                   IF h[n].id = id THEN [h[n] EXCEPT !.ready = TRUE] ELSE h[n]]
<1>1. h \in Seq(Tickets) /\ DOMAIN h = 1 .. Len(h) /\ Len(h) \in Nat
  BY DEF FairType
<1>2. (\E u \in Range(h) : u.id = id) <=> (\E n \in 1 .. Len(h) : h[n].id = id)
  BY <1>1 DEF Range
<1>3. CASE \E n \in 1 .. Len(h) : h[n].id = id
  <2>1. g = [f EXCEPT !.heads[i] = w]
    BY <1>2, <1>3 DEF Ticketed, Readied
  <2> HIDE DEF h
  <2>2. \A n \in 1 .. Len(h) : /\ w[n] \in Tickets /\ w[n].id = h[n].id
                               /\ w[n].bytes = h[n].bytes /\ (h[n].ready => w[n].ready)
    <3> TAKE n \in 1 .. Len(h)
    <3>1. h[n] \in Tickets /\ w[n] = IF h[n].id = id THEN [h[n] EXCEPT !.ready = TRUE] ELSE h[n]
      BY <1>1
    <3> HIDE DEF w
    <3>2. CASE h[n].id = id
      <4>1. w[n] = [h[n] EXCEPT !.ready = TRUE]
        BY <3>1, <3>2
      <4> QED BY <3>1, <4>1 DEF Tickets
    <3>3. CASE h[n].id # id
      <4>1. w[n] = h[n]
        BY <3>1, <3>3
      <4> QED BY <3>1, <4>1
    <3> QED BY <3>2, <3>3
  <2>3. w \in Seq(Tickets) /\ Len(w) = Len(h)
    BY <1>1, <2>2
  <2> HIDE DEF w, g
  <2>4. FairType(g) /\ OnlyHeads(f, g, i) /\ e = w
    BY <2>1, <2>3 DEF FairType, OnlyHeads
  <2>5. Grown(h, w)
    BY <1>1, <2>2, <2>3 DEF Grown
  <2> QED BY <1>3, <2>3, <2>4, <2>5 DEF g, h
<1>4. CASE ~\E n \in 1 .. Len(h) : h[n].id = id
  <2>1. g = [f EXCEPT !.heads[i] = Append(h, t)]
    BY <1>2, <1>4 DEF Ticketed, Issued
  <2>2. t \in Tickets
    BY DEF Tickets
  <2> HIDE DEF h, t
  <2>3. /\ Append(h, t) \in Seq(Tickets) /\ Len(Append(h, t)) = Len(h) + 1
        /\ Append(h, t)[Len(h) + 1] = t /\ \A n \in 1 .. Len(h) : Append(h, t)[n] = h[n]
    BY <1>1, <2>2
  <2>4. FairType(g) /\ OnlyHeads(f, g, i) /\ e = Append(h, t)
    <3> HIDE DEF g
    <3> QED BY <2>1, <2>3 DEF FairType, OnlyHeads
  <2>5. Grown(h, e)
    BY <1>1, <2>3, <2>4 DEF Grown
  <2> QED BY <1>4, <2>3, <2>4, <2>5 DEF h, t
<1> QED BY <1>3, <1>4

\* Two queues that hold tickets of the same requests.
SameIds(h, e) ==
  /\ \A m \in 1 .. Len(e) : \E n \in 1 .. Len(h) :
       e[m].id = h[n].id /\ e[m].bytes = h[n].bytes
  /\ \A n \in 1 .. Len(h) : \E m \in 1 .. Len(e) : e[m].id = h[n].id
  /\ Distinct(e)

LEMMA SameIdsSelf ==
  ASSUME NEW h \in Seq(Tickets), Distinct(h)
  PROVE  SameIds(h, h)
BY DEF SameIds

LEMMA GrownSame ==
  ASSUME NEW h \in Seq(Tickets), NEW e \in Seq(Tickets), Distinct(h),
         Grown(h, e), Len(e) = Len(h)
  PROVE  SameIds(h, e)
<1>1. \A n \in 1 .. Len(h) : e[n].id = h[n].id /\ e[n].bytes = h[n].bytes
  BY DEF Grown
<1>2. Distinct(e)
  BY <1>1 DEF Distinct
<1> QED BY <1>1, <1>2 DEF SameIds

LEMMA PlaceIn ==
  ASSUME NEW h \in Seq(Tickets), NEW id, Places(h, id) # {}
  PROVE  Place(h, id) \in 1 .. Len(h) /\ h[Place(h, id)].id = id
<1>1. Places(h, id) \in SUBSET Nat
  BY DEF Places
<1>2. Place(h, id) \in Places(h, id)
  BY <1>1, LeastIs DEF Place
<1> QED BY <1>2 DEF Places

LEMMA PlaceIs ==
  ASSUME NEW h \in Seq(Tickets), Distinct(h), NEW n \in 1 .. Len(h)
  PROVE  Places(h, h[n].id) # {} /\ Place(h, h[n].id) = n
<1>1. n \in Places(h, h[n].id)
  BY DEF Places
<1>2. Place(h, h[n].id) \in 1 .. Len(h) /\ h[Place(h, h[n].id)].id = h[n].id
  BY <1>1, PlaceIn
<1> QED BY <1>1, <1>2 DEF Distinct

\* The queue without the ticket at place p.
LEMMA RemovedIs ==
  ASSUME NEW h \in Seq(Tickets), Distinct(h), NEW p \in 1 .. Len(h)
  PROVE  LET e == RemoveAt(h, p)
         IN  /\ e \in Seq(Tickets) /\ Distinct(e) /\ Len(e) \in Nat
             /\ \A m \in 1 .. Len(e) : \E n \in 1 .. Len(h) : n # p /\ e[m] = h[n]
             /\ \A n \in 1 .. Len(h) : n # p => \E m \in 1 .. Len(e) : e[m] = h[n]
<1> DEFINE e == RemoveAt(h, p)
<1>1. /\ e \in Seq(Tickets) /\ Len(e) = Len(h) - 1
      /\ \A m \in 1 .. Len(h) - 1 : e[m] = IF m < p THEN h[m] ELSE h[m + 1]
  BY RemoveAtIs
<1>2. Len(h) \in Nat /\ p \in Nat
  OBVIOUS
<1> HIDE DEF e
<1>3. \A m \in 1 .. Len(e) :
        LET n == IF m < p THEN m ELSE m + 1
        IN  n \in 1 .. Len(h) /\ n # p /\ e[m] = h[n]
  BY <1>1, <1>2
<1>4. \A m \in 1 .. Len(e) : \E n \in 1 .. Len(h) : n # p /\ e[m] = h[n]
  BY <1>3
<1>5. ASSUME NEW n \in 1 .. Len(h), n # p
      PROVE  \E m \in 1 .. Len(e) : e[m] = h[n]
  <2>1. CASE n < p
    <3>1. n \in 1 .. Len(e) /\ e[n] = h[n]
      BY <1>1, <1>2, <2>1
    <3> QED BY <3>1
  <2>2. CASE ~(n < p)
    <3>1. n - 1 \in 1 .. Len(e) /\ e[n - 1] = h[n]
      BY <1>1, <1>2, <2>2, <1>5
    <3> QED BY <3>1
  <2> QED BY <2>1, <2>2
<1>6. Distinct(e)
  <2> SUFFICES ASSUME NEW a \in 1 .. Len(e), NEW b \in 1 .. Len(e),
                      e[a].id[2] = e[b].id[2]
               PROVE  a = b
    BY DEF Distinct
  <2> DEFINE x == IF a < p THEN a ELSE a + 1
             y == IF b < p THEN b ELSE b + 1
  <2>1. x \in 1 .. Len(h) /\ y \in 1 .. Len(h) /\ e[a] = h[x] /\ e[b] = h[y]
    BY <1>3
  <2> HIDE DEF x, y
  <2>2. x = y
    BY <2>1 DEF Distinct
  <2> QED BY <2>2, <1>2 DEF x, y
<1> QED BY <1>1, <1>2, <1>4, <1>5, <1>6 DEF e

LEMMA DroppedIs ==
  ASSUME NEW f, FairType(f), NEW i \in Images, NEW id, Distinct(f.heads[i])
  PROVE  LET g == Dropped(f, i, id)
             h == f.heads[i]
             e == g.heads[i]
         IN  /\ FairType(g) /\ OnlyHeads(f, g, i) /\ g.released = f.released
             /\ Distinct(e)
             /\ \A m \in 1 .. Len(e) : \E n \in 1 .. Len(h) :
                  e[m] = h[n] /\ h[n].id # id
             /\ \A n \in 1 .. Len(h) : h[n].id # id =>
                  \E m \in 1 .. Len(e) : e[m] = h[n]
<1> DEFINE g == Dropped(f, i, id)
           h == f.heads[i]
           p == Place(h, id)
           e == RemoveAt(h, p)
<1>1. h \in Seq(Tickets) /\ DOMAIN h = 1 .. Len(h)
  BY DEF FairType
<1>2. CASE Places(h, id) = {}
  <2>1. g = f
    BY <1>2 DEF Dropped
  <2>2. \A n \in 1 .. Len(h) : h[n].id # id
    BY <1>1, <1>2 DEF Places
  <2> HIDE DEF g
  <2> QED BY <2>1, <2>2 DEF OnlyHeads, g
<1>3. CASE Places(h, id) # {}
  <2>1. g = [f EXCEPT !.heads[i] = e]
    BY <1>3 DEF Dropped
  <2>2. p \in 1 .. Len(h) /\ h[p].id = id
    BY <1>1, <1>3, PlaceIn
  <2>3. /\ e \in Seq(Tickets) /\ Distinct(e)
        /\ \A m \in 1 .. Len(e) : \E n \in 1 .. Len(h) : n # p /\ e[m] = h[n]
        /\ \A n \in 1 .. Len(h) : n # p => \E m \in 1 .. Len(e) : e[m] = h[n]
    <3> HIDE DEF p, h
    <3> QED BY <1>1, <2>2, RemovedIs DEF h
  <2>4. \A n \in 1 .. Len(h) : h[n].id = id => n = p
    <3> HIDE DEF p, h, e
    <3> QED BY <2>2 DEF Distinct, h
  <2> HIDE DEF g, e
  <2>5. FairType(g) /\ OnlyHeads(f, g, i) /\ g.released = f.released /\ g.heads[i] = e
    BY <2>1, <2>3 DEF FairType, OnlyHeads
  <2> QED BY <2>2, <2>3, <2>4, <2>5 DEF g
<1> QED BY <1>2, <1>3

LEMMA CommittedIs ==
  ASSUME NEW f, FairType(f), NEW i \in Images, NEW id, Distinct(f.heads[i]),
         NEW n \in 1 .. Len(f.heads[i]), f.heads[i][n].id = id,
         f.heads[i][n].bytes <= f.deficit[i]
  PROVE  LET g == Committed(f, i, id)
         IN  /\ FairType(g) /\ g.heads = Dropped(f, i, id).heads
             /\ g.cursor = f.cursor /\ g.replenish = f.replenish
             /\ g.granted = NoTurn
             /\ g.deficit = [f.deficit EXCEPT ![i] = @ - f.heads[i][n].bytes]
<1> DEFINE g == Committed(f, i, id)
           w == Dropped(f, i, id)
           h == f.heads[i]
           d == [f.deficit EXCEPT ![i] = @ - h[n].bytes]
<1>1. h \in Seq(Tickets)
  BY DEF FairType
<1>2. Place(h, id) = n
  BY <1>1, PlaceIs
<1>3. FairType(w) /\ OnlyHeads(f, w, i) /\ w.released = f.released
  BY DroppedIs
<1>4. g = [w EXCEPT !.deficit[i] = @ - h[n].bytes, !.granted = NoTurn]
  BY <1>2 DEF Committed
<1>5. h[n].bytes \in 1 .. Quantum
  <2>1. h[n] \in Tickets
    BY <1>1
  <2> HIDE DEF h
  <2> QED BY <2>1 DEF Tickets
<1> HIDE DEF w, h
<1>6. d \in [Images -> 0 .. 2 * Quantum - 1]
  <2>1. f.deficit \in [Images -> 0 .. 2 * Quantum - 1] /\ h[n].bytes <= f.deficit[i]
    BY DEF FairType, h
  <2> QED BY <1>5, <2>1, Constants
<1>7. g = [w EXCEPT !.deficit = d, !.granted = NoTurn]
  BY <1>3, <1>4 DEF FairType, OnlyHeads
<1> HIDE DEF g, d
<1>8. FairType(g) /\ g.heads = w.heads /\ g.cursor = w.cursor /\ g.replenish = w.replenish
      /\ g.granted = NoTurn /\ g.deficit = d
  BY <1>3, <1>6, <1>7, NoTurnIn DEF FairType
<1> QED BY <1>3, <1>8 DEF g, d, w, h, OnlyHeads

\* The queue of image i keeps its requests and the search goes on after it.
Yields(f, g, i) ==
  /\ FairType(g) /\ SameIds(f.heads[i], g.heads[i])
  /\ \A j \in Images : j # i => g.heads[j] = f.heads[j]
  /\ g.cursor = Visited(f, 1) /\ g.replenish = TRUE
  /\ g.granted = NoTurn /\ g.deficit = f.deficit

LEMMA RefusedIs ==
  ASSUME NEW f, FairType(f), NEW i \in Images, NEW id, Distinct(f.heads[i]),
         NEW n \in 1 .. Len(f.heads[i]), f.heads[i][n].id = id
  PROVE  Yields(f, Refused(f, i, id), i)
<1> DEFINE g == Refused(f, i, id)
           w == Dropped(f, i, id)
           h == f.heads[i]
           t == [h[n] EXCEPT !.ready = f.released]
           e == Append(w.heads[i], t)
           x == [w EXCEPT !.heads[i] = e, !.granted = NoTurn]
<1>1. h \in Seq(Tickets) /\ h[n] \in Tickets
  BY DEF FairType
<1>2. Place(h, id) = n
  BY <1>1, PlaceIs
<1>3. /\ FairType(w) /\ OnlyHeads(f, w, i) /\ Distinct(w.heads[i])
      /\ \A m \in 1 .. Len(w.heads[i]) : \E k \in 1 .. Len(h) :
           w.heads[i][m] = h[k] /\ h[k].id # id
      /\ \A k \in 1 .. Len(h) : h[k].id # id =>
           \E m \in 1 .. Len(w.heads[i]) : w.heads[i][m] = h[k]
  BY DroppedIs
<1>4. g = Advance(x)
  BY <1>2 DEF Refused
<1>5. t \in Tickets /\ t.id = h[n].id /\ t.bytes = h[n].bytes
  <2>1. f.released \in BOOLEAN
    BY DEF FairType
  <2> HIDE DEF h
  <2> QED BY <1>1, <2>1 DEF Tickets
<1> HIDE DEF w, t
<1>6. /\ e \in Seq(Tickets) /\ Len(e) = Len(w.heads[i]) + 1 /\ e[Len(e)] = t
      /\ \A m \in 1 .. Len(w.heads[i]) : e[m] = w.heads[i][m]
      /\ Len(w.heads[i]) \in Nat
  <2>1. w.heads[i] \in Seq(Tickets)
    BY <1>3 DEF FairType
  <2> QED BY <1>5, <2>1
<1> HIDE DEF e, h
<1>7. FairType(x) /\ x.cursor = f.cursor /\ x.granted = NoTurn /\ x.deficit = f.deficit
      /\ x.heads[i] = e /\ \A j \in Images : j # i => x.heads[j] = f.heads[j]
  BY <1>3, <1>6, NoTurnIn DEF FairType, OnlyHeads
<1> HIDE DEF x
<1>8. (x.cursor + 1) % NImages \in Images
  <2>1. x.cursor \in Nat
    BY <1>7, Constants DEF FairType
  <2> QED BY <2>1, ModIn
<1> HIDE DEF g
<1>9. /\ FairType(g) /\ g.heads = x.heads /\ g.cursor = Visited(f, 1)
      /\ g.replenish = TRUE /\ g.granted = NoTurn /\ g.deficit = f.deficit
  BY <1>4, <1>7, <1>8 DEF Advance, FairType, Visited
<1>10. SameIds(h, e)
  <2>1. \A m \in 1 .. Len(e) : \E k \in 1 .. Len(h) :
          e[m].id = h[k].id /\ e[m].bytes = h[k].bytes
    <3> TAKE m \in 1 .. Len(e)
    <3>1. CASE m = Len(e)
      <4>1. n \in 1 .. Len(h)
        BY DEF h
      <4> QED BY <1>5, <1>6, <3>1, <4>1
    <3>2. CASE m # Len(e)
      <4>1. m \in 1 .. Len(w.heads[i]) /\ e[m] = w.heads[i][m]
        BY <1>6, <3>2
      <4>2. PICK k \in 1 .. Len(h) : w.heads[i][m] = h[k]
        BY <1>3, <4>1
      <4> QED BY <4>1, <4>2
    <3> QED BY <3>1, <3>2
  <2>2. \A k \in 1 .. Len(h) : \E m \in 1 .. Len(e) : e[m].id = h[k].id
    <3> TAKE k \in 1 .. Len(h)
    <3>1. CASE h[k].id = id
      <4>1. e[Len(e)].id = id /\ Len(e) \in 1 .. Len(e)
        BY <1>5, <1>6 DEF h
      <4> QED BY <3>1, <4>1
    <3>2. CASE h[k].id # id
      <4>1. PICK m \in 1 .. Len(w.heads[i]) : w.heads[i][m] = h[k]
        BY <1>3, <3>2
      <4>2. m \in 1 .. Len(e) /\ e[m] = h[k]
        BY <1>6, <4>1
      <4> QED BY <4>2
    <3> QED BY <3>1, <3>2
  <2>3. Distinct(e)
    <3>1. \A m \in 1 .. Len(w.heads[i]) : w.heads[i][m].id[2] # t.id[2]
      <4> TAKE m \in 1 .. Len(w.heads[i])
      <4>1. PICK k \in 1 .. Len(h) : w.heads[i][m] = h[k] /\ h[k].id # id
        BY <1>3
      <4>2. k # n /\ n \in 1 .. Len(h)
        BY <4>1 DEF h
      <4>3. h[k].id[2] # h[n].id[2]
        BY <4>2 DEF Distinct, h
      <4> QED BY <1>5, <4>1, <4>3
    <3>2. \A m \in 1 .. Len(e) : m = Len(e) \/ m \in 1 .. Len(w.heads[i])
      BY <1>6
    <3>3. ASSUME NEW a \in 1 .. Len(e), NEW b \in 1 .. Len(e), e[a].id[2] = e[b].id[2]
          PROVE  a = b
      <4>1. CASE a = Len(e) \/ b = Len(e)
        BY <1>6, <3>1, <3>2, <3>3, <4>1
      <4>2. CASE a # Len(e) /\ b # Len(e)
        <5>1. a \in 1 .. Len(w.heads[i]) /\ b \in 1 .. Len(w.heads[i])
          BY <3>2, <4>2
        <5>2. w.heads[i][a].id[2] = w.heads[i][b].id[2]
          BY <1>6, <3>3, <5>1
        <5> QED BY <1>3, <5>1, <5>2 DEF Distinct
      <4> QED BY <4>1, <4>2
    <3> QED BY <3>3 DEF Distinct
  <2> QED BY <2>1, <2>2, <2>3 DEF SameIds
<1> QED BY <1>7, <1>9, <1>10 DEF g, h, Yields

\* The turn of image i ends with its commit: what it spent is what the others
\* were passed by.
LEMMA CommitShare ==
  ASSUME NEW f, FairType(f), NEW g, NEW i \in Images, NEW j \in Images, j # i,
         f.cursor = i, ~f.replenish, NEW b \in 1 .. Quantum, b <= f.deficit[i],
         g.cursor = f.cursor, g.replenish = f.replenish,
         g.deficit = [f.deficit EXCEPT ![i] = @ - b], g.heads[j] = f.heads[j],
         NEW bytes \in Nat, ShareOf(f, j, bytes)
  PROVE  ShareOf(g, j, IF ReadyAt(f.heads[j]) = {} THEN 0 ELSE bytes + b)
<1>1. f.deficit[i] \in Nat /\ g.deficit[i] = f.deficit[i] - b
  BY DEF FairType
<1>2. Visits(g, j) = Visits(f, j) /\ Unspent(f, j) = f.deficit[i]
      /\ Unspent(g, j) = f.deficit[i] - b
  BY <1>1 DEF Visits, Unspent, Ahead
<1>3. CASE ReadyAt(f.heads[j]) = {}
  BY <1>3 DEF ShareOf
<1>4. CASE ReadyAt(f.heads[j]) # {}
  <2>1. bytes + f.deficit[i] <= Bound(Behind(f.heads[j]), Visits(f, j))
    BY <1>2, <1>4 DEF ShareOf
  <2>2. (bytes + b) + (f.deficit[i] - b) = bytes + f.deficit[i]
    BY <1>1
  <2> QED BY <1>2, <1>4, <2>1, <2>2 DEF ShareOf
<1> QED BY <1>3, <1>4

\* The turn of image i is refused: its visit ends.
LEMMA RefuseShare ==
  ASSUME NEW f, FairType(f), NEW g, FairType(g), NEW i \in Images,
         NEW j \in Images, j # i, f.cursor = i, ~f.replenish,
         g.cursor = Visited(f, 1), g.replenish = TRUE,
         g.heads[j] = f.heads[j],
         NEW bytes \in Nat, ShareOf(f, j, bytes)
  PROVE  ShareOf(g, j, bytes)
<1> DEFINE b == Behind(f.heads[j])
<1>1. CASE ReadyAt(f.heads[j]) = {}
  BY <1>1 DEF ShareOf
<1>2. CASE ReadyAt(f.heads[j]) # {}
  <2>1. f.heads[j] \in Seq(Tickets)
    BY DEF FairType
  <2>2. b \in Nat \ {0}
    BY <1>2, <2>1, FirstReadyIs
  <2>3. Visits(f, j) \in 0 .. NImages - 1 /\ Unspent(f, j) \in 0 .. Visit
        /\ Visits(g, j) \in 0 .. NImages - 1
    BY VisitsIn
  <2>4. bytes + Unspent(f, j) <= Bound(b, Visits(f, j))
    BY <1>2 DEF ShareOf
  <2>5. Unspent(g, j) = 0
    BY DEF Unspent
  <2>6. f.cursor \in 0 .. NImages - 1 /\ j \in 0 .. NImages - 1
    BY DEF FairType, Images
  <2>7. g.cursor = IF f.cursor + 1 < NImages THEN f.cursor + 1 ELSE f.cursor + 1 - NImages
    BY <2>6, VisitedIs, Constants
  <2>8. Visits(f, j) <= Visits(g, j)
    <3>1. CASE g.cursor = j
      <4>1. Visits(g, j) = NImages - 1
        BY <3>1 DEF Visits
      <4> QED BY <2>3, <4>1, Constants
    <3>2. CASE g.cursor # j
      <4>1. Ahead(g, j) = Ahead(f, j) - 1
        BY <2>6, <2>7, <3>2, Constants DEF Ahead
      <4>2. Ahead(f, j) \in 1 .. NImages
        BY AheadIs
      <4>3. Visits(f, j) = NImages - Ahead(f, j) /\ Visits(g, j) = NImages - Ahead(g, j) - 1
        BY <3>2, <4>2, Constants DEF Visits
      <4> QED BY <4>1, <4>2, <4>3, Constants
    <3> QED BY <3>1, <3>2
  <2> HIDE DEF b
  <2>9. Bound(b, Visits(f, j)) <= Bound(b, Visits(g, j))
    BY <2>2, <2>3, <2>8, BoundMore, Constants
  <2>10. Bound(b, Visits(f, j)) \in Nat /\ Bound(b, Visits(g, j)) \in Nat
    <3>1. Visits(f, j) \in Nat /\ Visits(g, j) \in Nat
      BY <2>3, Constants
    <3> QED BY <2>2, <3>1, BoundNat
  <2>11. bytes + Unspent(g, j) <= Bound(b, Visits(g, j))
    BY <2>3, <2>4, <2>5, <2>9, <2>10, Constants
  <2> QED BY <1>2, <2>11 DEF ShareOf, b
<1> QED BY <1>1, <1>2

-----------------------------------------------------------------------------
(* What a step leaves alone                                                *)

LEMMA WokenType ==
  ASSUME Domains, NEW W
  PROVE  Woken(W) \in [Images -> BOOLEAN]
BY DEF Domains, Woken

LEMMA DistinctOf ==
  ASSUME NEW j, TicketInv(j)
  PROVE  Distinct(fair.heads[j])
BY DEF TicketInv

\* The requests of an image in terms of places in its queues.
LEMMA DiscoveredIs ==
  ASSUME NEW j, \A q \in Queues(j) : frontier[j][q] \in Seq(Requests)
  PROVE  \A r : r \in Discovered(j) <=>
           \E q \in Queues(j) : \E n \in 1 .. Len(frontier[j][q]) :
             r = frontier[j][q][n]
<1>1. \A q \in Queues(j) : DOMAIN frontier[j][q] = 1 .. Len(frontier[j][q])
  OBVIOUS
<1>2. ASSUME NEW r, r \in Discovered(j)
      PROVE  \E q \in Queues(j) : \E n \in 1 .. Len(frontier[j][q]) :
               r = frontier[j][q][n]
  <2>1. PICK q \in Queues(j) : r \in Range(frontier[j][q])
    BY <1>2 DEF Discovered
  <2>2. PICK n \in DOMAIN frontier[j][q] : r = frontier[j][q][n]
    BY <2>1 DEF Range
  <2> QED BY <1>1, <2>2
<1>3. ASSUME NEW q \in Queues(j), NEW n \in 1 .. Len(frontier[j][q])
      PROVE  frontier[j][q][n] \in Discovered(j)
  <2>1. frontier[j][q][n] \in Range(frontier[j][q])
    BY <1>1 DEF Range
  <2> QED BY <2>1 DEF Discovered
<1> QED BY <1>2, <1>3

LEMMA QueueFrame ==
  ASSUME NEW j, QueueType(j), OrderInv(j), AdmitInv(j), TurnInv(j), SlotInv(j),
         program' = program, posted'[j] = posted[j], found'[j] = found[j],
         frontier'[j] = frontier[j], orders'[j] = orders[j],
         slots'[j] = slots[j], pass'[j] = pass[j], admitted'[j] = admitted[j]
  PROVE  /\ (QueueType(j) /\ OrderInv(j) /\ AdmitInv(j) /\ TurnInv(j) /\ SlotInv(j))'
         /\ Queues(j)' = Queues(j) /\ QueueAt(j)' = QueueAt(j)
         /\ Candidate(j)' = Candidate(j)
         /\ InTurn(j)' = InTurn(j) /\ Ticket(j)' = Ticket(j)
<1>1. Queues(j)' = Queues(j) /\ NQueues(j)' = NQueues(j)
  BY DEF Queues, NQueues
<1>2. QueueAt(j)' = QueueAt(j)
  BY <1>1 DEF QueueAt
<1>3. Candidate(j)' = Candidate(j)
  BY <1>2 DEF Candidate
<1>4. Discovered(j)' = Discovered(j)
  BY <1>1 DEF Discovered
<1>5. \A q, n : Eligible(j, q, n)' <=> Eligible(j, q, n)
  BY <1>4 DEF Eligible
<1>6. QueueType(j)'
  BY <1>1 DEF QueueType
<1>7. OrderInv(j)'
  BY <1>1 DEF OrderInv
<1>8. AdmitInv(j)'
  BY <1>1 DEF AdmitInv
<1>9. TurnInv(j)'
  <2>1. QueueAt(j)' = QueueAt(j) /\ Candidate(j)' = Candidate(j)
    BY <1>2, <1>3
  <2> QED BY <2>1, <1>5 DEF TurnInv
<1>10. SlotInv(j)'
  BY <1>1 DEF SlotInv, Slotted
<1>11. InTurn(j)' = InTurn(j) /\ Ticket(j)' = Ticket(j)
  BY <1>3 DEF InTurn, Ticket
<1> QED BY <1>1, <1>2, <1>3, <1>6, <1>7, <1>8, <1>9, <1>10, <1>11

LEMMA SameMatch ==
  ASSUME NEW h, NEW e, SameIds(h, e), NEW slot, NEW queue, NEW Q,
         Backed(h, slot, queue, Q), Covered(h, slot, queue, Q)
  PROVE  Backed(e, slot, queue, Q) /\ Covered(e, slot, queue, Q)
<1>1. ASSUME NEW m \in 1 .. Len(e)
      PROVE  \E q \in Q :
               /\ e[m].id[2] # 0 /\ slot[e[m].id[1]][q] = e[m].id[2]
               /\ \E n \in 1 .. Len(queue[q]) :
                    /\ queue[q][n].order = e[m].id[2]
                    /\ queue[q][n].bytes = e[m].bytes
                    /\ Data(queue[q][n])
  <2>1. PICK n \in 1 .. Len(h) : e[m].id = h[n].id /\ e[m].bytes = h[n].bytes
    BY DEF SameIds
  <2>2. PICK q \in Q :
          /\ h[n].id[2] # 0 /\ slot[h[n].id[1]][q] = h[n].id[2]
          /\ \E k \in 1 .. Len(queue[q]) :
               /\ queue[q][k].order = h[n].id[2] /\ queue[q][k].bytes = h[n].bytes
               /\ Data(queue[q][k])
    BY DEF Backed
  <2> QED BY <2>1, <2>2
<1>2. ASSUME NEW s \in Names, NEW q \in Q, NEW n \in 1 .. Len(queue[q]),
             slot[s][q] = queue[q][n].order, Data(queue[q][n])
      PROVE  \E m \in 1 .. Len(e) : e[m].id = <<s, slot[s][q]>>
  <2>1. PICK m \in 1 .. Len(h) : h[m].id = <<s, slot[s][q]>>
    BY <1>2 DEF Covered
  <2> QED BY <2>1, ZenonT(60) DEF SameIds
<1> QED BY <1>1, <1>2 DEF Backed, Covered

LEMMA TicketFrame ==
  ASSUME NEW j, TicketInv(j), Queues(j)' = Queues(j),
         frontier'[j] = frontier[j], slots'[j] = slots[j],
         SameIds(fair.heads[j], fair'.heads[j])
  PROVE  TicketInv(j)'
<1>1. /\ Backed(fair'.heads[j], slots[j], frontier[j], Queues(j))
      /\ Covered(fair'.heads[j], slots[j], frontier[j], Queues(j))
  BY SameMatch DEF TicketInv
<1>2. Distinct(fair'.heads[j])
  BY DEF SameIds
<1> QED BY <1>1, <1>2 DEF TicketInv

\* An image a step does not concern.
LEMMA ImageFrame ==
  ASSUME NEW j \in Images, ImageInv(j), FairType(fair),
         program' = program, posted'[j] = posted[j], found'[j] = found[j],
         frontier'[j] = frontier[j], orders'[j] = orders[j],
         slots'[j] = slots[j], pass'[j] = pass[j], admitted'[j] = admitted[j],
         pending'[j] \subseteq pending[j], wal'[j] = wal[j],
         SameIds(fair.heads[j], fair'.heads[j])
  PROVE  ImageInv(j)' /\ InTurn(j)' = InTurn(j) /\ Ticket(j)' = Ticket(j)
<1>1. /\ (QueueType(j) /\ OrderInv(j) /\ AdmitInv(j) /\ TurnInv(j) /\ SlotInv(j))'
      /\ Queues(j)' = Queues(j) /\ InTurn(j)' = InTurn(j) /\ Ticket(j)' = Ticket(j)
  BY QueueFrame DEF ImageInv
<1>2. TicketInv(j)'
  BY <1>1, TicketFrame DEF ImageInv
<1>3. IoType(j)'
  BY DEF ImageInv, IoType
<1> QED BY <1>1, <1>2, <1>3 DEF ImageInv

LEMMA SameHeads ==
  ASSUME NEW j \in Images, ImageInv(j), FairType(fair)
  PROVE  SameIds(fair.heads[j], fair.heads[j])
<1>1. fair.heads[j] \in Seq(Tickets)
  BY DEF FairType
<1>2. Distinct(fair.heads[j])
  BY DistinctOf DEF ImageInv
<1> QED BY <1>1, <1>2, SameIdsSelf

\* The turn in progress when nobody enters or leaves one.
LEMMA GrantFrame ==
  ASSUME GrantInv,
         \A j \in Images : /\ InTurn(j)' = InTurn(j)
                           /\ InTurn(j) => Ticket(j)' = Ticket(j),
         fair'.granted = fair.granted,
         \A j \in Images : fair.granted # NoTurn /\ InTurn(j) =>
           /\ fair'.cursor = fair.cursor /\ fair'.replenish = fair.replenish
           /\ fair'.deficit = fair.deficit /\ passed'[j] = passed[j]
           /\ Len(fair.heads[j]) <= Len(fair'.heads[j])
           /\ \A n \in 1 .. Len(fair.heads[j]) :
                /\ fair'.heads[j][n].id = fair.heads[j][n].id
                /\ fair'.heads[j][n].bytes = fair.heads[j][n].bytes
                /\ fair.heads[j][n].ready => fair'.heads[j][n].ready,
         \A j \in Images : Len(fair.heads[j]) \in Nat /\ Len(fair'.heads[j]) \in Nat
  PROVE  GrantInv'
<1>1. ASSUME NEW i \in Images, InTurn(i)'
      PROVE  fair'.granted = [image |-> i, id |-> Ticket(i)']
  BY <1>1 DEF GrantInv
<1>2. ASSUME fair'.granted # NoTurn
      PROVE  \E i \in Images :
         /\ InTurn(i)' /\ fair'.granted = [image |-> i, id |-> Ticket(i)']
         /\ fair'.cursor = i /\ ~fair'.replenish /\ passed'[i] = 0
         /\ \E n \in 1 .. Len(fair'.heads[i]) :
              /\ fair'.heads[i][n].id = Ticket(i)' /\ fair'.heads[i][n].ready
              /\ fair'.heads[i][n].bytes <= fair'.deficit[i]
  <2>1. PICK i \in Images :
         /\ InTurn(i) /\ fair.granted = [image |-> i, id |-> Ticket(i)]
         /\ fair.cursor = i /\ ~fair.replenish /\ passed[i] = 0
         /\ \E n \in 1 .. Len(fair.heads[i]) :
              /\ fair.heads[i][n].id = Ticket(i) /\ fair.heads[i][n].ready
              /\ fair.heads[i][n].bytes <= fair.deficit[i]
    BY <1>2 DEF GrantInv
  <2>2. PICK n \in 1 .. Len(fair.heads[i]) :
              /\ fair.heads[i][n].id = Ticket(i) /\ fair.heads[i][n].ready
              /\ fair.heads[i][n].bytes <= fair.deficit[i]
    BY <2>1
  <2>3. /\ n \in 1 .. Len(fair'.heads[i])
        /\ fair'.heads[i][n].id = Ticket(i) /\ fair'.heads[i][n].ready
        /\ fair'.heads[i][n].bytes <= fair'.deficit[i]
    BY <1>2, <2>1, <2>2, SMTT(20)
  <2> QED BY <1>2, <2>1, <2>3
<1> QED BY <1>1, <1>2 DEF GrantInv

\* A step that leaves the scheduler g and calls wake_next.
LEMMA WakeFrame ==
  ASSUME NEW g, FairType(g), NEW c \in Choose(g), fair' = c.fair,
         passed' \in [Images -> Nat], \A j \in Images : ShareOf(g, j, passed'[j])
  PROVE  /\ FairType(fair)' /\ ShareInv' /\ fair'.heads = g.heads
         /\ fair'.granted = g.granted /\ (g.granted # NoTurn => fair' = g)
<1>1. Chosen(g, c)
  BY ChooseType
<1>2. FairType(fair') /\ fair'.heads = g.heads
         /\ fair'.granted = g.granted /\ (g.granted # NoTurn => fair' = g)
  BY <1>1 DEF Chosen
<1>3. \A j \in Images : ShareOf(c.fair, j, passed'[j])
  BY ChooseShare
<1>4. ShareInv'
  BY <1>3 DEF ShareInv, ShareOf, Unspent, Visits, Ahead
<1>5. FairType(fair)'
  BY <1>2 DEF FairType
<1> QED BY <1>2, <1>4, <1>5

\* A step that leaves the scheduler alone.
LEMMA QuietInv ==
  ASSUME FrontendInv, Domains', HostInv', fair' = fair, passed' = passed,
         \A j \in Images : /\ ImageInv(j)' /\ InTurn(j)' = InTurn(j)
                           /\ InTurn(j) => Ticket(j)' = Ticket(j)
  PROVE  FrontendInv'
<1>1. \A j \in Images : Len(fair.heads[j]) \in Nat
  <2>1. \A j \in Images : fair.heads[j] \in Seq(Tickets)
    BY DEF FrontendInv, FairType
  <2> QED BY <2>1
<1>2. GrantInv'
  BY <1>1, GrantFrame DEF FrontendInv
<1>3. ShareInv'
  BY DEF FrontendInv, ShareInv, ShareOf, Visits, Unspent, Ahead
<1>4. FairType(fair)'
  BY DEF FrontendInv, FairType
<1> QED BY <1>2, <1>3, <1>4 DEF FrontendInv

-----------------------------------------------------------------------------
(* Steps outside the scheduler                                             *)

LEMMA PostInv ==
  ASSUME FrontendInv, NEW i \in Images, NEW q \in Queues(i), Post(i, q)
  PROVE  FrontendInv'
<1>1. Domains'
  BY WokenType DEF FrontendInv, Domains, Post, queues, io, past
<1>2. HostInv'
  BY DEF FrontendInv, HostInv, CollectionAlone, Post, gate, io
<1>3. ASSUME NEW j \in Images
      PROVE  /\ ImageInv(j)' /\ InTurn(j)' = InTurn(j)
             /\ InTurn(j) => Ticket(j)' = Ticket(j)
  <2>0. ImageInv(j) /\ FairType(fair) /\ Domains
    BY DEF FrontendInv
  <2>1. /\ program' = program /\ found' = found /\ frontier' = frontier
        /\ orders' = orders /\ slots' = slots /\ pass' = pass
        /\ admitted' = admitted /\ pending' = pending /\ wal' = wal /\ fair' = fair
    BY DEF Post, queues, io, past
  <2>2. SameIds(fair.heads[j], fair'.heads[j])
    BY <2>0, <2>1, SameHeads
  <2>3. CASE j # i
    <3>1. posted'[j] = posted[j]
      BY <2>0, <2>3 DEF Post, Domains
    <3> QED BY <2>0, <2>1, <2>2, <3>1, ImageFrame
  <2>4. CASE j = i
    <3>1. posted'[i] = [posted[i] EXCEPT ![q] = @ + 1] /\ posted[i][q] < Len(program[i][q])
      BY <2>0 DEF Post, Domains
    <3>2. Queues(i)' = Queues(i) /\ NQueues(i)' = NQueues(i)
      BY <2>1 DEF Queues, NQueues
    <3>3. program[i][q] \in Seq(Posted)
      BY <2>0, QueuesOf DEF Domains
    <3>4. QueueType(i)'
      <4>0. QueueType(i)
        BY <2>0, <2>4 DEF ImageInv
      <4>1. posted'[i] \in [Queues(i) -> Nat]
        BY <3>1, <4>0, SMTT(20) DEF QueueType
      <4>2. ASSUME NEW p \in Queues(i)
            PROVE  posted'[i][p] <= Len(program[i][p]) /\ found[i][p] <= posted'[i][p]
        <5>0. Len(program[i][q]) \in Nat
          BY <3>3
        <5>1. posted[i][p] \in Nat /\ found[i][p] \in Nat
              /\ posted[i][p] <= Len(program[i][p]) /\ found[i][p] <= posted[i][p]
          BY <4>0 DEF QueueType
        <5>2. posted'[i][p] = IF p = q THEN posted[i][p] + 1 ELSE posted[i][p]
          BY <3>1, <4>0 DEF QueueType
        <5> QED BY <3>1, <5>0, <5>1, <5>2
      <4> QED BY <2>1, <3>2, <4>0, <4>1, <4>2 DEF QueueType
    <3>5. QueueAt(i)' = QueueAt(i)
      BY <2>1, <3>2 DEF QueueAt
    <3>6. Candidate(i)' = Candidate(i)
      BY <2>1, <3>5 DEF Candidate
    <3>7. Discovered(i)' = Discovered(i)
      BY <2>1, <3>2 DEF Discovered
    <3>8. OrderInv(i)' /\ AdmitInv(i)' /\ SlotInv(i)' /\ IoType(i)'
      BY <2>0, <2>1, <2>4, <3>2 DEF ImageInv, OrderInv, AdmitInv, SlotInv, Slotted, IoType
    <3>9. TurnInv(i)'
      BY <2>0, <2>1, <2>4, <3>5, <3>6, <3>7 DEF ImageInv, TurnInv, Eligible
    <3>10. TicketInv(i)'
      BY <2>0, <2>1, <2>2, <2>4, <3>2, TicketFrame DEF ImageInv
    <3>11. InTurn(i)' = InTurn(i) /\ Ticket(i)' = Ticket(i)
      BY <2>1, <3>6 DEF InTurn, Ticket
    <3> QED BY <2>4, <3>4, <3>8, <3>9, <3>10, <3>11 DEF ImageInv
  <2> QED BY <2>3, <2>4
<1>4. fair' = fair /\ passed' = passed
  BY DEF Post, past
<1> QED BY <1>1, <1>2, <1>3, <1>4, QuietInv

\* A step that touches nothing of the frontends but their wakes, permits and
\* logs.
LEMMA CalmInv ==
  ASSUME FrontendInv, UNCHANGED <<guest, queues, slots, pass, fair, past>>,
         DOMAIN pending' = Images, DOMAIN wal' = Images,
         wake' \in [Images -> BOOLEAN], HostInv',
         \A j \in Images : pending'[j] \subseteq pending[j] /\ IoType(j)'
  PROVE  FrontendInv'
<1>1. Domains'
  BY DEF FrontendInv, Domains, guest, queues, past
<1>2. ASSUME NEW j \in Images
      PROVE  /\ ImageInv(j)' /\ InTurn(j)' = InTurn(j)
             /\ InTurn(j) => Ticket(j)' = Ticket(j)
  <2>0. ImageInv(j) /\ FairType(fair)
    BY DEF FrontendInv
  <2>1. /\ (QueueType(j) /\ OrderInv(j) /\ AdmitInv(j) /\ TurnInv(j) /\ SlotInv(j))'
        /\ Queues(j)' = Queues(j) /\ InTurn(j)' = InTurn(j) /\ Ticket(j)' = Ticket(j)
    BY <2>0, QueueFrame DEF ImageInv, guest, queues, past
  <2>2. TicketInv(j)'
    BY <2>0, <2>1, SameHeads, TicketFrame DEF ImageInv, queues
  <2> QED BY <2>1, <2>2 DEF ImageInv
<1> QED BY <1>1, <1>2, QuietInv DEF past

LEMMA CompleteInv ==
  ASSUME FrontendInv, NEW i \in Images, Complete(i)
  PROVE  FrontendInv'
<1>1. UNCHANGED <<guest, queues, slots, pass, fair, past, pending, wal, gate>>
      /\ wake' = Woken({i})
  BY DEF Complete
<1>2. HostInv'
  BY <1>1 DEF FrontendInv, HostInv, CollectionAlone, gate
<1>3. DOMAIN pending' = Images /\ DOMAIN wal' = Images /\ wake' \in [Images -> BOOLEAN]
  BY <1>1, WokenType DEF FrontendInv, Domains
<1>4. \A j \in Images : IoType(j)'
  BY <1>1 DEF FrontendInv, ImageInv, IoType
<1> QED BY <1>1, <1>2, <1>3, <1>4, CalmInv

LEMMA ReopenInv ==
  ASSUME FrontendInv, NEW i \in Images, Reopen(i)
  PROVE  FrontendInv'
<1>1. /\ UNCHANGED <<guest, queues, slots, pass, fair, past, pending, gate>>
      /\ wal' = [wal EXCEPT ![i] = [used |-> 0, wanted |-> FALSE, rotated |-> FALSE]]
      /\ wake' = Woken({i})
  BY DEF Reopen, io
<1>2. HostInv'
  BY <1>1 DEF FrontendInv, HostInv, CollectionAlone, gate
<1>3. DOMAIN pending' = Images /\ DOMAIN wal' = Images /\ wake' \in [Images -> BOOLEAN]
  BY <1>1, WokenType DEF FrontendInv, Domains
<1>4. \A j \in Images : IoType(j)'
  BY <1>1, Constants DEF FrontendInv, ImageInv, IoType, Domains
<1> QED BY <1>1, <1>2, <1>3, <1>4, CalmInv

LEMMA PauseInv ==
  ASSUME FrontendInv, Pause \/ Begin \/ Resume
  PROVE  FrontendInv'
<1>1. /\ UNCHANGED <<guest, queues, slots, pass, fair, past, pending, wal>>
      /\ wake' = wake \/ wake' = Woken(Images)
  BY DEF Pause, Begin, Resume, io
<1>2. HostInv'
  <2>0. HostInv /\ pending' = pending
    BY <1>1 DEF FrontendInv
  <2>1. CASE Pause
    <3>1. pauses' \in 0 .. MaxPauses
      BY <2>0, <2>1, Constants DEF Pause, HostInv
    <3>2. host \in [paused : BOOLEAN, running : BOOLEAN] /\ host' = [host EXCEPT !.paused = TRUE]
      BY <2>0, <2>1 DEF Pause, HostInv
    <3>3. host' \in [paused : BOOLEAN, running : BOOLEAN] /\ host'.paused /\ host'.running = host.running
      BY <3>2
    <3> QED BY <2>0, <3>1, <3>3 DEF HostInv, CollectionAlone
  <2>2. CASE Begin
    BY <2>0, <2>2 DEF Begin, HostInv, CollectionAlone
  <2>3. CASE Resume
    BY <2>0, <2>3 DEF Resume, HostInv, CollectionAlone
  <2> QED BY <2>1, <2>2, <2>3
<1>3. DOMAIN pending' = Images /\ DOMAIN wal' = Images /\ wake' \in [Images -> BOOLEAN]
  BY <1>1, WokenType DEF FrontendInv, Domains
<1>4. \A j \in Images : IoType(j)'
  BY <1>1 DEF FrontendInv, ImageInv, IoType
<1> QED BY <1>1, <1>2, <1>3, <1>4, CalmInv

\* The end of a pass and a refused permit move the pass of one image on.
LEMMA PassInv ==
  ASSUME FrontendInv, NEW i \in Images, EndPass(i) \/ Deny(i)
  PROVE  FrontendInv'
<1>1. /\ UNCHANGED <<guest, queues, slots, wake, fair, past, pending, gate>>
      /\ \A j \in Images : j # i => pass'[j] = pass[j] /\ wal'[j] = wal[j]
      /\ DOMAIN pass' = Images /\ DOMAIN wal' = Images
      /\ IoType(i)'
  <2>0. Domains /\ IoType(i)
    BY DEF FrontendInv, ImageInv
  <2>1. CASE EndPass(i)
    BY <2>0, <2>1 DEF EndPass, Domains, IoType
  <2>2. CASE Deny(i)
    <3>1. wal' = wal \/ wal' = [wal EXCEPT ![i].wanted = TRUE]
      BY <2>2 DEF Deny
    <3>2. /\ UNCHANGED <<guest, queues, slots, wake, fair, past, pending, gate>>
          /\ pass' = [pass EXCEPT ![i].step = "refused"]
      BY <2>2 DEF Deny
    <3> QED BY <2>0, <3>1, <3>2, ZenonT(60) DEF Domains, IoType
  <2> QED BY <2>1, <2>2
<1>2. Domains'
  BY <1>1 DEF FrontendInv, Domains, guest, queues, past
<1>3. HostInv'
  BY <1>1 DEF FrontendInv, HostInv, CollectionAlone, gate
<1>4. ASSUME NEW j \in Images
      PROVE  /\ ImageInv(j)' /\ InTurn(j)' = InTurn(j)
             /\ InTurn(j) => Ticket(j)' = Ticket(j)
  <2>0. ImageInv(j) /\ FairType(fair) /\ Domains
    BY DEF FrontendInv
  <2>1. /\ program' = program /\ posted' = posted /\ found' = found /\ frontier' = frontier
        /\ orders' = orders /\ slots' = slots
        /\ admitted' = admitted /\ pending' = pending /\ fair' = fair
    BY <1>1 DEF guest, queues, past
  <2>2. SameIds(fair.heads[j], fair'.heads[j])
    BY <2>0, <2>1, SameHeads
  <2>3. CASE j # i
    <3>1. pass'[j] = pass[j] /\ wal'[j] = wal[j] /\ posted'[j] = posted[j] /\ found'[j] = found[j]
          /\ frontier'[j] = frontier[j] /\ orders'[j] = orders[j] /\ slots'[j] = slots[j]
          /\ admitted'[j] = admitted[j] /\ pending'[j] \subseteq pending[j]
      BY <1>1, <2>1, <2>3
    <3> QED BY <2>0, <2>1, <2>2, <3>1, ImageFrame
  <2>4. CASE j = i
    <3>0. QueueType(i) /\ OrderInv(i) /\ AdmitInv(i) /\ SlotInv(i) /\ TurnInv(i) /\ TicketInv(i)
      BY <2>0, <2>4 DEF ImageInv
    <3>1. Queues(i)' = Queues(i) /\ NQueues(i)' = NQueues(i)
      BY <2>1 DEF Queues, NQueues
    <3>2. OrderInv(i)' /\ AdmitInv(i)' /\ SlotInv(i)'
      BY <2>1, <3>0, <3>1 DEF OrderInv, AdmitInv, SlotInv, Slotted
    <3>3. TicketInv(i)'
      BY <2>0, <2>1, <2>2, <2>4, <3>0, <3>1, TicketFrame
    <3>4. QueueType(i)' /\ TurnInv(i)' /\ InTurn(i)' = InTurn(i)
          /\ (InTurn(i) => Ticket(i)' = Ticket(i))
      <4>1. CASE EndPass(i)
        <5>1. pass'[i] = [pass[i] EXCEPT !.at = 0, !.cand = 1, !.step = "idle"]
              /\ pass[i].step = "scan"
          BY <2>0, <4>1 DEF EndPass, Domains
        <5>2. 0 \in Queues(i)
          <6>1. program \in Programs
            BY <2>0 DEF Domains
          <6> QED BY <6>1, QueuesHold
        <5>3. pass[i] \in [first : Queues(i), at : Queues(i), cand : Nat \ {0},
                  step : {"idle", "scan", "turn", "refused"}]
          BY <3>0 DEF QueueType
        <5>4. pass'[i] \in [first : Queues(i), at : Queues(i), cand : Nat \ {0},
                  step : {"idle", "scan", "turn", "refused"}] /\ pass'[i].step = "idle"
          <6> DEFINE Q == Queues(i)
          <6>1. 0 \in Q /\ 1 \in Nat \ {0}
            BY <5>2
          <6> HIDE DEF Q
          <6>2. pass[i] \in [first : Q, at : Q, cand : Nat \ {0},
                  step : {"idle", "scan", "turn", "refused"}]
            BY <5>3 DEF Q
          <6>3. pass'[i] \in [first : Q, at : Q, cand : Nat \ {0},
                  step : {"idle", "scan", "turn", "refused"}] /\ pass'[i].step = "idle"
            BY <5>1, <6>1, <6>2
          <6> QED BY <6>3 DEF Q
        <5> QED BY <2>1, <3>0, <3>1, <5>1, <5>4 DEF QueueType, TurnInv, InTurn
      <4>2. CASE Deny(i)
        <5>1. pass'[i] = [pass[i] EXCEPT !.step = "refused"] /\ pass[i].step = "turn"
          BY <2>0, <4>2 DEF Deny, Domains
        <5>2. pass[i] \in [first : Queues(i), at : Queues(i), cand : Nat \ {0},
                  step : {"idle", "scan", "turn", "refused"}]
          BY <3>0 DEF QueueType
        <5>3. pass'[i] \in [first : Queues(i), at : Queues(i), cand : Nat \ {0},
                  step : {"idle", "scan", "turn", "refused"}]
              /\ pass'[i].step = "refused" /\ pass'[i].cand = pass[i].cand
              /\ pass'[i].first = pass[i].first /\ pass'[i].at = pass[i].at
          BY <5>1, <5>2
        <5>4. QueueAt(i)' = QueueAt(i)
          BY <3>1, <5>3 DEF QueueAt
        <5>5. Candidate(i)' = Candidate(i)
          BY <2>1, <5>3, <5>4 DEF Candidate
        <5>6. Discovered(i)' = Discovered(i)
          BY <2>1, <3>1 DEF Discovered
        <5>7. QueueType(i)'
          BY <2>1, <3>0, <3>1, <5>3 DEF QueueType
        <5>8. TurnInv(i)'
          BY <2>1, <3>0, <5>1, <5>3, <5>4, <5>5, <5>6 DEF TurnInv, Eligible
        <5>9. InTurn(i)' = InTurn(i) /\ Ticket(i)' = Ticket(i)
          BY <5>1, <5>3, <5>5 DEF InTurn, Ticket
        <5> QED BY <5>7, <5>8, <5>9
      <4> QED BY <4>1, <4>2
    <3> QED BY <1>1, <2>4, <3>2, <3>3, <3>4 DEF ImageInv
  <2> QED BY <2>3, <2>4
<1>5. passed' = passed /\ fair' = fair
  BY <1>1 DEF past
<1> QED BY <1>2, <1>3, <1>4, <1>5, QuietInv

-----------------------------------------------------------------------------
(* Discovery                                                               *)

\* A queue takes n more requests, in ring order and with the next orders.
Adds(i, q, n) ==
  /\ frontier'[i][q] \in Seq(Requests)
  /\ Len(frontier'[i][q]) = Len(frontier[i][q]) + n
  /\ Len(frontier'[i][q]) <= QueueSize
  /\ \A k \in 1 .. Len(frontier[i][q]) :
       frontier'[i][q][k] = frontier[i][q][k]
  /\ \A k \in Len(frontier[i][q]) + 1 .. Len(frontier'[i][q]) :
       /\ frontier'[i][q][k].queue = q
       /\ frontier'[i][q][k].order = orders[i] + (k - Len(frontier[i][q]))
  /\ found' = [found EXCEPT ![i][q] = @ + n]
  /\ found[i][q] + n <= posted[i][q]
  /\ orders' = [orders EXCEPT ![i] = @ + n]
  /\ frontier' = [frontier EXCEPT ![i][q] = frontier'[i][q]]

LEMMA DiscoverIs ==
  ASSUME Domains, NEW i \in Images, QueueType(i), NEW q \in Queues(i),
         Discover(i, q)
  PROVE  \E n \in Nat : Adds(i, q, n)
<1> DEFINE old == frontier[i][q]
           src == program[i][q]
           fnd == found[i][q]
           pst == posted[i][q]
           ord == orders[i]
           room == QueueSize - Len(old)
           ring == pst - fnd
           n == IF ring < room THEN ring ELSE room
           new == [k \in 1 .. n |->
                [kind |-> program[i][q][found[i][q] + k].kind,
                 block |-> program[i][q][found[i][q] + k].block,
                 bytes |-> program[i][q][found[i][q] + k].bytes,
                 queue |-> q, order |-> orders[i] + k]]
<1>1. /\ frontier' = [frontier EXCEPT ![i][q] = @ \o new]
      /\ found' = [found EXCEPT ![i][q] = @ + n]
      /\ orders' = [orders EXCEPT ![i] = @ + n]
  BY DEF Discover
<1>2. /\ old \in Seq(Requests) /\ Len(old) \in Nat /\ Len(old) <= QueueSize
      /\ posted[i][q] \in Nat /\ fnd \in Nat /\ fnd <= posted[i][q]
      /\ posted[i][q] <= Len(src) /\ ord \in Nat
  BY DEF QueueType
<1>3. src \in Seq(Posted) /\ q \in Nat
  BY QueuesOf DEF Domains
<1>4. n \in Nat /\ fnd + n <= pst /\ Len(old) + n <= QueueSize
  <2>1. Len(old) \in Nat /\ Len(old) <= QueueSize /\ pst \in Nat /\ fnd \in Nat /\ fnd <= pst
    BY <1>2
  <2> HIDE DEF old, fnd, pst
  <2> QED BY <2>1, Constants
<1>5. Len(src) \in Nat
  BY <1>3
<1> HIDE DEF n
<1>6. ASSUME NEW k \in 1 .. n
      PROVE  new[k] \in Requests /\ new[k].queue = q /\ new[k].order = ord + k
  <2>1. src[fnd + k] \in Posted
    <3>0. pst \in Nat /\ fnd \in Nat /\ pst <= Len(src)
      BY <1>2
    <3> HIDE DEF src, fnd, pst
    <3>1. fnd + k \in 1 .. Len(src)
      BY <3>0, <1>4, <1>5
    <3> QED BY <1>3, <3>1
  <2>2. new[k] = [kind |-> src[fnd + k].kind, block |-> src[fnd + k].block,
                  bytes |-> src[fnd + k].bytes, queue |-> q, order |-> ord + k]
    OBVIOUS
  <2>3. ord + k \in Nat
    BY <1>2, <1>4
  <2> HIDE DEF src, fnd, ord, new
  <2> QED BY <1>3, <2>1, <2>2, <2>3 DEF Requests, Posted
<1>7. new \in Seq(Requests) /\ Len(new) = n
  <2>1. DOMAIN new = 1 .. n
    OBVIOUS
  <2>2. \A k \in 1 .. n : new[k] \in Requests
    BY <1>6
  <2>3. new = [k \in 1 .. n |-> new[k]]
    OBVIOUS
  <2> HIDE DEF new
  <2> QED BY <1>4, <2>1, <2>2, <2>3
<1> HIDE DEF new
<1>8. frontier'[i][q] = old \o new
  BY <1>1 DEF Domains, QueueType
<1>9. old \o new \in Seq(Requests) /\ Len(old \o new) = Len(old) + n
  <2> HIDE DEF old
  <2> QED BY <1>2, <1>7, ConcatProperties
<1>10. \A k \in 1 .. Len(old) : (old \o new)[k] = old[k]
  <2> HIDE DEF old
  <2> QED BY <1>2, <1>7, <1>9, <1>4
<1>11. ASSUME NEW k \in Len(old) + 1 .. Len(old \o new)
       PROVE  (old \o new)[k].queue = q /\ (old \o new)[k].order = ord + (k - Len(old))
  <2> HIDE DEF old, ord
  <2>1. k - Len(old) \in 1 .. n /\ (old \o new)[k] = new[k - Len(old)]
    BY <1>2, <1>4, <1>7, <1>9
  <2> QED BY <1>6, <2>1 DEF ord
<1>12. frontier' = [frontier EXCEPT ![i][q] = frontier'[i][q]]
  BY <1>1, <1>8
<1> QED BY <1>1, <1>4, <1>8, <1>9, <1>10, <1>11, <1>12 DEF Adds

LEMMA DiscoverInv ==
  ASSUME Domains, NEW i \in Images, QueueType(i), OrderInv(i), AdmitInv(i),
         SlotInv(i), NEW q \in Queues(i), Discover(i, q),
         program' = program, posted' = posted, slots' = slots,
         admitted' = admitted,
         pass'[i] \in [first : Queues(i), at : Queues(i), cand : Nat \ {0},
                       step : {"scan"}]
  PROVE  /\ (QueueType(i) /\ OrderInv(i) /\ AdmitInv(i) /\ SlotInv(i) /\ TurnInv(i))'
         /\ \A h : Backed(h, slots[i], frontier[i], Queues(i)) =>
              Backed(h, slots[i], frontier'[i], Queues(i))
         /\ \A h : Covered(h, slots[i], frontier[i], Queues(i)) =>
              Covered(h, slots[i], frontier'[i], Queues(i))
         /\ ~InTurn(i)' /\ Queues(i)' = Queues(i)
         /\ DOMAIN frontier' = Images /\ DOMAIN found' = Images /\ orders' \in [Images -> Nat]
         /\ \A j \in Images : j # i => /\ frontier'[j] = frontier[j]
                                       /\ found'[j] = found[j] /\ orders'[j] = orders[j]
<1> DEFINE old == frontier[i][q]
           fr == frontier[i]
           gr == frontier'[i]
           Q == Queues(i)
<1>0. PICK n \in Nat : Adds(i, q, n)
  BY DiscoverIs
<1>1.      /\ gr[q] \in Seq(Requests) /\ Len(gr[q]) = Len(old) + n
           /\ Len(gr[q]) <= QueueSize
           /\ \A k \in 1 .. Len(old) : gr[q][k] = old[k]
           /\ \A k \in Len(old) + 1 .. Len(gr[q]) :
                /\ gr[q][k].queue = q
                /\ gr[q][k].order = orders[i] + (k - Len(old))
           /\ found' = [found EXCEPT ![i][q] = @ + n]
           /\ found[i][q] + n <= posted[i][q]
           /\ orders' = [orders EXCEPT ![i] = @ + n]
           /\ frontier' = [frontier EXCEPT ![i][q] = gr[q]]
  BY <1>0 DEF Adds
<1>2. /\ DOMAIN frontier' = Images /\ DOMAIN found' = Images /\ orders' \in [Images -> Nat]
      /\ \A j \in Images : j # i => /\ frontier'[j] = frontier[j]
                                    /\ found'[j] = found[j] /\ orders'[j] = orders[j]
  BY <1>1 DEF Domains
<1>3. /\ orders'[i] = orders[i] + n /\ orders[i] \in Nat
      /\ gr = [fr EXCEPT ![q] = gr[q]] /\ fr \in [Q -> Seq(Requests)]
      /\ found'[i] = [found[i] EXCEPT ![q] = @ + n]
  BY <1>1 DEF Domains, QueueType
<1>4. Queues(i)' = Q
  BY DEF Queues
<1>5. /\ gr \in [Q -> Seq(Requests)] /\ \A p \in Q : p # q => gr[p] = fr[p]
      /\ \A p \in Q : Len(gr[p]) \in Nat /\ Len(fr[p]) \in Nat
      /\ \A p \in Q : gr[p] \in Seq(Requests) /\ fr[p] \in Seq(Requests)
  <2> HIDE DEF gr, fr, Q
  <2>1. q \in Q
    BY DEF Q
  <2>2. gr \in [Q -> Seq(Requests)] /\ \A p \in Q : p # q => gr[p] = fr[p]
    BY <1>1, <1>3, <2>1
  <2> QED BY <1>3, <2>2
\* A place of the new queues is an old one or holds an order not given before.
<1>6. \A p \in Q : \A k \in 1 .. Len(gr[p]) :
        \/ k \in 1 .. Len(fr[p]) /\ gr[p][k] = fr[p][k]
        \/ /\ p = q /\ k \in Len(old) + 1 .. Len(gr[q])
           /\ gr[p][k].queue = q
           /\ gr[p][k].order = orders[i] + (k - Len(old))
  <2> HIDE DEF gr
  <2> TAKE p \in Q
  <2> TAKE k \in 1 .. Len(gr[p])
  <2>1. CASE p # q
    BY <1>5, <2>1
  <2>2. CASE p = q
    <3>1. Len(old) \in Nat /\ Len(gr[q]) = Len(old) + n
      BY <1>1, <1>5
    <3>2. CASE k <= Len(old)
      BY <1>1, <2>2, <3>1, <3>2
    <3>3. CASE k > Len(old)
      BY <1>1, <2>2, <3>1, <3>3
    <3> QED BY <3>1, <3>2, <3>3
  <2> QED BY <2>1, <2>2
<1>7. \A p \in Q : \A k \in 1 .. Len(fr[p]) :
        k \in 1 .. Len(gr[p]) /\ gr[p][k] = fr[p][k]
  <2> HIDE DEF gr
  <2> TAKE p \in Q
  <2> TAKE k \in 1 .. Len(fr[p])
  <2>1. CASE p # q
    BY <1>5, <2>1
  <2>2. CASE p = q
    BY <1>1, <1>5, <2>2
  <2> QED BY <2>1, <2>2
<1>8. \A p \in Q : \A k \in 1 .. Len(fr[p]) :
        /\ fr[p][k].queue = p /\ fr[p][k].order \in Nat
        /\ 0 < fr[p][k].order /\ fr[p][k].order <= orders[i]
        /\ \A m \in 1 .. Len(fr[p]) : k < m => fr[p][k].order < fr[p][m].order
  <2>1. \A p \in Q : \A k \in 1 .. Len(fr[p]) : fr[p][k] \in Requests
    BY <1>5
  <2>2. \A p \in Q : \A k \in 1 .. Len(fr[p]) : fr[p][k].order \in Nat
    BY <2>1 DEF Requests
  <2> QED BY <2>2 DEF OrderInv
<1>9. Len(old) \in Nat /\ Len(gr[q]) = Len(old) + n /\ Len(gr[q]) \in Nat
  BY <1>1, <1>5
<1>10. QueueType(i)'
  <2>1. found'[i] \in [Q -> Nat] /\ \A p \in Q : found'[i][p] <= posted[i][p]
    <3>1. found[i] \in [Q -> Nat] /\ \A p \in Q : found[i][p] <= posted[i][p]
      BY DEF QueueType
    <3> QED BY <1>1, <1>3, <3>1, SMTT(20)
  <2>2. \A p \in Q : Len(gr[p]) <= QueueSize
    <3>1. \A p \in Q : Len(fr[p]) <= QueueSize
      BY DEF QueueType
    <3> QED BY <1>1, <1>5, <3>1
  <2>3. orders'[i] \in Nat
    BY <1>3
  <2> QED BY <1>4, <1>5, <2>1, <2>2, <2>3 DEF QueueType
<1> HIDE DEF gr, fr, Q, old
<1>11. ASSUME NEW p \in Q, NEW k \in 1 .. Len(gr[p])
       PROVE  /\ gr[p][k].queue = p
              /\ 0 < gr[p][k].order /\ gr[p][k].order <= orders[i] + n
              /\ \A m \in 1 .. Len(gr[p]) : k < m => gr[p][k].order < gr[p][m].order
  <2>1. CASE k \in 1 .. Len(fr[p]) /\ gr[p][k] = fr[p][k]
    <3>1. /\ gr[p][k].queue = p /\ gr[p][k].order \in Nat
          /\ 0 < gr[p][k].order /\ gr[p][k].order <= orders[i]
      BY <1>8, <2>1
    <3>2. ASSUME NEW m \in 1 .. Len(gr[p]), k < m
          PROVE  gr[p][k].order < gr[p][m].order
      <4>1. CASE m \in 1 .. Len(fr[p]) /\ gr[p][m] = fr[p][m]
        BY <1>8, <2>1, <3>2, <4>1
      <4>2. CASE /\ p = q /\ m \in Len(old) + 1 .. Len(gr[q])
                 /\ gr[p][m].order = orders[i] + (m - Len(old))
        BY <1>3, <1>9, <3>1, <4>2
      <4> QED BY <1>6, <4>1, <4>2
    <3> QED BY <1>3, <3>1, <3>2
  <2>2. CASE /\ p = q /\ k \in Len(old) + 1 .. Len(gr[q])
             /\ gr[p][k].queue = q
             /\ gr[p][k].order = orders[i] + (k - Len(old))
    <3>1. ASSUME NEW m \in 1 .. Len(gr[p]), k < m
          PROVE  gr[p][k].order < gr[p][m].order
      <4>1. CASE m \in 1 .. Len(fr[p]) /\ gr[p][m] = fr[p][m]
        BY <1>9, <2>2, <3>1, <4>1 DEF fr, old
      <4>2. CASE /\ p = q /\ m \in Len(old) + 1 .. Len(gr[q])
                 /\ gr[p][m].order = orders[i] + (m - Len(old))
        BY <1>3, <1>9, <2>2, <3>1, <4>2
      <4> QED BY <1>6, <4>1, <4>2
    <3> QED BY <1>3, <1>9, <2>2, <3>1
  <2> QED BY <1>6, <2>1, <2>2
<1>12. \A p, u \in Q : \A k \in 1 .. Len(fr[p]), m \in 1 .. Len(fr[u]) :
         fr[p][k].order = fr[u][m].order => p = u
  BY DEF OrderInv, fr, Q
<1>13. ASSUME NEW p \in Q, NEW u \in Q, NEW k \in 1 .. Len(gr[p]),
              NEW m \in 1 .. Len(gr[u]), gr[p][k].order = gr[u][m].order
       PROVE  p = u
  <2>1. \/ k \in 1 .. Len(fr[p]) /\ gr[p][k] = fr[p][k]
        \/ /\ p = q /\ k \in Len(old) + 1 .. Len(gr[q])
           /\ gr[p][k].order = orders[i] + (k - Len(old))
    BY <1>6
  <2>2. \/ m \in 1 .. Len(fr[u]) /\ gr[u][m] = fr[u][m]
        \/ /\ u = q /\ m \in Len(old) + 1 .. Len(gr[q])
           /\ gr[u][m].order = orders[i] + (m - Len(old))
    BY <1>6
  <2>3. CASE k \in 1 .. Len(fr[p]) /\ gr[p][k] = fr[p][k]
             /\ m \in 1 .. Len(fr[u]) /\ gr[u][m] = fr[u][m]
    BY <1>12, <1>13, <2>3
  <2>4. CASE k \in 1 .. Len(fr[p]) /\ gr[p][k] = fr[p][k]
             /\ u = q /\ m \in Len(old) + 1 .. Len(gr[q])
             /\ gr[u][m].order = orders[i] + (m - Len(old))
    <3>1. fr[p][k].order \in Nat /\ fr[p][k].order <= orders[i]
      BY <1>8, <2>4
    <3> QED BY <1>3, <1>9, <1>13, <2>4, <3>1
  <2>5. CASE m \in 1 .. Len(fr[u]) /\ gr[u][m] = fr[u][m]
             /\ p = q /\ k \in Len(old) + 1 .. Len(gr[q])
             /\ gr[p][k].order = orders[i] + (k - Len(old))
    <3>1. fr[u][m].order \in Nat /\ fr[u][m].order <= orders[i]
      BY <1>8, <2>5
    <3> QED BY <1>3, <1>9, <1>13, <2>5, <3>1
  <2> QED BY <2>1, <2>2, <2>3, <2>4, <2>5
<1>14. \A a \in admitted[i] : a.order \in Nat /\ a.order <= orders[i]
  BY DEF OrderInv, QueueType, Requests
<1>15. OrderInv(i)'
  <2>1. \A a \in admitted[i] : a.order <= orders[i] + n
    BY <1>3, <1>14
  <2> DEFINE P(fq, R, o, A) ==
        /\ \A p \in R : \A k \in 1 .. Len(fq[p]) :
             /\ fq[p][k].queue = p
             /\ 0 < fq[p][k].order /\ fq[p][k].order <= o
             /\ \A m \in 1 .. Len(fq[p]) : k < m => fq[p][k].order < fq[p][m].order
        /\ \A p, u \in R :
             \A k \in 1 .. Len(fq[p]), m \in 1 .. Len(fq[u]) :
               fq[p][k].order = fq[u][m].order => p = u
        /\ \A a \in A : a.order <= o
  <2>2. P(gr, Q, orders[i] + n, admitted[i])
    BY <1>11, <1>13, <2>1
  <2>3. OrderInv(i)' <=> P(frontier'[i], Queues(i)', orders'[i], admitted'[i])
    BY DEF OrderInv
  <2>4. frontier'[i] = gr /\ Queues(i)' = Q /\ orders'[i] = orders[i] + n /\ admitted'[i] = admitted[i]
    BY <1>3, <1>4 DEF gr
  <2> HIDE DEF P
  <2> QED BY <2>2, <2>3, <2>4
<1>16. AdmitInv(i)'
  <2>1. ASSUME NEW a \in admitted[i], NEW p \in Q, NEW k \in 1 .. Len(gr[p]),
               gr[p][k].order < a.order
        PROVE  ~Conflicts(gr[p][k], a) /\ (a.queue = p => a.kind = "read")
    <3>1. CASE k \in 1 .. Len(fr[p]) /\ gr[p][k] = fr[p][k]
      BY <2>1, <3>1 DEF AdmitInv, fr, Q
    <3>2. CASE /\ p = q /\ k \in Len(old) + 1 .. Len(gr[q])
               /\ gr[p][k].order = orders[i] + (k - Len(old))
      BY <1>3, <1>9, <1>14, <2>1, <3>2
    <3> QED BY <1>6, <3>1, <3>2
  <2> QED BY <1>4, <2>1 DEF AdmitInv, gr, Q
<1>17. SlotInv(i)'
  <2>1. ASSUME NEW p \in Q
        PROVE  /\ slots[i]["head"][p] # 0 =>
                    Len(gr[p]) > 0 /\ slots[i]["head"][p] = gr[p][1].order
               /\ slots[i]["read"][p] # 0 =>
                    /\ \E k \in 1 .. Len(gr[p]) : slots[i]["read"][p] = gr[p][k].order
                    /\ slots[i]["head"][p] # slots[i]["read"][p]
    <3>1. ASSUME slots[i]["head"][p] # 0
          PROVE  Len(gr[p]) > 0 /\ slots[i]["head"][p] = gr[p][1].order
      <4>1. Len(fr[p]) > 0 /\ slots[i]["head"][p] = fr[p][1].order
        BY <3>1 DEF SlotInv, Slotted, fr, Q
      <4>2. 1 \in 1 .. Len(gr[p]) /\ gr[p][1] = fr[p][1]
        BY <1>5, <1>7, <4>1
      <4> QED BY <1>5, <4>1, <4>2
    <3>2. ASSUME slots[i]["read"][p] # 0
          PROVE  /\ \E k \in 1 .. Len(gr[p]) : slots[i]["read"][p] = gr[p][k].order
                 /\ slots[i]["head"][p] # slots[i]["read"][p]
      <4>1. PICK k \in 1 .. Len(fr[p]) : slots[i]["read"][p] = fr[p][k].order
        BY <3>2 DEF SlotInv, Slotted, fr, Q
      <4>2. slots[i]["head"][p] # slots[i]["read"][p]
        BY <3>2 DEF SlotInv, Slotted, Q
      <4> QED BY <1>7, <4>1, <4>2
    <3> QED BY <3>1, <3>2
  <2> QED BY <1>4, <2>1 DEF SlotInv, Slotted, gr, Q
<1>18. TurnInv(i)' /\ ~InTurn(i)'
  BY DEF TurnInv, InTurn
<1>19. ASSUME NEW h, Backed(h, slots[i], fr, Q)
       PROVE  Backed(h, slots[i], gr, Q)
  <2> SUFFICES ASSUME NEW m \in 1 .. Len(h)
               PROVE  \E p \in Q :
                        /\ h[m].id[2] # 0 /\ slots[i][h[m].id[1]][p] = h[m].id[2]
                        /\ \E k \in 1 .. Len(gr[p]) :
                             /\ gr[p][k].order = h[m].id[2] /\ gr[p][k].bytes = h[m].bytes
                             /\ Data(gr[p][k])
    BY DEF Backed
  <2>1. PICK p \in Q : /\ h[m].id[2] # 0 /\ slots[i][h[m].id[1]][p] = h[m].id[2]
                       /\ \E k \in 1 .. Len(fr[p]) :
                             /\ fr[p][k].order = h[m].id[2] /\ fr[p][k].bytes = h[m].bytes
                             /\ Data(fr[p][k])
    BY <1>19 DEF Backed
  <2> QED BY <1>7, <2>1
<1>20. ASSUME NEW h, Covered(h, slots[i], fr, Q)
       PROVE  Covered(h, slots[i], gr, Q)
  <2> SUFFICES ASSUME NEW s \in Names, NEW p \in Q, NEW k \in 1 .. Len(gr[p]),
                      slots[i][s][p] = gr[p][k].order, Data(gr[p][k])
               PROVE  \E m \in 1 .. Len(h) : h[m].id = <<s, slots[i][s][p]>>
    BY DEF Covered
  <2>1. CASE k \in 1 .. Len(fr[p]) /\ gr[p][k] = fr[p][k]
    BY <1>19, <1>20, <2>1 DEF Covered
  <2>2. CASE /\ p = q /\ k \in Len(old) + 1 .. Len(gr[q])
             /\ gr[p][k].order = orders[i] + (k - Len(old))
    <3>1. gr[p][k].order > orders[i] /\ gr[p][k].order \in Nat
      BY <1>3, <1>9, <2>2
    <3>2. slots[i][s][p] # 0
      BY <1>3, <3>1
    <3>3. s = "head" \/ s = "read"
      BY DEF Names
    <3>4. \E m \in 1 .. Len(fr[p]) : slots[i][s][p] = fr[p][m].order
      <4>1. CASE s = "head"
        <5>1. Len(fr[p]) > 0 /\ slots[i]["head"][p] = fr[p][1].order
          BY <3>2, <4>1 DEF SlotInv, Slotted, fr, Q
        <5> QED BY <1>5, <4>1, <5>1
      <4>2. CASE s = "read"
        BY <3>2, <4>2 DEF SlotInv, Slotted, fr, Q
      <4> QED BY <3>3, <4>1, <4>2
    <3> QED BY <1>3, <1>8, <3>1, <3>4
  <2> QED BY <1>6, <2>1, <2>2
<1> QED BY <1>2, <1>4, <1>10, <1>15, <1>16, <1>17, <1>18, <1>19, <1>20 DEF fr, gr, Q

-----------------------------------------------------------------------------
(* Released capacity                                                       *)

\* A step of the scheduler that at most makes heads ready and looks for the
\* next one.
Kept ==
  /\ FairType(fair)' /\ ShareInv' /\ fair'.granted = fair.granted
  /\ fair.granted # NoTurn =>
       /\ fair'.cursor = fair.cursor /\ fair'.replenish = fair.replenish
       /\ fair'.deficit = fair.deficit
  /\ \A j \in Images : /\ SameIds(fair.heads[j], fair'.heads[j])
                       /\ Grown(fair.heads[j], fair'.heads[j])

LEMMA KeptSame ==
  ASSUME FrontendInv, fair' = fair, passed' = passed
  PROVE  Kept
<1>1. \A j \in Images : SameIds(fair.heads[j], fair.heads[j])
  BY SameHeads DEF FrontendInv
<1>2. \A j \in Images : Grown(fair.heads[j], fair.heads[j])
  <2>1. \A j \in Images : fair.heads[j] \in Seq(Tickets)
    BY DEF FrontendInv, FairType
  <2>2. \A j \in Images : Len(fair.heads[j]) \in Nat
    BY <2>1
  <2> QED BY <2>2 DEF Grown
<1>3. ShareInv'
  BY DEF FrontendInv, ShareInv, ShareOf, Visits, Unspent, Ahead
<1>4. FairType(fair)'
  BY DEF FrontendInv, FairType
<1> QED BY <1>1, <1>2, <1>3, <1>4 DEF Kept

LEMMA KeptReleased ==
  ASSUME FrontendInv, NEW c \in Choose(Released(fair)), fair' = c.fair,
         passed' = passed
  PROVE  Kept
<1> DEFINE g == Released(fair)
<1>0. FairType(fair) /\ passed \in [Images -> Nat]
  BY DEF FrontendInv, Domains
<1>1. /\ FairType(g) /\ g.cursor = fair.cursor /\ g.replenish = fair.replenish
      /\ g.deficit = fair.deficit /\ g.granted = fair.granted
      /\ \A j \in Images :
           /\ Len(g.heads[j]) = Len(fair.heads[j])
           /\ \A n \in 1 .. Len(fair.heads[j]) :
                /\ g.heads[j][n].id = fair.heads[j][n].id
                /\ g.heads[j][n].bytes = fair.heads[j][n].bytes
                /\ g.heads[j][n].ready
  BY <1>0, ReleasedIs
<1>2. c \in Choose(g)
  OBVIOUS
<1> HIDE DEF g
<1>3. \A j \in Images : /\ fair.heads[j] \in Seq(Tickets) /\ g.heads[j] \in Seq(Tickets)
                        /\ Len(fair.heads[j]) \in Nat
  <2>1. \A j \in Images : fair.heads[j] \in Seq(Tickets) /\ g.heads[j] \in Seq(Tickets)
    BY <1>0, <1>1 DEF FairType
  <2> QED BY <2>1
<1>4. \A j \in Images : Grown(fair.heads[j], g.heads[j])
  BY <1>1, <1>3 DEF Grown
<1>5. \A j \in Images : SameIds(fair.heads[j], g.heads[j])
  <2> TAKE j \in Images
  <2>1. Distinct(fair.heads[j])
    BY DistinctOf DEF FrontendInv, ImageInv
  <2> QED BY <1>1, <1>3, <1>4, <2>1, GrownSame
<1>6. \A j \in Images : ShareOf(g, j, passed'[j])
  <2> TAKE j \in Images
  <2>1. ShareOf(fair, j, passed[j]) /\ passed[j] \in Nat
    BY <1>0 DEF FrontendInv, ShareInv
  <2> QED BY <1>0, <1>1, <1>3, <2>1, ReadierShare
<1>7. /\ FairType(fair)' /\ ShareInv' /\ fair'.heads = g.heads
      /\ fair'.granted = g.granted /\ (g.granted # NoTurn => fair' = g)
  BY <1>0, <1>1, <1>2, <1>6, WakeFrame
<1> QED BY <1>1, <1>4, <1>5, <1>7 DEF Kept

LEMMA KeptInv ==
  ASSUME FrontendInv, Kept, Domains', HostInv', passed' = passed,
         \A j \in Images : /\ ImageInv(j)' /\ InTurn(j)' = InTurn(j)
                           /\ InTurn(j) => Ticket(j)' = Ticket(j)
  PROVE  FrontendInv'
<1>1. \A j \in Images : Len(fair.heads[j]) \in Nat /\ Len(fair'.heads[j]) \in Nat
  <2>1. \A j \in Images : fair.heads[j] \in Seq(Tickets) /\ fair'.heads[j] \in Seq(Tickets)
    BY DEF FrontendInv, FairType, Kept
  <2> QED BY <2>1
<1>2. GrantInv'
  <2>1. GrantInv /\ fair'.granted = fair.granted
    BY DEF FrontendInv, Kept
  <2>2. \A j \in Images : fair.granted # NoTurn /\ InTurn(j) =>
           /\ fair'.cursor = fair.cursor /\ fair'.replenish = fair.replenish
           /\ fair'.deficit = fair.deficit /\ passed'[j] = passed[j]
           /\ Len(fair.heads[j]) <= Len(fair'.heads[j])
           /\ \A n \in 1 .. Len(fair.heads[j]) :
                /\ fair'.heads[j][n].id = fair.heads[j][n].id
                /\ fair'.heads[j][n].bytes = fair.heads[j][n].bytes
                /\ fair.heads[j][n].ready => fair'.heads[j][n].ready
    BY DEF Kept, Grown
  <2> QED BY <1>1, <2>1, <2>2, GrantFrame
<1> QED BY <1>2 DEF FrontendInv, Kept

LEMMA RotateInv ==
  ASSUME FrontendInv, NEW i \in Images, Rotate(i)
  PROVE  FrontendInv'
<1>1. /\ UNCHANGED <<guest, queues, slots, pass, past, pending, gate>>
      /\ wal' = [wal EXCEPT ![i].rotated = TRUE]
      /\ WakeNext(Released(fair), {})
  BY DEF Rotate, io
<1>2. PICK c \in Choose(Released(fair)) :
        fair' = c.fair /\ wake' = Woken({} \cup (Images \cap {c.pick.image}))
  BY <1>1 DEF WakeNext
<1>3. Kept
  BY <1>1, <1>2, KeptReleased DEF past
<1>4. Domains'
  BY <1>1, <1>2, WokenType DEF FrontendInv, Domains, guest, queues, past
<1>5. HostInv'
  BY <1>1 DEF FrontendInv, HostInv, CollectionAlone, gate
<1>6. ASSUME NEW j \in Images
      PROVE  /\ ImageInv(j)' /\ InTurn(j)' = InTurn(j)
             /\ InTurn(j) => Ticket(j)' = Ticket(j)
  <2>0. ImageInv(j) /\ FairType(fair) /\ Domains
    BY DEF FrontendInv
  <2>1. /\ (QueueType(j) /\ OrderInv(j) /\ AdmitInv(j) /\ TurnInv(j) /\ SlotInv(j))'
        /\ Queues(j)' = Queues(j) /\ InTurn(j)' = InTurn(j) /\ Ticket(j)' = Ticket(j)
    BY <1>1, <2>0, QueueFrame DEF ImageInv, guest, queues, past
  <2>2. TicketInv(j)'
    BY <1>1, <1>3, <2>0, <2>1, TicketFrame DEF ImageInv, queues, Kept
  <2>3. IoType(j)'
    BY <1>1, <2>0 DEF ImageInv, IoType, Domains
  <2> QED BY <2>1, <2>2, <2>3 DEF ImageInv
<1> QED BY <1>1, <1>3, <1>4, <1>5, <1>6, KeptInv DEF past

\* A step that discovers requests for image i outside a turn.
LEMMA FindInv ==
  ASSUME FrontendInv, NEW i \in Images, pass[i].step \in {"idle", "scan"},
         NEW q \in Queues(i), Discover(i, q), Kept,
         UNCHANGED <<guest, slots, wal, gate, past>>,
         wake' \in [Images -> BOOLEAN],
         DOMAIN pending' = Images, DOMAIN pass' = Images,
         \A j \in Images : /\ pending'[j] \subseteq pending[j]
                           /\ j # i => pass'[j] = pass[j],
         pass'[i] \in [first : Queues(i), at : Queues(i), cand : Nat \ {0},
                       step : {"scan"}]
  PROVE  FrontendInv'
<1>0. Domains /\ FairType(fair) /\ \A j \in Images : ImageInv(j)
  BY DEF FrontendInv
<1>1. /\ program' = program /\ posted' = posted /\ slots' = slots
      /\ admitted' = admitted /\ passed' = passed /\ wal' = wal /\ host' = host
      /\ pauses' = pauses
  BY DEF guest, gate, past
<1>2. /\ (QueueType(i) /\ OrderInv(i) /\ AdmitInv(i) /\ SlotInv(i) /\ TurnInv(i))'
      /\ \A h : Backed(h, slots[i], frontier[i], Queues(i)) =>
           Backed(h, slots[i], frontier'[i], Queues(i))
      /\ \A h : Covered(h, slots[i], frontier[i], Queues(i)) =>
           Covered(h, slots[i], frontier'[i], Queues(i))
      /\ ~InTurn(i)' /\ Queues(i)' = Queues(i)
      /\ DOMAIN frontier' = Images /\ DOMAIN found' = Images /\ orders' \in [Images -> Nat]
      /\ \A j \in Images : j # i => /\ frontier'[j] = frontier[j]
                                    /\ found'[j] = found[j] /\ orders'[j] = orders[j]
  BY <1>0, <1>1, DiscoverInv DEF ImageInv
<1>3. (QueueType(i) /\ OrderInv(i) /\ AdmitInv(i) /\ SlotInv(i) /\ TurnInv(i))'
      /\ ~InTurn(i)' /\ Queues(i)' = Queues(i)
  BY <1>2
<1>4. /\ DOMAIN frontier' = Images /\ DOMAIN found' = Images /\ orders' \in [Images -> Nat]
      /\ \A j \in Images : j # i => /\ frontier'[j] = frontier[j]
                                    /\ found'[j] = found[j] /\ orders'[j] = orders[j]
  BY <1>2
<1>5. Domains'
  BY <1>0, <1>1, <1>4 DEF Domains
<1>6. HostInv'
  <2>1. \A j \in Images : pending[j] = {} => pending'[j] = {}
    OBVIOUS
  <2> QED BY <1>1, <2>1 DEF FrontendInv, HostInv, CollectionAlone
<1>7. ASSUME NEW j \in Images
      PROVE  /\ ImageInv(j)' /\ InTurn(j)' = InTurn(j)
             /\ InTurn(j) => Ticket(j)' = Ticket(j)
  <2>1. SameIds(fair.heads[j], fair'.heads[j])
    BY DEF Kept
  <2>2. CASE j # i
    <3>1. pass'[j] = pass[j] /\ wal'[j] = wal[j] /\ posted'[j] = posted[j] /\ found'[j] = found[j]
          /\ frontier'[j] = frontier[j] /\ orders'[j] = orders[j] /\ slots'[j] = slots[j]
          /\ admitted'[j] = admitted[j] /\ pending'[j] \subseteq pending[j]
      BY <1>1, <1>4, <2>2
    <3> QED BY <1>0, <1>1, <2>1, <3>1, ImageFrame
  <2>3. CASE j = i
    <3>1. IoType(i)'
      BY <1>0, <1>1 DEF ImageInv, IoType
    <3>2. TicketInv(i)'
      <4> DEFINE h == fair.heads[i]
                 e == fair'.heads[i]
      <4>1. /\ Backed(h, slots[i], frontier'[i], Queues(i))
            /\ Covered(h, slots[i], frontier'[i], Queues(i))
        BY <1>0, <1>2 DEF ImageInv, TicketInv
      <4>2. SameIds(h, e)
        BY <2>1, <2>3
      <4> HIDE DEF h, e
      <4>3. /\ Backed(e, slots[i], frontier'[i], Queues(i))
            /\ Covered(e, slots[i], frontier'[i], Queues(i))
        BY <4>1, <4>2, SameMatch
      <4>4. Distinct(e)
        BY <4>2 DEF SameIds
      <4> QED BY <1>1, <1>3, <4>3, <4>4 DEF TicketInv, e
    <3>3. ~InTurn(i) /\ InTurn(i)' = InTurn(i)
      BY <1>3 DEF InTurn
    <3> QED BY <1>3, <2>3, <3>1, <3>2, <3>3 DEF ImageInv
  <2> QED BY <2>2, <2>3
<1> QED BY <1>1, <1>5, <1>6, <1>7, KeptInv

LEMMA StartPassInv ==
  ASSUME FrontendInv, NEW i \in Images, StartPass(i)
  PROVE  FrontendInv'
<1> DEFINE retired == {r \in pending[i] : r.order \in done[i]}
           first == (pass[i].first + 1) % NQueues(i)
<1>0. Domains /\ FairType(fair) /\ QueueType(i)
  BY DEF FrontendInv, ImageInv
<1>1. /\ pass[i].step = "idle" /\ Discover(i, first)
      /\ pending' = [pending EXCEPT ![i] = @ \ retired]
      /\ pass' = [pass EXCEPT ![i] = [first |-> first, at |-> 0, cand |-> 1,
                                      step |-> "scan"]]
      /\ UNCHANGED <<guest, slots, wal, gate, past>>
  BY DEF StartPass
<1>2. Kept /\ wake' \in [Images -> BOOLEAN]
  <2>1. CASE \E r \in retired : Data(r)
    <3>1. PICK c \in Choose(Released(fair)) :
            /\ fair' = c.fair
            /\ wake' = [j \in Images |-> j = c.pick.image \/ (j # i /\ wake[j])]
      BY <2>1 DEF StartPass
    <3>2. Kept
      BY <1>1, <3>1, KeptReleased DEF past
    <3>3. wake' \in [Images -> BOOLEAN]
      BY <3>1
    <3> QED BY <3>2, <3>3
  <2>2. CASE ~\E r \in retired : Data(r)
    <3>1. fair' = fair /\ wake' = [wake EXCEPT ![i] = FALSE]
      BY <2>2 DEF StartPass
    <3> QED BY <1>0, <1>1, <3>1, KeptSame DEF past, Domains
  <2> QED BY <2>1, <2>2
<1>3. first \in Queues(i) /\ 0 \in Queues(i)
  <2>1. pass[i].first \in Nat
    BY <1>0, QueuesOf DEF QueueType, Domains
  <2>2. pass[i].first + 1 \in Nat
    BY <2>1
  <2>3. first \in Queues(i)
    BY <1>0, <2>2, QueuesOf DEF Domains
  <2>4. 0 \in Queues(i)
    BY <1>0, QueuesOf DEF Domains
  <2> QED BY <2>3, <2>4
<1> HIDE DEF first, retired
<1>4. pass'[i] \in [first : Queues(i), at : Queues(i), cand : Nat \ {0}, step : {"scan"}]
  <2>1. pass'[i] = [first |-> first, at |-> 0, cand |-> 1, step |-> "scan"]
    BY <1>0, <1>1 DEF Domains
  <2> QED BY <1>3, <2>1
<1>5. /\ DOMAIN pending' = Images /\ DOMAIN pass' = Images
      /\ \A j \in Images : /\ pending'[j] \subseteq pending[j]
                           /\ j # i => pass'[j] = pass[j]
  BY <1>0, <1>1 DEF Domains
<1> QED BY <1>1, <1>2, <1>3, <1>4, <1>5, FindInv

LEMMA NextQueueInv ==
  ASSUME FrontendInv, NEW i \in Images, NextQueue(i)
  PROVE  FrontendInv'
<1> DEFINE q == (pass[i].first + pass[i].at + 1) % NQueues(i)
<1>0. Domains /\ FairType(fair) /\ QueueType(i)
  BY DEF FrontendInv, ImageInv
<1>1. /\ pass[i].step = "scan" /\ Discover(i, q) /\ pass[i].at < NQueues(i) - 1
      /\ pass' = [pass EXCEPT ![i].at = @ + 1, ![i].cand = 1]
      /\ UNCHANGED <<guest, slots, wal, gate, past, wake, fair, pending>>
  BY DEF NextQueue, io
<1>2. Kept /\ wake' \in [Images -> BOOLEAN]
  BY <1>0, <1>1, KeptSame DEF past, Domains
<1>3. q \in Queues(i) /\ pass[i].at + 1 \in Queues(i)
  <2>1. pass[i].first \in Nat /\ pass[i].at \in Nat
    BY <1>0, QueuesOf DEF QueueType, Domains
  <2>2. pass[i].first + pass[i].at + 1 \in Nat /\ pass[i].at + 1 \in Nat
    BY <2>1
  <2>3. q \in Queues(i) /\ Queues(i) = 0 .. NQueues(i) - 1 /\ NQueues(i) \in Nat
    BY <1>0, <2>2, QueuesOf DEF Domains
  <2> HIDE DEF q
  <2> QED BY <1>1, <2>1, <2>3
<1> HIDE DEF q
<1>4. pass'[i] \in [first : Queues(i), at : Queues(i), cand : Nat \ {0}, step : {"scan"}]
  <2> DEFINE Q == Queues(i)
  <2>1. pass'[i] = [pass[i] EXCEPT !.at = @ + 1, !.cand = 1]
    BY <1>0, <1>1 DEF Domains
  <2>2. pass[i] \in [first : Q, at : Q, cand : Nat \ {0},
                  step : {"idle", "scan", "turn", "refused"}] /\ pass[i].at + 1 \in Q
    BY <1>0, <1>3 DEF QueueType
  <2> HIDE DEF Q
  <2>3. /\ pass'[i] = [first |-> pass[i].first, at |-> pass[i].at + 1,
                       cand |-> 1, step |-> pass[i].step]
        /\ pass[i].first \in Q /\ 1 \in Nat \ {0}
    <3> DEFINE x == pass[i].at + 1
    <3>1. pass'[i] = [pass[i] EXCEPT !.at = x, !.cand = 1]
      BY <2>1
    <3> HIDE DEF x
    <3>2. pass'[i] = [first |-> pass[i].first, at |-> x, cand |-> 1, step |-> pass[i].step]
      BY <2>2, <3>1
    <3> QED BY <2>2, <3>2 DEF x
  <2>4. pass'[i] \in [first : Q, at : Q, cand : Nat \ {0}, step : {"scan"}]
    BY <1>1, <2>2, <2>3
  <2> QED BY <2>4 DEF Q
<1>5. /\ DOMAIN pending' = Images /\ DOMAIN pass' = Images
      /\ \A j \in Images : /\ pending'[j] \subseteq pending[j]
                           /\ j # i => pass'[j] = pass[j]
  BY <1>0, <1>1 DEF Domains
<1>6. UNCHANGED <<guest, slots, wal, gate, past>>
  BY <1>1
<1> QED BY <1>1, <1>2, <1>3, <1>4, <1>5, <1>6, FindInv

-----------------------------------------------------------------------------
(* Orders and slots                                                        *)

\* The orders of the requests in the queues of an image.
Ordered(queue, Q) ==
  /\ \A q \in Q : /\ Len(queue[q]) \in Nat
                  /\ \A n \in 1 .. Len(queue[q]) :
                       /\ queue[q][n].order \in Nat /\ queue[q][n].order # 0
                       /\ \A m \in 1 .. Len(queue[q]) :
                            n < m => queue[q][n].order < queue[q][m].order
  /\ \A p, q \in Q :
       \A n \in 1 .. Len(queue[p]), m \in 1 .. Len(queue[q]) :
         queue[p][n].order = queue[q][m].order => p = q

LEMMA OrderedIs ==
  ASSUME NEW i, QueueType(i), OrderInv(i)
  PROVE  Ordered(frontier[i], Queues(i))
<1>1. \A q \in Queues(i) : frontier[i][q] \in Seq(Requests)
  BY DEF QueueType
<1>2. \A q \in Queues(i) : Len(frontier[i][q]) \in Nat
  BY <1>1
<1>3. \A q \in Queues(i) : \A n \in 1 .. Len(frontier[i][q]) :
        frontier[i][q][n] \in Requests
  BY <1>1
<1>4. \A q \in Queues(i) : \A n \in 1 .. Len(frontier[i][q]) :
        frontier[i][q][n].order \in Nat
  BY <1>3 DEF Requests
<1>5. \A q \in Queues(i) : \A n \in 1 .. Len(frontier[i][q]) :
        /\ frontier[i][q][n].order # 0
        /\ \A m \in 1 .. Len(frontier[i][q]) :
             n < m => frontier[i][q][n].order < frontier[i][q][m].order
  BY <1>4 DEF OrderInv
<1>6. \A p, q \in Queues(i) :
       \A n \in 1 .. Len(frontier[i][p]), m \in 1 .. Len(frontier[i][q]) :
         frontier[i][p][n].order = frontier[i][q][m].order => p = q
  BY DEF OrderInv
<1> QED BY <1>2, <1>4, <1>5, <1>6 DEF Ordered

\* An order names one place.
LEMMA OneOrder ==
  ASSUME NEW queue, NEW Q, Ordered(queue, Q), NEW p \in Q, NEW q \in Q,
         NEW n \in 1 .. Len(queue[p]), NEW m \in 1 .. Len(queue[q]),
         queue[p][n].order = queue[q][m].order
  PROVE  p = q /\ n = m
<1>1. p = q
  BY DEF Ordered
<1>2. Len(queue[p]) \in Nat /\ queue[p][n].order \in Nat /\ queue[p][m].order \in Nat
  BY <1>1 DEF Ordered
<1>3. ~(n < m) /\ ~(m < n)
  BY <1>1, <1>2 DEF Ordered
<1> QED BY <1>1, <1>2, <1>3

LEMMA SlotOrder ==
  ASSUME NEW slot, NEW queue, NEW Q, Slotted(slot, queue, Q), Ordered(queue, Q),
         NEW s \in Names, NEW q \in Q, slot[s][q] # 0
  PROVE  \E n \in 1 .. Len(queue[q]) : slot[s][q] = queue[q][n].order
<1>1. CASE s = "head"
  <2>1. Len(queue[q]) \in Nat /\ Len(queue[q]) > 0 /\ slot[s][q] = queue[q][1].order
    BY <1>1 DEF Slotted, Ordered
  <2>2. 1 \in 1 .. Len(queue[q])
    BY <2>1
  <2> QED BY <2>1, <2>2
<1>2. CASE s = "read"
  BY <1>2 DEF Slotted
<1> QED BY <1>1, <1>2 DEF Names

\* An order waits in one slot.
LEMMA OneSlot ==
  ASSUME NEW slot, NEW queue, NEW Q, Slotted(slot, queue, Q), Ordered(queue, Q),
         NEW s \in Names, NEW t \in Names, NEW p \in Q, NEW q \in Q,
         slot[s][p] # 0, slot[s][p] = slot[t][q]
  PROVE  s = t /\ p = q
<1>1. PICK n \in 1 .. Len(queue[p]) : slot[s][p] = queue[p][n].order
  BY SlotOrder
<1>2. PICK m \in 1 .. Len(queue[q]) : slot[t][q] = queue[q][m].order
  BY SlotOrder
<1>3. p = q
  BY <1>1, <1>2 DEF Ordered
<1>4. slot["head"][p] # slot["read"][p]
  <2>1. CASE s = "read" \/ t = "read"
    BY <1>3, <2>1 DEF Slotted
  <2>2. CASE s = "head" /\ t = "head"
    BY <2>2 DEF Slotted
  <2> QED BY <2>1, <2>2 DEF Names
<1> QED BY <1>3, <1>4 DEF Names

\* A queue of tickets without that of one request.
Without(h, e, id) ==
  /\ \A m \in 1 .. Len(e) : \E n \in 1 .. Len(h) : e[m] = h[n] /\ h[n].id # id
  /\ \A n \in 1 .. Len(h) : h[n].id # id => \E m \in 1 .. Len(e) : e[m] = h[n]
  /\ Distinct(e)

\* A slot and its ticket are given up together.
LEMMA VacateMatch ==
  ASSUME NEW slot, NEW queue, NEW Q, NEW h \in Seq(Tickets), NEW e,
         slot \in [Names -> [Q -> Nat]],
         Slotted(slot, queue, Q), Ordered(queue, Q),
         Backed(h, slot, queue, Q), Covered(h, slot, queue, Q),
         NEW s \in Names, NEW q \in Q, Without(h, e, <<s, slot[s][q]>>),
         NEW sl, sl = [slot EXCEPT ![s][q] = 0]
  PROVE  Backed(e, sl, queue, Q) /\ Covered(e, sl, queue, Q)
<1>0. \A t \in Names, p \in Q :
        sl[t][p] = IF t = s /\ p = q THEN 0 ELSE slot[t][p]
  OBVIOUS
<1>1. ASSUME NEW m \in 1 .. Len(e)
      PROVE  \E p \in Q :
               /\ e[m].id[2] # 0 /\ sl[e[m].id[1]][p] = e[m].id[2]
               /\ \E n \in 1 .. Len(queue[p]) :
                    /\ queue[p][n].order = e[m].id[2] /\ queue[p][n].bytes = e[m].bytes
                    /\ Data(queue[p][n])
  <2>1. PICK k \in 1 .. Len(h) : e[m] = h[k] /\ h[k].id # <<s, slot[s][q]>>
    BY DEF Without
  <2>2. h[k] \in Tickets
    OBVIOUS
  <2>3. h[k].id[1] \in Names /\ h[k].id = <<h[k].id[1], h[k].id[2]>>
    BY <2>2, SMTT(20) DEF Tickets
  <2>4. PICK p \in Q :
          /\ h[k].id[2] # 0 /\ slot[h[k].id[1]][p] = h[k].id[2]
          /\ \E n \in 1 .. Len(queue[p]) :
               /\ queue[p][n].order = h[k].id[2] /\ queue[p][n].bytes = h[k].bytes
               /\ Data(queue[p][n])
    BY DEF Backed
  <2>5. ~(h[k].id[1] = s /\ p = q)
    BY <2>1, <2>3, <2>4
  <2>6. sl[h[k].id[1]][p] = h[k].id[2]
    BY <1>0, <2>3, <2>4, <2>5
  <2> QED BY <2>1, <2>4, <2>6
<1>2. ASSUME NEW t \in Names, NEW p \in Q, NEW n \in 1 .. Len(queue[p]),
             sl[t][p] = queue[p][n].order, Data(queue[p][n])
      PROVE  \E m \in 1 .. Len(e) : e[m].id = <<t, sl[t][p]>>
  <2>1. queue[p][n].order # 0
    BY DEF Ordered
  <2>2. ~(t = s /\ p = q) /\ slot[t][p] = sl[t][p]
    BY <1>0, <1>2, <2>1
  <2>3. PICK k \in 1 .. Len(h) : h[k].id = <<t, slot[t][p]>>
    BY <1>2, <2>2 DEF Covered
  <2>4. h[k].id # <<s, slot[s][q]>>
    BY <1>2, <2>1, <2>2, <2>3, OneSlot
  <2>5. PICK m \in 1 .. Len(e) : e[m] = h[k]
    BY <2>4 DEF Without
  <2> QED BY <2>2, <2>3, <2>5
<1> QED BY <1>1, <1>2 DEF Backed, Covered

LEMMA VacateSlots ==
  ASSUME NEW slot, NEW queue, NEW Q, slot \in [Names -> [Q -> Nat]],
         Slotted(slot, queue, Q), NEW s \in Names, NEW q \in Q,
         NEW sl, sl = [slot EXCEPT ![s][q] = 0]
  PROVE  /\ Slotted(sl, queue, Q) /\ sl \in [Names -> [Q -> Nat]]
         /\ \A t \in Names, p \in Q :
              sl[t][p] = IF t = s /\ p = q THEN 0 ELSE slot[t][p]
<1>0. \A t \in Names, p \in Q :
        sl[t][p] = IF t = s /\ p = q THEN 0 ELSE slot[t][p]
  OBVIOUS
<1>1. sl \in [Names -> [Q -> Nat]]
  OBVIOUS
<1>2. ASSUME NEW p \in Q
      PROVE  /\ sl["head"][p] # 0 => sl["head"][p] = slot["head"][p]
             /\ sl["read"][p] # 0 => sl["read"][p] = slot["read"][p]
             /\ sl["head"][p] = slot["head"][p] \/ sl["head"][p] = 0
  BY <1>0 DEF Names
<1>3. Slotted(sl, queue, Q)
  BY <1>2 DEF Slotted
<1> QED BY <1>0, <1>1, <1>3

-----------------------------------------------------------------------------
(* Turns                                                                   *)

\* What is known of the scheduler while image i has the turn.
LEMMA GrantedIs ==
  ASSUME FrontendInv, NEW i \in Images, InTurn(i)
  PROVE  /\ fair.granted = [image |-> i, id |-> Ticket(i)] /\ fair.granted # NoTurn
         /\ fair.cursor = i /\ ~fair.replenish /\ passed[i] = 0
         /\ \E n \in 1 .. Len(fair.heads[i]) :
              /\ fair.heads[i][n].id = Ticket(i) /\ fair.heads[i][n].ready
              /\ fair.heads[i][n].bytes <= fair.deficit[i]
         /\ \A j \in Images : InTurn(j) => j = i
<1>1. fair.granted = [image |-> i, id |-> Ticket(i)]
  BY DEF FrontendInv, GrantInv
<1>2. fair.granted.image = i
  BY <1>1
<1>3. fair.granted # NoTurn
  BY <1>2, NoTurnIn, Constants
<1>4. PICK k \in Images :
         /\ InTurn(k) /\ fair.granted = [image |-> k, id |-> Ticket(k)]
         /\ fair.cursor = k /\ ~fair.replenish /\ passed[k] = 0
         /\ \E n \in 1 .. Len(fair.heads[k]) :
              /\ fair.heads[k][n].id = Ticket(k) /\ fair.heads[k][n].ready
              /\ fair.heads[k][n].bytes <= fair.deficit[k]
  BY <1>3 DEF FrontendInv, GrantInv
<1>5. k = i
  <2>1. fair.granted.image = k
    BY <1>4
  <2> QED BY <1>2, <2>1
<1>6. ASSUME NEW j \in Images, InTurn(j)
      PROVE  j = i
  <2>1. fair.granted = [image |-> j, id |-> Ticket(j)]
    BY <1>6 DEF FrontendInv, GrantInv
  <2>2. fair.granted.image = j
    BY <2>1
  <2> QED BY <1>2, <2>2
<1> QED BY <1>1, <1>3, <1>4, <1>5, <1>6

LEMMA NoneIn ==
  ASSUME FrontendInv, fair.granted = NoTurn
  PROVE  \A j \in Images : ~InTurn(j)
BY GrantedIs

LEMMA QueueAtIn ==
  ASSUME Domains, NEW i \in Images, QueueType(i)
  PROVE  QueueAt(i) \in Queues(i) /\ Queues(i) \subseteq Nat
<1>1. pass[i].first \in Nat /\ pass[i].at \in Nat
  BY QueuesOf DEF QueueType, Domains
<1>2. pass[i].first + pass[i].at \in Nat
  BY <1>1
<1> QED BY <1>2, QueuesOf DEF QueueAt, Domains

\* Image i is back in its scan with its slots as they were.
LEMMA ScanFrame ==
  ASSUME NEW i \in Images, ImageInv(i), program' = program,
         posted'[i] = posted[i], found'[i] = found[i],
         frontier'[i] = frontier[i], orders'[i] = orders[i],
         slots'[i] = slots[i], admitted'[i] = admitted[i],
         pass'[i] \in [first : Queues(i), at : Queues(i), cand : Nat \ {0},
                       step : {"scan"}],
         pending'[i] = pending[i], wal'[i] = wal[i],
         SameIds(fair.heads[i], fair'.heads[i])
  PROVE  ImageInv(i)' /\ ~InTurn(i)'
<1>0. QueueType(i) /\ OrderInv(i) /\ AdmitInv(i) /\ SlotInv(i) /\ TicketInv(i) /\ IoType(i)
  BY DEF ImageInv
<1>1. Queues(i)' = Queues(i)
  BY DEF Queues
<1>2. QueueType(i)'
  BY <1>0, <1>1 DEF QueueType
<1>3. OrderInv(i)' /\ AdmitInv(i)' /\ SlotInv(i)' /\ IoType(i)'
  BY <1>0, <1>1, SMTT(20) DEF OrderInv, AdmitInv, SlotInv, IoType
<1>4. TicketInv(i)'
  BY <1>0, <1>1, TicketFrame
<1>5. TurnInv(i)' /\ ~InTurn(i)'
  BY DEF TurnInv, InTurn
<1> QED BY <1>2, <1>3, <1>4, <1>5 DEF ImageInv

LEMMA WaitedType ==
  ASSUME NEW Q, NEW p, NEW n \in Nat \ {0}, NEW kind,
         p \in [first : Q, at : Q, cand : Nat \ {0},
                step : {"idle", "scan", "turn", "refused"}]
  PROVE  Waited(p, n, kind) \in [first : Q, at : Q, cand : Nat \ {0}, step : {"scan"}]
<1> DEFINE x == IF kind = "read" THEN QueueSize + 1 ELSE n + 1
<1>1. x \in Nat \ {0}
  BY Constants
<1>2. Waited(p, n, kind) = [p EXCEPT !.cand = x, !.step = "scan"]
  BY DEF Waited
<1> HIDE DEF x
<1>3. Waited(p, n, kind) = [first |-> p.first, at |-> p.at, cand |-> x, step |-> "scan"]
  BY <1>2
<1> QED BY <1>1, <1>3

LEMMA RefuseInv ==
  ASSUME FrontendInv, NEW i \in Images, Refuse(i)
  PROVE  FrontendInv'
<1> DEFINE g == Refused(fair, i, Ticket(i))
<1>0. Domains /\ FairType(fair) /\ (\A j \in Images : ImageInv(j)) /\ QueueType(i)
  BY DEF FrontendInv, ImageInv
<1>1. /\ pass[i].step = "refused"
      /\ pass' = [pass EXCEPT ![i] = Waited(@, @.cand, Candidate(i).kind)]
      /\ UNCHANGED <<guest, queues, slots, io, wal, gate, past>>
  BY DEF Refuse
<1>2. /\ program' = program /\ posted' = posted /\ found' = found /\ frontier' = frontier
      /\ orders' = orders /\ slots' = slots /\ admitted' = admitted /\ passed' = passed
      /\ pending' = pending /\ wal' = wal /\ host' = host /\ pauses' = pauses
  BY <1>1 DEF guest, queues, io, gate, past
<1>3. /\ DOMAIN pass' = Images /\ \A j \in Images : j # i => pass'[j] = pass[j]
      /\ pass'[i] \in [first : Queues(i), at : Queues(i), cand : Nat \ {0},
                       step : {"scan"}]
  <2>1. pass'[i] = Waited(pass[i], pass[i].cand, Candidate(i).kind)
    BY <1>0, <1>1 DEF Domains
  <2>2. pass[i] \in [first : Queues(i), at : Queues(i), cand : Nat \ {0},
                     step : {"idle", "scan", "turn", "refused"}]
        /\ pass[i].cand \in Nat \ {0}
    BY <1>0 DEF QueueType
  <2>3. pass'[i] \in [first : Queues(i), at : Queues(i), cand : Nat \ {0}, step : {"scan"}]
    BY <2>1, <2>2, WaitedType
  <2> QED BY <1>0, <1>1, <2>3 DEF Domains
<1>4. HostInv'
  BY <1>2 DEF FrontendInv, HostInv, CollectionAlone
<1>5. (\A j \in Images : SameIds(fair.heads[j], fair'.heads[j])) =>
        \A j \in Images : /\ ImageInv(j)'
                          /\ j # i => InTurn(j)' = InTurn(j) /\ Ticket(j)' = Ticket(j)
                          /\ j = i => ~InTurn(j)'
  <2> SUFFICES ASSUME \A j \in Images : SameIds(fair.heads[j], fair'.heads[j]),
                      NEW j \in Images
               PROVE  /\ ImageInv(j)'
                      /\ j # i => InTurn(j)' = InTurn(j) /\ Ticket(j)' = Ticket(j)
                      /\ j = i => ~InTurn(j)'
    OBVIOUS
  <2>1. CASE j # i
    <3>1. pass'[j] = pass[j] /\ wal'[j] = wal[j] /\ posted'[j] = posted[j] /\ found'[j] = found[j]
          /\ frontier'[j] = frontier[j] /\ orders'[j] = orders[j] /\ slots'[j] = slots[j]
          /\ admitted'[j] = admitted[j] /\ pending'[j] \subseteq pending[j]
      BY <1>2, <1>3, <2>1
    <3> QED BY <1>0, <1>2, <2>1, <3>1, ImageFrame
  <2>2. CASE j = i
    BY <1>0, <1>2, <1>3, <2>2, ScanFrame
  <2> QED BY <2>1, <2>2
<1>6. CASE ~Data(Candidate(i))
  <2>1. fair' = fair /\ wake' = wake
    BY <1>6 DEF Refuse
  <2>2. Kept
    BY <1>2, <2>1, KeptSame
  <2>3. Domains'
    BY <1>0, <1>2, <1>3, <2>1 DEF Domains
  <2>4. \A j \in Images : /\ ImageInv(j)'
                          /\ j # i => InTurn(j)' = InTurn(j) /\ Ticket(j)' = Ticket(j)
                          /\ j = i => ~InTurn(j)'
    BY <1>5, <2>2 DEF Kept
  <2>5. ~InTurn(i) /\ (~InTurn(i)' => InTurn(i)' = InTurn(i))
    BY <1>6 DEF InTurn
  <2>6. \A j \in Images : /\ ImageInv(j)' /\ InTurn(j)' = InTurn(j)
                          /\ InTurn(j) => Ticket(j)' = Ticket(j)
    BY <2>4, <2>5
  <2> QED BY <1>2, <1>4, <2>2, <2>3, <2>6, KeptInv
<1>7. CASE Data(Candidate(i))
  <2>1. InTurn(i)
    BY <1>1, <1>7 DEF InTurn
  <2>2. /\ fair.cursor = i /\ ~fair.replenish /\ passed[i] = 0
        /\ \E n \in 1 .. Len(fair.heads[i]) :
              /\ fair.heads[i][n].id = Ticket(i) /\ fair.heads[i][n].ready
              /\ fair.heads[i][n].bytes <= fair.deficit[i]
        /\ \A j \in Images : InTurn(j) => j = i
    BY <2>1, GrantedIs
  <2>3. PICK n \in 1 .. Len(fair.heads[i]) : fair.heads[i][n].id = Ticket(i)
    BY <2>2
  <2>4. Distinct(fair.heads[i])
    BY <1>0, DistinctOf DEF ImageInv
  <2>5. /\ FairType(g) /\ SameIds(fair.heads[i], g.heads[i])
        /\ \A j \in Images : j # i => g.heads[j] = fair.heads[j]
        /\ g.cursor = Visited(fair, 1) /\ g.replenish = TRUE
        /\ g.granted = NoTurn /\ g.deficit = fair.deficit
    <3>1. FairType(fair) /\ fair.heads[i][n].id = Ticket(i)
      BY <1>0, <2>3
    <3>2. Yields(fair, g, i)
      BY <2>4, <3>1, RefusedIs
    <3> HIDE DEF g
    <3> QED BY <3>2 DEF Yields
  <2>6. PICK c \in Choose(g) :
          fair' = c.fair /\ wake' = Woken({} \cup (Images \cap {c.pick.image}))
    BY <1>7 DEF Refuse, WakeNext
  <2> HIDE DEF g
  <2>7. passed \in [Images -> Nat] /\ \A j \in Images : ShareOf(fair, j, passed[j])
    BY DEF FrontendInv, Domains, ShareInv
  <2>8. \A j \in Images : ShareOf(g, j, passed'[j])
    <3> TAKE j \in Images
    <3>1. CASE j = i
      BY <1>2, <2>2, <2>5, <3>1, ShareZero
    <3>2. CASE j # i
      BY <1>0, <1>2, <2>2, <2>5, <2>7, <3>2, RefuseShare
    <3> QED BY <3>1, <3>2
  <2>9. /\ FairType(fair)' /\ ShareInv' /\ fair'.heads = g.heads /\ fair'.granted = NoTurn
    BY <1>2, <2>5, <2>6, <2>7, <2>8, WakeFrame
  <2>10. \A j \in Images : SameIds(fair.heads[j], fair'.heads[j])
    BY <1>0, <2>5, <2>9, SameHeads
  <2>11. \A j \in Images : ImageInv(j)' /\ ~InTurn(j)'
    BY <1>5, <2>2, <2>10
  <2>12. Domains'
    BY <1>0, <1>2, <1>3, <2>6, WokenType DEF Domains
  <2>13. GrantInv'
    BY <2>9, <2>11 DEF GrantInv
  <2> QED BY <1>4, <2>9, <2>11, <2>12, <2>13 DEF FrontendInv
<1> QED BY <1>6, <1>7

\* The queue of image i without a ticket, the rest of the scheduler alone.
Drops(f, g, i, id) ==
  FairType(g) /\ OnlyHeads(f, g, i) /\ Without(f.heads[i], g.heads[i], id)

LEMMA DropIs ==
  ASSUME NEW f, FairType(f), NEW i \in Images, NEW id, Distinct(f.heads[i])
  PROVE  Drops(f, Dropped(f, i, id), i, id)
<1> DEFINE g == Dropped(f, i, id)
           h == f.heads[i]
           e == g.heads[i]
<1>1. /\ FairType(g) /\ OnlyHeads(f, g, i) /\ g.released = f.released
      /\ Distinct(e)
      /\ \A m \in 1 .. Len(e) : \E n \in 1 .. Len(h) :
           e[m] = h[n] /\ h[n].id # id
      /\ \A n \in 1 .. Len(h) : h[n].id # id =>
           \E m \in 1 .. Len(e) : e[m] = h[n]
  BY DroppedIs
<1> HIDE DEF g
<1> QED BY <1>1 DEF Drops, Without, g

\* Image i pays b bytes for the request of a ticket.
Pays(f, g, i, id, b) ==
  /\ FairType(g) /\ Without(f.heads[i], g.heads[i], id)
  /\ \A j \in Images : j # i => g.heads[j] = f.heads[j]
  /\ g.cursor = f.cursor /\ g.replenish = f.replenish /\ g.granted = NoTurn
  /\ g.deficit = [f.deficit EXCEPT ![i] = @ - b]

LEMMA PayIs ==
  ASSUME NEW f, FairType(f), NEW i \in Images, NEW id, Distinct(f.heads[i]),
         NEW n \in 1 .. Len(f.heads[i]), f.heads[i][n].id = id,
         f.heads[i][n].bytes <= f.deficit[i]
  PROVE  Pays(f, Committed(f, i, id), i, id, f.heads[i][n].bytes)
<1> DEFINE g == Committed(f, i, id)
           w == Dropped(f, i, id)
           b == f.heads[i][n].bytes
<1>1. /\ FairType(g) /\ g.heads = w.heads
      /\ g.cursor = f.cursor /\ g.replenish = f.replenish
      /\ g.granted = NoTurn
      /\ g.deficit = [f.deficit EXCEPT ![i] = @ - b]
  BY CommittedIs
<1>2. Drops(f, w, i, id)
  BY DropIs
<1> HIDE DEF g, w, b
<1>3. Without(f.heads[i], g.heads[i], id) /\ \A j \in Images : j # i => g.heads[j] = f.heads[j]
  BY <1>1, <1>2 DEF Drops, OnlyHeads
<1> QED BY <1>1, <1>3 DEF Pays, g, b

\* The parts of the invariant that a change of the slots of image i concerns.
LEMMA SlotFrame ==
  ASSUME NEW i \in Images, QueueType(i), OrderInv(i), AdmitInv(i), IoType(i),
         program' = program, posted'[i] = posted[i], found'[i] = found[i],
         frontier'[i] = frontier[i], orders'[i] = orders[i],
         admitted'[i] = admitted[i], pending'[i] = pending[i], wal'[i] = wal[i],
         pass'[i] \in [first : Queues(i), at : Queues(i), cand : Nat \ {0},
                       step : {"idle", "scan", "turn", "refused"}],
         slots'[i] \in [Names -> [Queues(i) -> Nat]]
  PROVE  /\ (QueueType(i) /\ OrderInv(i) /\ AdmitInv(i) /\ IoType(i))'
         /\ Queues(i)' = Queues(i)
<1>1. Queues(i)' = Queues(i)
  BY DEF Queues
<1>2. QueueType(i)'
  BY <1>1 DEF QueueType
<1>3. OrderInv(i)' /\ AdmitInv(i)' /\ IoType(i)'
  BY <1>1 DEF OrderInv, AdmitInv, IoType
<1> QED BY <1>1, <1>2, <1>3

LEMMA CandidatesIn ==
  ASSUME NEW i, frontier[i][QueueAt(i)] \in Seq(Requests), Candidates(i) # {}
  PROVE  /\ Least(Candidates(i)) \in 1 .. Len(frontier[i][QueueAt(i)])
         /\ Eligible(i, QueueAt(i), Least(Candidates(i)))
<1>1. Candidates(i) \in SUBSET Nat
  BY DEF Candidates
<1>2. Least(Candidates(i)) \in Candidates(i)
  BY <1>1, LeastIs
<1> QED BY <1>2 DEF Candidates

LEMMA GiveUpInv ==
  ASSUME FrontendInv, NEW i \in Images, GiveUp(i)
  PROVE  FrontendInv'
<1> DEFINE q == QueueAt(i)
<1>0. /\ Domains /\ FairType(fair) /\ GrantInv /\ HostInv
      /\ \A j \in Images : ImageInv(j)
      /\ QueueType(i) /\ OrderInv(i) /\ AdmitInv(i) /\ SlotInv(i) /\ TicketInv(i)
      /\ IoType(i)
  BY DEF FrontendInv, ImageInv
<1>1. /\ pass[i].step = "scan" /\ passed' = [passed EXCEPT ![i] = 0]
      /\ UNCHANGED <<guest, queues, pass, io, wal, gate, admitted>>
  BY DEF GiveUp
<1>2. /\ program' = program /\ posted' = posted /\ found' = found /\ frontier' = frontier
      /\ orders' = orders /\ pass' = pass /\ admitted' = admitted
      /\ pending' = pending /\ wal' = wal /\ host' = host /\ pauses' = pauses
  BY <1>1 DEF guest, queues, io, gate
<1>3. PICK s \in Names :
        /\ slots' = [slots EXCEPT ![i][s][q] = 0]
        /\ WakeNext(Dropped(fair, i, <<s, slots[i][s][q]>>), {})
  BY DEF GiveUp, Stale, Names
<1> DEFINE id == <<s, slots[i][s][q]>>
           g == Dropped(fair, i, id)
<1>4. Distinct(fair.heads[i])
  BY <1>0, DistinctOf
<1>5. Drops(fair, g, i, id)
  <2>1. FairType(fair)
    BY <1>0
  <2> HIDE DEF id
  <2> QED BY <1>4, <2>1, DropIs
<1>6. PICK c \in Choose(g) :
        fair' = c.fair /\ wake' = Woken({} \cup (Images \cap {c.pick.image}))
  BY <1>3 DEF WakeNext
<1> HIDE DEF g
<1>7. /\ FairType(g) /\ OnlyHeads(fair, g, i) /\ Without(fair.heads[i], g.heads[i], id)
  BY <1>5 DEF Drops
<1>8. /\ passed \in [Images -> Nat] /\ (\A j \in Images : ShareOf(fair, j, passed[j]))
      /\ passed' \in [Images -> Nat] /\ passed'[i] = 0
      /\ \A j \in Images : j # i => passed'[j] = passed[j]
  BY <1>1 DEF FrontendInv, Domains, ShareInv
<1>9. \A j \in Images : ShareOf(g, j, passed'[j])
  <2> TAKE j \in Images
  <2>1. CASE j = i
    BY <1>7, <1>8, <2>1, ShareZero
  <2>2. CASE j # i
    BY <1>7, <1>8, <2>2, SameShare DEF OnlyHeads
  <2> QED BY <2>1, <2>2
<1>10. /\ FairType(fair)' /\ ShareInv' /\ fair'.heads = g.heads
       /\ fair'.granted = g.granted /\ (g.granted # NoTurn => fair' = g)
  BY <1>6, <1>7, <1>8, <1>9, WakeFrame
<1>11. Domains'
  BY <1>0, <1>2, <1>3, <1>6, <1>8, WokenType DEF Domains
<1>12. HostInv'
  BY <1>0, <1>2 DEF HostInv, CollectionAlone
<1>13. q \in Queues(i)
  BY <1>0, QueueAtIn
<1>14. /\ slots'[i] = [slots[i] EXCEPT ![s][q] = 0]
       /\ slots[i] \in [Names -> [Queues(i) -> Nat]]
       /\ \A j \in Images : j # i => slots'[j] = slots[j]
  BY <1>0, <1>3 DEF Domains, QueueType
<1> HIDE DEF q
<1>15. ~InTurn(i) /\ ImageInv(i)' /\ InTurn(i)' = InTurn(i)
  <2>1. Ordered(frontier[i], Queues(i)) /\ Slotted(slots[i], frontier[i], Queues(i))
    BY <1>0, OrderedIs DEF SlotInv
  <2>2. Slotted(slots'[i], frontier[i], Queues(i)) /\ slots'[i] \in [Names -> [Queues(i) -> Nat]]
    BY <1>13, <1>14, <2>1, VacateSlots, SMTT(20)
  <2>3. /\ Backed(g.heads[i], slots'[i], frontier[i], Queues(i))
        /\ Covered(g.heads[i], slots'[i], frontier[i], Queues(i))
    <3>1. fair.heads[i] \in Seq(Tickets)
      BY <1>0 DEF FairType
    <3>2. /\ Backed(fair.heads[i], slots[i], frontier[i], Queues(i))
          /\ Covered(fair.heads[i], slots[i], frontier[i], Queues(i))
      BY <1>0 DEF TicketInv
    <3> DEFINE slot == slots[i]
               queue == frontier[i]
               Q == Queues(i)
               h == fair.heads[i]
               e == g.heads[i]
               sl == slots'[i]
    <3>3. /\ h \in Seq(Tickets) /\ slot \in [Names -> [Q -> Nat]] /\ q \in Q
          /\ Slotted(slot, queue, Q) /\ Ordered(queue, Q)
          /\ Backed(h, slot, queue, Q) /\ Covered(h, slot, queue, Q)
          /\ Without(h, e, <<s, slot[s][q]>>) /\ sl = [slot EXCEPT ![s][q] = 0]
      BY <1>7, <1>13, <1>14, <2>1, <3>1, <3>2
    <3> HIDE DEF slot, queue, Q, h, e, sl
    <3>4. Backed(e, sl, queue, Q) /\ Covered(e, sl, queue, Q)
      BY <3>3, VacateMatch
    <3> QED BY <3>4 DEF slot, queue, Q, h, e, sl
  <2>4. /\ (QueueType(i) /\ OrderInv(i) /\ AdmitInv(i) /\ IoType(i))'
        /\ Queues(i)' = Queues(i)
    <3>1. pass'[i] \in [first : Queues(i), at : Queues(i), cand : Nat \ {0},
                       step : {"idle", "scan", "turn", "refused"}]
      BY <1>0, <1>2 DEF QueueType
    <3> QED BY <1>0, <1>2, <2>2, <3>1, SlotFrame
  <2>5. SlotInv(i)'
    BY <1>2, <2>2, <2>4 DEF SlotInv
  <2>6. TicketInv(i)'
    <3>1. Distinct(g.heads[i])
      BY <1>7 DEF Without
    <3> QED BY <1>2, <1>10, <2>3, <2>4, <3>1 DEF TicketInv
  <2>7. TurnInv(i)' /\ ~InTurn(i) /\ InTurn(i)' = InTurn(i)
    BY <1>1, <1>2 DEF TurnInv, InTurn
  <2> QED BY <2>4, <2>5, <2>6, <2>7 DEF ImageInv
<1>16. ASSUME NEW j \in Images, j # i
       PROVE  ImageInv(j)' /\ InTurn(j)' = InTurn(j) /\ Ticket(j)' = Ticket(j)
  <2>1. SameIds(fair.heads[j], fair'.heads[j])
    BY <1>0, <1>7, <1>10, <1>16, SameHeads DEF OnlyHeads
  <2> QED BY <1>0, <1>2, <1>14, <1>16, <2>1, ImageFrame
<1>17. GrantInv'
  <2>1. \A j \in Images : Len(fair.heads[j]) \in Nat /\ Len(fair'.heads[j]) \in Nat
    <3>1. \A j \in Images : fair.heads[j] \in Seq(Tickets) /\ fair'.heads[j] \in Seq(Tickets)
      BY <1>0, <1>10 DEF FairType
    <3> QED BY <3>1
  <2>2. \A j \in Images : fair.granted # NoTurn /\ InTurn(j) =>
           /\ fair'.cursor = fair.cursor /\ fair'.replenish = fair.replenish
           /\ fair'.deficit = fair.deficit /\ passed'[j] = passed[j]
           /\ fair'.heads[j] = fair.heads[j]
    BY <1>7, <1>8, <1>10, <1>15 DEF OnlyHeads
  <2>3. fair'.granted = fair.granted
    BY <1>7, <1>10 DEF OnlyHeads
  <2>4. \A j \in Images : /\ InTurn(j)' = InTurn(j)
                          /\ InTurn(j) => Ticket(j)' = Ticket(j)
    BY <1>15, <1>16
  <2>5. \A j \in Images : fair.granted # NoTurn /\ InTurn(j) =>
           /\ fair'.cursor = fair.cursor /\ fair'.replenish = fair.replenish
           /\ fair'.deficit = fair.deficit /\ passed'[j] = passed[j]
           /\ Len(fair.heads[j]) <= Len(fair'.heads[j])
           /\ \A n \in 1 .. Len(fair.heads[j]) :
                /\ fair'.heads[j][n].id = fair.heads[j][n].id
                /\ fair'.heads[j][n].bytes = fair.heads[j][n].bytes
                /\ fair.heads[j][n].ready => fair'.heads[j][n].ready
    BY <2>1, <2>2
  <2> QED BY <1>0, <2>1, <2>3, <2>4, <2>5, GrantFrame
<1> QED BY <1>10, <1>11, <1>12, <1>15, <1>16, <1>17 DEF FrontendInv

-----------------------------------------------------------------------------
(* Polling a candidate                                                     *)

\* The slots after request n of queue q has taken its own.
Occupies(slot, sl, queue, Q, q, n) ==
  \A t \in Names, p \in Q :
    sl[t][p] = IF t = Slot(n) /\ p = q THEN queue[q][n].order ELSE slot[t][p]
HoldsSlots(slot, sl, Q) ==
  \A t \in Names, p \in Q : slot[t][p] # 0 => sl[t][p] = slot[t][p]

\* A candidate takes its slot.
LEMMA OccupySlots ==
  ASSUME NEW slot, NEW queue, NEW Q, slot \in [Names -> [Q -> Nat]],
         Slotted(slot, queue, Q), Ordered(queue, Q), NEW q \in Q,
         NEW n \in 1 .. Len(queue[q]),
         slot[Slot(n)][q] \in {0, queue[q][n].order},
         n = 1 => slot["read"][q] # queue[q][n].order,
         NEW sl, sl = [slot EXCEPT ![Slot(n)][q] = queue[q][n].order]
  PROVE  /\ sl \in [Names -> [Q -> Nat]] /\ Slotted(sl, queue, Q)
         /\ Occupies(slot, sl, queue, Q, q, n) /\ HoldsSlots(slot, sl, Q)
<1> DEFINE o == queue[q][n].order
<1>1. o \in Nat /\ o # 0 /\ Len(queue[q]) \in Nat
  BY DEF Ordered
<1>2. Slot(n) \in Names /\ (n = 1 => Slot(n) = "head") /\ (n # 1 => Slot(n) = "read")
  BY DEF Slot, Names
<1> HIDE DEF o
<1>3. sl = [slot EXCEPT ![Slot(n)][q] = o]
  BY DEF o
<1>4. sl \in [Names -> [Q -> Nat]]
  BY <1>1, <1>2, <1>3
<1>5. \A t \in Names, p \in Q :
        sl[t][p] = IF t = Slot(n) /\ p = q THEN o ELSE slot[t][p]
  BY <1>2, <1>3
<1>6. \A t \in Names, p \in Q : slot[t][p] # 0 => sl[t][p] = slot[t][p]
  BY <1>5 DEF o
<1>7. ASSUME NEW p \in Q
      PROVE  /\ sl["head"][p] # 0 =>
                  Len(queue[p]) > 0 /\ sl["head"][p] = queue[p][1].order
             /\ sl["read"][p] # 0 =>
                  /\ \E m \in 1 .. Len(queue[p]) : sl["read"][p] = queue[p][m].order
                  /\ sl["head"][p] # sl["read"][p]
  <2>0. "head" \in Names /\ "read" \in Names
    BY DEF Names
  <2>1. CASE p # q
    <3>1. sl["head"][p] = slot["head"][p] /\ sl["read"][p] = slot["read"][p]
      BY <1>5, <2>0, <2>1
    <3> QED BY <3>1 DEF Slotted
  <2>2. CASE p = q /\ n = 1
    <3>1. sl["head"][p] = o /\ sl["read"][p] = slot["read"][p]
      BY <1>2, <1>5, <2>0, <2>2
    <3>2. o = queue[p][1].order /\ Len(queue[p]) > 0 /\ slot["read"][p] # o
      BY <1>1, <2>2 DEF o
    <3> QED BY <3>1, <3>2 DEF Slotted
  <2>3. CASE p = q /\ n # 1
    <3>1. sl["head"][p] = slot["head"][p] /\ sl["read"][p] = o
      BY <1>2, <1>5, <2>0, <2>3
    <3>2. o = queue[p][n].order /\ n \in 1 .. Len(queue[p])
      BY <2>3 DEF o
    <3>3. slot["head"][p] # o
      <4>1. CASE slot["head"][p] = 0
        BY <1>1, <4>1
      <4>2. CASE slot["head"][p] # 0
        <5>1. slot["head"][p] = queue[p][1].order
          BY <4>2 DEF Slotted
        <5>2. 1 \in 1 .. Len(queue[p])
          BY <1>1, <2>3
        <5>3. queue[p][1].order # queue[p][n].order
          BY <2>3, <3>2, <5>2, OneOrder
        <5> QED BY <3>2, <5>1, <5>3
      <4> QED BY <4>1, <4>2
    <3> QED BY <3>1, <3>2, <3>3 DEF Slotted
  <2> QED BY <2>1, <2>2, <2>3
<1>8. Slotted(sl, queue, Q)
  BY <1>7 DEF Slotted
<1> QED BY <1>4, <1>5, <1>6, <1>8 DEF o, Occupies, HoldsSlots

\* The tickets so far are still backed.
LEMMA OccupyBacked ==
  ASSUME NEW slot, NEW sl, NEW queue, NEW Q, NEW h \in Seq(Tickets),
         Backed(h, slot, queue, Q), HoldsSlots(slot, sl, Q)
  PROVE  Backed(h, sl, queue, Q)
<1> SUFFICES ASSUME NEW m \in 1 .. Len(h)
             PROVE  \E p \in Q :
               /\ h[m].id[2] # 0 /\ sl[h[m].id[1]][p] = h[m].id[2]
               /\ \E n \in 1 .. Len(queue[p]) :
                    /\ queue[p][n].order = h[m].id[2] /\ queue[p][n].bytes = h[m].bytes
                    /\ Data(queue[p][n])
  BY DEF Backed
<1>1. PICK p \in Q :
               /\ h[m].id[2] # 0 /\ slot[h[m].id[1]][p] = h[m].id[2]
               /\ \E n \in 1 .. Len(queue[p]) :
                    /\ queue[p][n].order = h[m].id[2] /\ queue[p][n].bytes = h[m].bytes
                    /\ Data(queue[p][n])
  BY DEF Backed
<1>2. h[m] \in Tickets
  OBVIOUS
<1>3. h[m].id[1] \in Names
  BY <1>2 DEF Tickets
<1>4. sl[h[m].id[1]][p] = h[m].id[2]
  BY <1>1, <1>3 DEF HoldsSlots
<1> QED BY <1>1, <1>4

\* A request without a ticket.
LEMMA OccupyIdle ==
  ASSUME NEW slot, NEW sl, NEW queue, NEW Q, NEW h,
         Covered(h, slot, queue, Q), Ordered(queue, Q),
         NEW q \in Q, NEW n \in 1 .. Len(queue[q]), ~Data(queue[q][n]),
         Occupies(slot, sl, queue, Q, q, n)
  PROVE  Covered(h, sl, queue, Q)
<1> SUFFICES ASSUME NEW t \in Names, NEW p \in Q, NEW m \in 1 .. Len(queue[p]),
                    sl[t][p] = queue[p][m].order, Data(queue[p][m])
             PROVE  \E k \in 1 .. Len(h) : h[k].id = <<t, sl[t][p]>>
  BY DEF Covered
<1>1. CASE t = Slot(n) /\ p = q
  <2>1. queue[p][m].order = queue[q][n].order
    BY <1>1 DEF Occupies
  <2>2. p = q /\ m = n
    BY <2>1, OneOrder
  <2> QED BY <2>2
<1>2. CASE ~(t = Slot(n) /\ p = q)
  BY <1>2, ZenonT(60) DEF Covered, Occupies
<1> QED BY <1>1, <1>2

\* A queue with a ticket made ready or added.
Extended(h, e, id, bytes) ==
  /\ Grown(h, e)
  /\ (\E n \in 1 .. Len(h) : h[n].id = id) => Len(e) = Len(h)
  /\ ~(\E n \in 1 .. Len(h) : h[n].id = id) =>
       /\ Len(e) = Len(h) + 1
       /\ e[Len(e)] = [id |-> id, bytes |-> bytes, ready |-> TRUE]

\* A request takes its ticket or has it made ready.
LEMMA OccupyTicket ==
  ASSUME NEW slot, NEW sl, NEW queue, NEW Q, NEW h \in Seq(Tickets),
         NEW e \in Seq(Tickets),
         Slotted(sl, queue, Q), Ordered(queue, Q), Distinct(h),
         Backed(h, sl, queue, Q), Covered(h, slot, queue, Q),
         NEW q \in Q, NEW n \in 1 .. Len(queue[q]), Data(queue[q][n]),
         Occupies(slot, sl, queue, Q, q, n),
         NEW id, id = <<Slot(n), queue[q][n].order>>,
         Extended(h, e, id, queue[q][n].bytes)
  PROVE  Backed(e, sl, queue, Q) /\ Covered(e, sl, queue, Q) /\ Distinct(e)
<1> DEFINE s == Slot(n)
<1>s. s \in Names
  BY DEF Slot, Names
<1>e. /\ Grown(h, e)
      /\ (\E m \in 1 .. Len(h) : h[m].id = id) => Len(e) = Len(h)
      /\ ~(\E m \in 1 .. Len(h) : h[m].id = id) =>
           /\ Len(e) = Len(h) + 1
           /\ e[Len(e)] = [id |-> id, bytes |-> queue[q][n].bytes, ready |-> TRUE]
  BY DEF Extended
<1>0. /\ Len(h) \in Nat /\ Len(e) \in Nat /\ Len(h) <= Len(e)
      /\ \A m \in 1 .. Len(h) : /\ m \in 1 .. Len(e) /\ e[m].id = h[m].id
                                /\ e[m].bytes = h[m].bytes
  BY <1>e DEF Grown
<1>1. queue[q][n].order # 0 /\ sl[s][q] = queue[q][n].order
  BY <1>s DEF Ordered, Occupies
<1>2. id = <<s, queue[q][n].order>> /\ id[1] = s /\ id[2] = queue[q][n].order
  OBVIOUS
<1>9. \A t \in Names, p \in Q : ~(t = s /\ p = q) => sl[t][p] = slot[t][p]
  BY DEF Occupies
<1> HIDE DEF s
<1>3. \E m \in 1 .. Len(e) : e[m].id = id
  <2>1. CASE \E m \in 1 .. Len(h) : h[m].id = id
    BY <1>0, <2>1
  <2>2. CASE ~\E m \in 1 .. Len(h) : h[m].id = id
    <3>1. e[Len(e)].id = id /\ Len(e) \in 1 .. Len(e)
      BY <1>0, <1>e, <2>2
    <3> QED BY <3>1
  <2> QED BY <2>1, <2>2
<1>4. \A m \in 1 .. Len(e) : m \in 1 .. Len(h) \/
        /\ m = Len(e) /\ ~\E k \in 1 .. Len(h) : h[k].id = id
        /\ e[m].id = id /\ e[m].bytes = queue[q][n].bytes
  <2> TAKE m \in 1 .. Len(e)
  <2>1. CASE \E k \in 1 .. Len(h) : h[k].id = id
    BY <1>0, <1>e, <2>1
  <2>2. CASE ~\E k \in 1 .. Len(h) : h[k].id = id
    <3>1. Len(e) = Len(h) + 1 /\ e[Len(e)].id = id /\ e[Len(e)].bytes = queue[q][n].bytes
      BY <1>e, <2>2
    <3> QED BY <1>0, <2>2, <3>1
  <2> QED BY <2>1, <2>2
<1>5. Backed(e, sl, queue, Q)
  <2> SUFFICES ASSUME NEW m \in 1 .. Len(e)
               PROVE  \E p \in Q :
               /\ e[m].id[2] # 0 /\ sl[e[m].id[1]][p] = e[m].id[2]
               /\ \E k \in 1 .. Len(queue[p]) :
                    /\ queue[p][k].order = e[m].id[2] /\ queue[p][k].bytes = e[m].bytes
                    /\ Data(queue[p][k])
    BY DEF Backed
  <2>1. CASE m \in 1 .. Len(h)
    <3>1. e[m].id = h[m].id /\ e[m].bytes = h[m].bytes
      BY <1>0, <2>1
    <3>2. PICK p \in Q :
               /\ h[m].id[2] # 0 /\ sl[h[m].id[1]][p] = h[m].id[2]
               /\ \E k \in 1 .. Len(queue[p]) :
                    /\ queue[p][k].order = h[m].id[2] /\ queue[p][k].bytes = h[m].bytes
                    /\ Data(queue[p][k])
      BY <2>1 DEF Backed
    <3> QED BY <3>1, <3>2
  <2>2. CASE e[m].id = id /\ e[m].bytes = queue[q][n].bytes
    BY <1>1, <1>2, <2>2
  <2> QED BY <1>4, <2>1, <2>2
<1>6. Covered(e, sl, queue, Q)
  <2> SUFFICES ASSUME NEW t \in Names, NEW p \in Q, NEW m \in 1 .. Len(queue[p]),
                      sl[t][p] = queue[p][m].order, Data(queue[p][m])
               PROVE  \E k \in 1 .. Len(e) : e[k].id = <<t, sl[t][p]>>
    BY DEF Covered
  <2>1. CASE t = s /\ p = q
    BY <1>1, <1>2, <1>3, <2>1
  <2>2. CASE ~(t = s /\ p = q)
    <3>1. slot[t][p] = sl[t][p]
      BY <1>9, <2>2
    <3>2. PICK k \in 1 .. Len(h) : h[k].id = <<t, slot[t][p]>>
      BY <3>1 DEF Covered
    <3> QED BY <1>0, <3>1, <3>2
  <2> QED BY <2>1, <2>2
<1>7. ASSUME NEW m \in 1 .. Len(h), h[m].id[2] = id[2]
      PROVE  h[m].id = id
  <2>1. PICK p \in Q : h[m].id[2] # 0 /\ sl[h[m].id[1]][p] = h[m].id[2]
    BY DEF Backed
  <2>2. h[m] \in Tickets
    OBVIOUS
  <2>3. h[m].id[1] \in Names /\ h[m].id = <<h[m].id[1], h[m].id[2]>>
    BY <2>2, TicketId
  <2>4. sl[h[m].id[1]][p] # 0 /\ sl[h[m].id[1]][p] = sl[s][q]
    BY <1>1, <1>2, <1>7, <2>1
  <2>5. h[m].id[1] = s
    BY <1>s, <2>3, <2>4, OneSlot
  <2> QED BY <1>2, <1>7, <2>3, <2>5
<1>8. Distinct(e)
  <2> SUFFICES ASSUME NEW a \in 1 .. Len(e), NEW b \in 1 .. Len(e),
                      e[a].id[2] = e[b].id[2]
               PROVE  a = b
    BY DEF Distinct
  <2>1. CASE a \in 1 .. Len(h) /\ b \in 1 .. Len(h)
    BY <1>0, <2>1 DEF Distinct
  <2>2. CASE a \notin 1 .. Len(h)
    <3>1. a = Len(e) /\ e[a].id = id /\ ~\E k \in 1 .. Len(h) : h[k].id = id
      BY <1>4, <2>2
    <3>2. b \notin 1 .. Len(h)
      BY <1>0, <1>7, <3>1
    <3> QED BY <1>4, <3>1, <3>2
  <2>3. CASE b \notin 1 .. Len(h)
    <3>1. b = Len(e) /\ e[b].id = id /\ ~\E k \in 1 .. Len(h) : h[k].id = id
      BY <1>4, <2>3
    <3>2. a \notin 1 .. Len(h)
      BY <1>0, <1>7, <3>1
    <3> QED BY <1>4, <3>1, <3>2
  <2> QED BY <2>1, <2>2, <2>3
<1> QED BY <1>5, <1>6, <1>8

\* The queue of image i may have grown, the rest of the scheduler is alone.
Takes(f, g, i, id, bytes) ==
  /\ FairType(g) /\ OnlyHeads(f, g, i)
  /\ Extended(f.heads[i], g.heads[i], id, bytes)

LEMMA TakeIs ==
  ASSUME NEW f, FairType(f), NEW i \in Images, NEW id \in Names \X Nat,
         NEW bytes \in 1 .. Quantum
  PROVE  Takes(f, Ticketed(f, i, id, bytes), i, id, bytes)
<1> DEFINE g == Ticketed(f, i, id, bytes)
           h == f.heads[i]
           e == g.heads[i]
<1>1. /\ FairType(g) /\ OnlyHeads(f, g, i) /\ Grown(h, e)
      /\ (\E n \in 1 .. Len(h) : h[n].id = id) => Len(e) = Len(h)
      /\ ~(\E n \in 1 .. Len(h) : h[n].id = id) =>
           /\ Len(e) = Len(h) + 1
           /\ e[Len(e)] = [id |-> id, bytes |-> bytes, ready |-> TRUE]
  BY TicketedIs
<1> HIDE DEF g
<1> QED BY <1>1 DEF Takes, Extended, g

\* The request a poll is about.
LEMMA PolledIs ==
  ASSUME FrontendInv, NEW i \in Images, Candidates(i) # {},
         NEW n, n = Least(Candidates(i)), NEW q, q = QueueAt(i)
  PROVE  /\ q \in Queues(i) /\ n \in 1 .. Len(frontier[i][q]) /\ n \in Nat \ {0}
         /\ Eligible(i, q, n) /\ frontier[i][q][n] \in Requests
         /\ <<Slot(n), frontier[i][q][n].order>> \in Names \X Nat
         /\ frontier[i][q][n].bytes \in 1 .. Quantum
<1>0. Domains /\ QueueType(i)
  BY DEF FrontendInv, ImageInv
<1>1. q \in Queues(i)
  BY <1>0, QueueAtIn
<1>2. frontier[i][q] \in Seq(Requests)
  BY <1>0, <1>1 DEF QueueType
<1>3. n \in 1 .. Len(frontier[i][q]) /\ Eligible(i, q, n)
  BY <1>2, CandidatesIn
<1>4. frontier[i][q][n] \in Requests /\ n \in Nat \ {0}
  BY <1>2, <1>3
<1>5. frontier[i][q][n].order \in Nat /\ frontier[i][q][n].bytes \in 1 .. Quantum
  BY <1>4 DEF Requests
<1>6. Slot(n) \in Names
  BY DEF Slot, Names
<1> QED BY <1>1, <1>3, <1>4, <1>5, <1>6

\* What a poll leaves of image i, whatever the scheduler answers.
LEMMA PollImage ==
  ASSUME FrontendInv, NEW i \in Images, Candidates(i) # {},
         NEW n, n = Least(Candidates(i)), NEW q, q = QueueAt(i),
         Stale(i, q, n) = {},
         slots' = [slots EXCEPT ![i][Slot(n)][q] = frontier[i][q][n].order],
         UNCHANGED <<guest, queues, io, wal, gate, admitted>>,
         pass'[i] \in [first : Queues(i), at : Queues(i), cand : Nat \ {0},
                       step : {"scan", "turn"}],
         pass'[i].first = pass[i].first, pass'[i].at = pass[i].at,
         pass'[i].step = "turn" => pass'[i].cand = n,
         NEW g, fair'.heads[i] = g.heads[i],
         Data(frontier[i][q][n]) =>
           Takes(fair, g, i, <<Slot(n), frontier[i][q][n].order>>,
                 frontier[i][q][n].bytes),
         ~Data(frontier[i][q][n]) => g = fair
  PROVE  /\ ImageInv(i)' /\ QueueAt(i)' = q
         /\ pass'[i].step = "turn" => /\ Candidate(i)' = frontier[i][q][n]
                                      /\ Ticket(i)' = <<Slot(n), frontier[i][q][n].order>>
<1> DEFINE r == frontier[i][q][n]
           id == <<Slot(n), r.order>>
           slot == slots[i]
           sl == slots'[i]
           queue == frontier[i]
           Q == Queues(i)
           h == fair.heads[i]
           e == g.heads[i]
<1>0. /\ Domains /\ FairType(fair)
      /\ QueueType(i) /\ OrderInv(i) /\ AdmitInv(i) /\ SlotInv(i) /\ TicketInv(i)
      /\ IoType(i)
  BY DEF FrontendInv, ImageInv
<1>1. /\ q \in Q /\ n \in 1 .. Len(queue[q]) /\ n \in Nat \ {0}
      /\ Eligible(i, q, n) /\ r \in Requests /\ id \in Names \X Nat
  BY PolledIs
<1>2. /\ program' = program /\ posted' = posted /\ found' = found /\ frontier' = frontier
      /\ orders' = orders /\ admitted' = admitted /\ pending' = pending /\ wal' = wal
  BY DEF guest, queues, io
<1>3. /\ slot \in [Names -> [Q -> Nat]] /\ Slotted(slot, queue, Q) /\ Ordered(queue, Q)
  BY <1>0, OrderedIs DEF QueueType, SlotInv
<1>4. sl = [slot EXCEPT ![Slot(n)][q] = r.order]
  BY <1>0 DEF Domains
<1>5. Slot(n) \in Names
  BY DEF Slot, Names
<1>6. slot[Slot(n)][q] \in {0, r.order} /\ (n = 1 => slot["read"][q] # r.order)
  BY <1>5 DEF Stale, Names
<1>7. h \in Seq(Tickets) /\ Backed(h, slot, queue, Q) /\ Covered(h, slot, queue, Q) /\ Distinct(h)
  BY <1>0 DEF FairType, TicketInv
<1>8. Queues(i)' = Q /\ NQueues(i)' = NQueues(i)
  BY <1>2 DEF Queues, NQueues
<1>9. QueueAt(i)' = q
  BY <1>8 DEF QueueAt
<1> HIDE DEF slot, sl, queue, Q, h, e
<1>10. /\ sl \in [Names -> [Q -> Nat]] /\ Slotted(sl, queue, Q)
       /\ Occupies(slot, sl, queue, Q, q, n) /\ HoldsSlots(slot, sl, Q)
  <2>1. queue[q][n].order = r.order
    BY DEF queue
  <2>2. /\ q \in Q /\ n \in 1 .. Len(queue[q]) /\ slot[Slot(n)][q] \in {0, queue[q][n].order}
        /\ (n = 1 => slot["read"][q] # queue[q][n].order)
        /\ sl = [slot EXCEPT ![Slot(n)][q] = queue[q][n].order]
    BY <1>1, <1>4, <1>6, <2>1
  <2> HIDE DEF r
  <2> QED BY <1>3, <2>2, OccupySlots
<1>11. Backed(h, sl, queue, Q)
  BY <1>7, <1>10, OccupyBacked
<1>12. Backed(e, sl, queue, Q) /\ Covered(e, sl, queue, Q) /\ Distinct(e)
  <2>1. CASE Data(r)
    <3>1. Takes(fair, g, i, id, r.bytes)
      BY <2>1
    <3>2. e \in Seq(Tickets) /\ Extended(h, e, id, r.bytes)
      <4> HIDE DEF id, r
      <4> QED BY <3>1 DEF Takes, FairType, h, e
    <3>3. Data(queue[q][n]) /\ id = <<Slot(n), queue[q][n].order>> /\ r.bytes = queue[q][n].bytes
      BY <2>1 DEF queue
    <3>4. q \in Q /\ n \in 1 .. Len(queue[q]) /\ Extended(h, e, id, queue[q][n].bytes)
      BY <1>1, <3>2, <3>3
    <3> HIDE DEF id, r
    <3> QED BY <1>3, <1>7, <1>10, <1>11, <3>2, <3>3, <3>4, OccupyTicket
  <2>2. CASE ~Data(r)
    <3>1. e = h /\ ~Data(queue[q][n])
      BY <2>2 DEF e, h, queue
    <3>2. Covered(h, sl, queue, Q)
      <4>1. q \in Q /\ n \in 1 .. Len(queue[q])
        BY <1>1
      <4> HIDE DEF r, id
      <4> QED BY <1>3, <1>7, <1>10, <3>1, <4>1, OccupyIdle
    <3> QED BY <1>7, <1>11, <3>1, <3>2
  <2> QED BY <2>1, <2>2
<1>13. (QueueType(i) /\ OrderInv(i) /\ AdmitInv(i) /\ IoType(i))'
  <2>1. pass'[i] \in [first : Queues(i), at : Queues(i), cand : Nat \ {0},
                       step : {"idle", "scan", "turn", "refused"}]
    OBVIOUS
  <2>2. slots'[i] \in [Names -> [Queues(i) -> Nat]]
    BY <1>10 DEF sl, Q
  <2> QED BY <1>0, <1>2, <2>1, <2>2, SlotFrame
<1>14. SlotInv(i)'
  BY <1>2, <1>8, <1>10 DEF SlotInv, sl, queue
<1>15. TicketInv(i)'
  BY <1>2, <1>8, <1>12 DEF TicketInv, sl, queue, e
<1>16. pass'[i].step = "turn" => Candidate(i)' = r /\ Ticket(i)' = id
  BY <1>2, <1>9 DEF Candidate, Ticket
<1>17. TurnInv(i)'
  <2> SUFFICES ASSUME pass'[i].step \in {"turn", "refused"}
               PROVE  /\ pass'[i].cand \in 1 .. Len(frontier'[i][QueueAt(i)'])
                      /\ Eligible(i, QueueAt(i), pass[i].cand)'
                      /\ slots'[i][Slot(pass'[i].cand)][QueueAt(i)'] = Candidate(i)'.order
    BY DEF TurnInv
  <2>1. pass'[i].step = "turn" /\ pass'[i].cand = n /\ Candidate(i)' = r
    BY <1>16
  <2>2. n \in 1 .. Len(frontier'[i][QueueAt(i)'])
    BY <1>1, <1>2, <1>9 DEF queue
  <2>3. Eligible(i, QueueAt(i), pass[i].cand)'
    <3>1. Discovered(i)' = Discovered(i)
      BY <1>2, <1>8 DEF Discovered, Q
    <3> QED BY <1>1, <1>2, <1>9, <2>1, <3>1 DEF Eligible
  <2>4. slots'[i][Slot(n)][q] = r.order
    BY <1>1, <1>5, <1>10 DEF sl, queue, Occupies
  <2> QED BY <1>9, <2>1, <2>2, <2>3, <2>4
<1> QED BY <1>9, <1>13, <1>14, <1>15, <1>16, <1>17 DEF ImageInv

\* The scheduler a poll asks for a turn.
LEMMA AskedIs ==
  ASSUME FrontendInv, NEW i \in Images, NEW f, NEW id, NEW bytes,
         Takes(fair, f, i, id, bytes), NEW c \in Choose(f)
  PROVE  /\ FairType(f) /\ OnlyHeads(fair, f, i) /\ Chosen(f, c)
         /\ \A j \in Images : ShareOf(c.fair, j, passed[j])
<1>0. /\ FairType(fair) /\ passed \in [Images -> Nat]
      /\ \A j \in Images : ShareOf(fair, j, passed[j])
  BY DEF FrontendInv, Domains, ShareInv
<1>1. FairType(f) /\ OnlyHeads(fair, f, i) /\ Grown(fair.heads[i], f.heads[i])
  BY DEF Takes, Extended
<1>2. Chosen(f, c)
  BY <1>1, ChooseType
<1>3. \A j \in Images : ShareOf(f, j, passed[j])
  <2> TAKE j \in Images
  <2>1. CASE j # i
    BY <1>0, <1>1, <2>1, SameShare DEF OnlyHeads
  <2>2. CASE j = i
    BY <1>0, <1>1, <2>2, ReadierShare DEF OnlyHeads, Grown
  <2> QED BY <2>1, <2>2
<1>4. \A j \in Images : ShareOf(c.fair, j, passed[j])
  BY <1>0, <1>1, <1>3, ChooseShare
<1> QED BY <1>1, <1>2, <1>4

\* The place of a pass that asks for a turn.
LEMMA TurnIs ==
  ASSUME NEW Q, NEW n \in Nat \ {0}, NEW p, NEW t,
         p \in [first : Q, at : Q, cand : Nat \ {0},
                step : {"idle", "scan", "turn", "refused"}],
         t = [p EXCEPT !.cand = n, !.step = "turn"]
  PROVE  /\ t = [first |-> p.first, at |-> p.at, cand |-> n, step |-> "turn"]
         /\ p.first \in Q /\ p.at \in Q
<1>1. t = [first |-> p.first, at |-> p.at, cand |-> n, step |-> "turn"]
  OBVIOUS
<1> QED BY <1>1

LEMMA PollInv ==
  ASSUME FrontendInv, NEW i \in Images, Poll(i)
  PROVE  FrontendInv'
<1> DEFINE n == Least(Candidates(i))
           q == QueueAt(i)
           r == frontier[i][q][n]
           id == <<Slot(n), r.order>>
           turn == [pass[i] EXCEPT !.cand = n, !.step = "turn"]
           wait == Waited(turn, n, r.kind)
           f == Ticketed(fair, i, id, r.bytes)
<1>0. /\ Domains /\ FairType(fair) /\ GrantInv /\ HostInv /\ QueueType(i)
      /\ \A j \in Images : ImageInv(j)
  BY DEF FrontendInv, ImageInv
<1>1. Candidates(i) # {} /\ pass[i].step = "scan"
  BY DEF Poll
<1>2. /\ Stale(i, q, n) = {}
      /\ slots' = [slots EXCEPT ![i][Slot(n)][q] = r.order]
      /\ UNCHANGED <<guest, queues, io, wal, gate, admitted>>
      /\ IF Data(r) THEN Turn(f, i, id, turn, wait)
         ELSE pass' = [pass EXCEPT ![i] = turn] /\ UNCHANGED <<fair, wake, passed>>
  BY DEF Poll
<1>3. /\ program' = program /\ posted' = posted /\ found' = found /\ frontier' = frontier
      /\ orders' = orders /\ admitted' = admitted
      /\ pending' = pending /\ wal' = wal /\ host' = host /\ pauses' = pauses
  BY <1>2 DEF guest, queues, io, gate
<1>4. /\ q \in Queues(i) /\ n \in 1 .. Len(frontier[i][q]) /\ n \in Nat \ {0}
      /\ id \in Names \X Nat /\ r.bytes \in 1 .. Quantum
  BY <1>1, PolledIs
<1>5. /\ turn \in [first : Queues(i), at : Queues(i), cand : Nat \ {0}, step : {"scan", "turn"}]
      /\ turn.first = pass[i].first /\ turn.at = pass[i].at /\ turn.cand = n /\ turn.step = "turn"
      /\ wait \in [first : Queues(i), at : Queues(i), cand : Nat \ {0}, step : {"scan", "turn"}]
      /\ wait.first = pass[i].first /\ wait.at = pass[i].at /\ wait.step = "scan"
  <2> DEFINE Q == Queues(i)
             k == r.kind
  <2>1. pass[i] \in [first : Q, at : Q, cand : Nat \ {0},
                     step : {"idle", "scan", "turn", "refused"}]
    BY <1>0 DEF QueueType
  <2>2. n \in Nat \ {0}
    BY <1>4
  <2> HIDE DEF n, Q, k
  <2>3. /\ turn = [first |-> pass[i].first, at |-> pass[i].at, cand |-> n, step |-> "turn"]
        /\ pass[i].first \in Q /\ pass[i].at \in Q
    <3>1. turn = [pass[i] EXCEPT !.cand = n, !.step = "turn"]
      OBVIOUS
    <3> HIDE DEF turn
    <3> QED BY <2>1, <2>2, <3>1, TurnIs
  <2>4. /\ turn \in [first : Q, at : Q, cand : Nat \ {0}, step : {"idle", "scan", "turn", "refused"}]
        /\ turn \in [first : Q, at : Q, cand : Nat \ {0}, step : {"scan", "turn"}]
        /\ turn.first = pass[i].first /\ turn.at = pass[i].at /\ turn.cand = n /\ turn.step = "turn"
    <3> HIDE DEF turn
    <3> QED BY <2>2, <2>3
  <2> HIDE DEF turn
  <2>5. Waited(turn, n, k) \in [first : Q, at : Q, cand : Nat \ {0}, step : {"scan"}]
    BY <2>2, <2>4, WaitedType
  <2>6. Waited(turn, n, k).first = turn.first /\ Waited(turn, n, k).at = turn.at
    BY <2>4 DEF Waited
  <2>7. wait = Waited(turn, n, k)
    BY DEF k
  <2> HIDE DEF wait
  <2>8. wait \in [first : Q, at : Q, cand : Nat \ {0}, step : {"scan", "turn"}] /\ wait.step = "scan"
    BY <2>5, <2>7
  <2> QED BY <2>4, <2>6, <2>7, <2>8 DEF Q
<1>6. /\ DOMAIN slots' = Images /\ \A j \in Images : j # i => slots'[j] = slots[j]
  BY <1>0, <1>2 DEF Domains
<1>7. HostInv'
  BY <1>0, <1>3 DEF HostInv, CollectionAlone
<1>8. ~InTurn(i)
  BY <1>1 DEF InTurn
<1>12. n = Least(Candidates(i)) /\ q = QueueAt(i)
  OBVIOUS
<1> HIDE DEF n, q, turn, wait
<1>9. ASSUME NEW j \in Images, j # i, pass'[j] = pass[j], fair'.heads[j] = fair.heads[j]
      PROVE  ImageInv(j)' /\ InTurn(j)' = InTurn(j) /\ Ticket(j)' = Ticket(j)
  <2>1. SameIds(fair.heads[j], fair'.heads[j])
    BY <1>0, <1>9, SameHeads
  <2> QED BY <1>0, <1>3, <1>6, <1>9, <2>1, ImageFrame
<1>10. CASE ~Data(r)
  <2>1. pass' = [pass EXCEPT ![i] = turn] /\ fair' = fair /\ wake' = wake /\ passed' = passed
    BY <1>2, <1>10
  <2>2. /\ DOMAIN pass' = Images /\ pass'[i] = turn
        /\ \A j \in Images : j # i => pass'[j] = pass[j]
    BY <1>0, <2>1 DEF Domains
  <2>3. ImageInv(i)' /\ Candidate(i)' = r
    <3>1. fair'.heads[i] = fair.heads[i] /\ fair = fair
      BY <2>1
    <3>2. /\ pass'[i] \in [first : Queues(i), at : Queues(i), cand : Nat \ {0},
                             step : {"scan", "turn"}]
          /\ pass'[i].first = pass[i].first /\ pass'[i].at = pass[i].at
          /\ pass'[i].step = "turn" /\ pass'[i].cand = n
      BY <1>5, <2>2
    <3>3. /\ Stale(i, q, n) = {} /\ UNCHANGED <<guest, queues, io, wal, gate, admitted>>
          /\ slots' = [slots EXCEPT ![i][Slot(n)][q] = frontier[i][q][n].order]
      BY <1>2
    <3>4. ~Data(frontier[i][q][n])
      BY <1>10
    <3>5. ImageInv(i)'
      <4> HIDE DEF r, id, f
      <4> QED BY <1>1, <1>12, <3>1, <3>2, <3>3, <3>4, PollImage
    <3>6. QueueAt(i)' = q
      <4>1. Queues(i)' = Queues(i)
        BY <1>3 DEF Queues
      <4> QED BY <1>12, <3>2, <4>1 DEF QueueAt, NQueues
    <3>7. Candidate(i)' = r /\ Ticket(i)' = id
      BY <1>3, <3>2, <3>6 DEF Candidate, Ticket
    <3> QED BY <3>5, <3>7
  <2>4. InTurn(i)' = InTurn(i)
    <3>1. ~Data(Candidate(i)')
      BY <1>10, <2>3
    <3> QED BY <1>8, <3>1 DEF InTurn, Data, Pool
  <2>5. Domains'
    BY <1>0, <1>3, <1>6, <2>1, <2>2 DEF Domains
  <2>6. \A j \in Images : /\ ImageInv(j)' /\ InTurn(j)' = InTurn(j)
                          /\ InTurn(j) => Ticket(j)' = Ticket(j)
    BY <1>8, <1>9, <2>1, <2>2, <2>3, <2>4
  <2> QED BY <1>7, <2>1, <2>5, <2>6, QuietInv
<1>11. CASE Data(r)
  <2>1. Takes(fair, f, i, id, r.bytes)
    <3>1. FairType(fair) /\ id \in Names \X Nat /\ r.bytes \in 1 .. Quantum
      BY <1>0, <1>4
    <3> HIDE DEF id, r
    <3> QED BY <3>1, TakeIs
  <2>2. PICK c \in Choose(f) :
          IF c.pick = [image |-> i, id |-> id]
          THEN /\ fair' = Granted(c.fair, c.pick)
               /\ pass' = [pass EXCEPT ![i] = turn]
               /\ passed' = [passed EXCEPT ![i] = 0]
               /\ UNCHANGED wake
          ELSE /\ fair' = c.fair
               /\ pass' = [pass EXCEPT ![i] = wait]
               /\ wake' = Woken(Wakes(c.pick))
               /\ UNCHANGED passed
    BY <1>2, <1>11 DEF Turn
  <2>3. /\ FairType(f) /\ OnlyHeads(fair, f, i) /\ Chosen(f, c)
        /\ \A j \in Images : ShareOf(c.fair, j, passed[j])
    <3> HIDE DEF f, id, r
    <3> QED BY <2>1, AskedIs
  <2>4. passed \in [Images -> Nat]
    BY <1>0 DEF Domains
  <2> HIDE DEF f
  <2>5. /\ FairType(c.fair) /\ c.fair.heads = f.heads /\ c.fair.granted = f.granted
        /\ c.pick \in Turns
    BY <2>3 DEF Chosen
  <2>6. CASE c.pick = [image |-> i, id |-> id]
    <3>1. /\ fair' = Granted(c.fair, c.pick) /\ pass' = [pass EXCEPT ![i] = turn]
          /\ passed' = [passed EXCEPT ![i] = 0] /\ wake' = wake
      BY <2>2, <2>6
    <3>2. c.pick.image = i /\ c.pick.id = id /\ c.pick # NoTurn
      <4>1. c.pick.image = i /\ c.pick.id = id
        BY <2>6
      <4> QED BY <4>1, NoTurnIn, Constants
    <3>3. /\ f.granted = NoTurn /\ c.fair.cursor = i /\ ~c.fair.replenish
          /\ \E m \in 1 .. Len(f.heads[i]) :
               /\ f.heads[i][m].id = id /\ f.heads[i][m].ready
               /\ f.heads[i][m].bytes <= c.fair.deficit[i]
      BY <2>3, <3>2 DEF Chosen
    <3>4. /\ FairType(fair') /\ fair'.heads = f.heads /\ fair'.cursor = i /\ ~fair'.replenish
          /\ fair'.replenish = c.fair.replenish
          /\ fair'.deficit = c.fair.deficit /\ fair'.granted = c.pick
      <4>1. fair' = [c.fair EXCEPT !.granted = c.pick, !.released = FALSE]
        BY <3>1 DEF Granted
      <4> QED BY <2>5, <3>3, <4>1 DEF FairType
    <3>5. \A j \in Images : ~InTurn(j)
      <4>1. fair.granted = NoTurn
        BY <2>3, <3>3 DEF OnlyHeads
      <4> QED BY <4>1, NoneIn
    <3>6. /\ DOMAIN pass' = Images /\ pass'[i] = turn
          /\ \A j \in Images : j # i => pass'[j] = pass[j]
      BY <1>0, <3>1 DEF Domains
    <3>7. /\ passed' \in [Images -> Nat] /\ passed'[i] = 0
          /\ \A j \in Images : j # i => passed'[j] = passed[j]
      BY <2>4, <3>1
    <3>8. ImageInv(i)' /\ Candidate(i)' = r /\ Ticket(i)' = id
      <4>1. fair'.heads[i] = f.heads[i]
        BY <3>4
      <4>2. /\ pass'[i] \in [first : Queues(i), at : Queues(i), cand : Nat \ {0},
                               step : {"scan", "turn"}]
            /\ pass'[i].first = pass[i].first /\ pass'[i].at = pass[i].at
            /\ pass'[i].step = "turn" /\ pass'[i].cand = n
        BY <1>5, <3>6
      <4>3. /\ Stale(i, q, n) = {} /\ UNCHANGED <<guest, queues, io, wal, gate, admitted>>
            /\ slots' = [slots EXCEPT ![i][Slot(n)][q] = frontier[i][q][n].order]
        BY <1>2
      <4>4. /\ Data(frontier[i][q][n])
            /\ Takes(fair, f, i, <<Slot(n), frontier[i][q][n].order>>, frontier[i][q][n].bytes)
        BY <1>11, <2>1
      <4>5. ImageInv(i)'
        <5> HIDE DEF r, id
        <5> QED BY <1>1, <1>12, <4>1, <4>2, <4>3, <4>4, PollImage
      <4>6. QueueAt(i)' = q
        <5>1. Queues(i)' = Queues(i)
          BY <1>3 DEF Queues
        <5> QED BY <1>12, <4>2, <5>1 DEF QueueAt, NQueues
      <4>7. Candidate(i)' = r /\ Ticket(i)' = id
        BY <1>3, <4>2, <4>6 DEF Candidate, Ticket
      <4> QED BY <4>5, <4>7
    <3>9. ASSUME NEW j \in Images, j # i
          PROVE  ImageInv(j)' /\ ~InTurn(j)'
      <4>1. fair'.heads[j] = fair.heads[j] /\ pass'[j] = pass[j]
        BY <2>3, <3>4, <3>6, <3>9 DEF OnlyHeads
      <4> QED BY <1>9, <3>5, <3>9, <4>1
    <3>10. GrantInv'
      <4>1. InTurn(i)'
        <5>1. pass'[i].step = "turn" /\ Data(Candidate(i)')
          BY <1>5, <1>11, <3>6, <3>8
        <5> QED BY <5>1 DEF InTurn, Data, Pool
      <4>2. fair'.granted = [image |-> i, id |-> Ticket(i)']
        BY <2>6, <3>4, <3>8
      <4>3. \E m \in 1 .. Len(fair'.heads[i]) :
               /\ fair'.heads[i][m].id = Ticket(i)' /\ fair'.heads[i][m].ready
               /\ fair'.heads[i][m].bytes <= fair'.deficit[i]
        BY <3>3, <3>4, <3>8
      <4> QED BY <3>4, <3>7, <3>9, <4>1, <4>2, <4>3 DEF GrantInv
    <3>11. ShareInv'
      <4>1. \A j \in Images : ShareOf(fair', j, passed'[j])
        <5> TAKE j \in Images
        <5>1. CASE j = i
          BY <3>4, <3>7, <5>1, ShareZero
        <5>2. CASE j # i
          BY <2>3, <2>5, <3>3, <3>4, <3>7, <5>2, SameShare
        <5> QED BY <5>1, <5>2
      <4> QED BY <4>1 DEF ShareInv, ShareOf, Visits, Unspent, Ahead
    <3>12. Domains'
      BY <1>0, <1>3, <1>6, <3>1, <3>6, <3>7 DEF Domains
    <3>13. FairType(fair)'
      BY <3>4 DEF FairType
    <3> QED BY <1>7, <3>8, <3>9, <3>10, <3>11, <3>12, <3>13 DEF FrontendInv
  <2>7. CASE c.pick # [image |-> i, id |-> id]
    <3>1. /\ fair' = c.fair /\ pass' = [pass EXCEPT ![i] = wait]
          /\ wake' = Woken(Wakes(c.pick)) /\ passed' = passed
      BY <2>2, <2>7
    <3>2. /\ DOMAIN pass' = Images /\ pass'[i] = wait
          /\ \A j \in Images : j # i => pass'[j] = pass[j]
      BY <1>0, <3>1 DEF Domains
    <3>3. ImageInv(i)' /\ InTurn(i)' = InTurn(i)
      <4>1. fair'.heads[i] = f.heads[i]
        BY <2>5, <3>1
      <4>2. ImageInv(i)'
        <5>1. pass'[i].step = "scan"
          BY <1>5, <3>2
        <5> QED BY <1>1, <1>2, <1>5, <1>11, <2>1, <3>2, <4>1, <5>1, <1>12, PollImage
      <4>3. InTurn(i)' = InTurn(i)
        <5>1. pass'[i].step = "scan"
          BY <1>5, <3>2
        <5> QED BY <1>8, <5>1 DEF InTurn
      <4> QED BY <4>2, <4>3
    <3>4. ASSUME NEW j \in Images, j # i
          PROVE  ImageInv(j)' /\ InTurn(j)' = InTurn(j) /\ Ticket(j)' = Ticket(j)
      <4>1. fair'.heads[j] = fair.heads[j] /\ pass'[j] = pass[j]
        BY <2>3, <2>5, <3>1, <3>2, <3>4 DEF OnlyHeads
      <4> QED BY <1>9, <3>4, <4>1
    <3>5. FairType(fair)' /\ FairType(fair')
      BY <2>5, <3>1 DEF FairType
    <3>6. GrantInv'
      <4>1. \A j \in Images : Len(fair.heads[j]) \in Nat /\ Len(fair'.heads[j]) \in Nat
        <5>1. \A j \in Images : fair.heads[j] \in Seq(Tickets) /\ fair'.heads[j] \in Seq(Tickets)
          BY <1>0, <3>5 DEF FairType
        <5> QED BY <5>1
      <4>2. \A j \in Images : fair.granted # NoTurn /\ InTurn(j) =>
               /\ fair'.cursor = fair.cursor /\ fair'.replenish = fair.replenish
               /\ fair'.deficit = fair.deficit /\ passed'[j] = passed[j]
               /\ fair'.heads[j] = fair.heads[j]
        <5>1. f.granted = fair.granted /\ (f.granted # NoTurn => c.fair = f)
          BY <2>3 DEF OnlyHeads, Chosen
        <5> QED BY <1>8, <2>3, <3>1, <5>1 DEF OnlyHeads
      <4>3. fair'.granted = fair.granted
        BY <2>3, <2>5, <3>1 DEF OnlyHeads
      <4>4. \A j \in Images : /\ InTurn(j)' = InTurn(j)
                              /\ InTurn(j) => Ticket(j)' = Ticket(j)
        BY <1>8, <3>3, <3>4
      <4>5. \A j \in Images : fair.granted # NoTurn /\ InTurn(j) =>
               /\ fair'.cursor = fair.cursor /\ fair'.replenish = fair.replenish
               /\ fair'.deficit = fair.deficit /\ passed'[j] = passed[j]
               /\ Len(fair.heads[j]) <= Len(fair'.heads[j])
               /\ \A m \in 1 .. Len(fair.heads[j]) :
                    /\ fair'.heads[j][m].id = fair.heads[j][m].id
                    /\ fair'.heads[j][m].bytes = fair.heads[j][m].bytes
                    /\ fair.heads[j][m].ready => fair'.heads[j][m].ready
        BY <4>1, <4>2
      <4> QED BY <1>0, <4>1, <4>3, <4>4, <4>5, GrantFrame
    <3>7. ShareInv'
      BY <2>3, <3>1 DEF ShareInv, ShareOf, Visits, Unspent, Ahead
    <3>8. Domains'
      BY <1>0, <1>3, <1>6, <3>1, <3>2, WokenType DEF Domains
    <3> QED BY <1>7, <3>3, <3>4, <3>5, <3>6, <3>7, <3>8 DEF FrontendInv
  <2> QED BY <2>6, <2>7
<1> QED BY <1>10, <1>11

-----------------------------------------------------------------------------
(* A request leaves the frontier                                           *)

\* The queues without request k of queue q.
Removes(queue, qu, Q, q, k) ==
  /\ q \in Q /\ k \in 1 .. Len(queue[q])
  /\ \A p \in Q : p # q => qu[p] = queue[p]
  /\ Len(queue[q]) \in Nat /\ Len(qu[q]) = Len(queue[q]) - 1
  /\ \A n \in 1 .. Len(queue[q]) - 1 :
       qu[q][n] = IF n < k THEN queue[q][n] ELSE queue[q][n + 1]

\* The requests that are left are the others.
Leaves(queue, qu, Q, q, k) ==
  /\ \A p \in Q : \A n \in 1 .. Len(qu[p]) : \E m \in 1 .. Len(queue[p]) :
       qu[p][n] = queue[p][m] /\ (p = q => m # k)
  /\ \A p \in Q : \A m \in 1 .. Len(queue[p]) :
       (p = q => m # k) => \E n \in 1 .. Len(qu[p]) : qu[p][n] = queue[p][m]

LEMMA RemovesLeaves ==
  ASSUME NEW queue, NEW qu, NEW Q, NEW q, NEW k, Removes(queue, qu, Q, q, k)
  PROVE  Leaves(queue, qu, Q, q, k)
<1> DEFINE L == Len(queue[q])
<1>0. /\ k \in 1 .. L /\ L \in Nat /\ Len(qu[q]) = L - 1
      /\ \A p \in Q : p # q => qu[p] = queue[p]
      /\ \A n \in 1 .. L - 1 : qu[q][n] = IF n < k THEN queue[q][n] ELSE queue[q][n + 1]
  BY DEF Removes
<1> HIDE DEF L
<1>1. ASSUME NEW n \in 1 .. L - 1
      PROVE  \E m \in 1 .. L : qu[q][n] = queue[q][m] /\ m # k
  <2>1. CASE n < k
    <3>1. n \in 1 .. L /\ n # k /\ qu[q][n] = queue[q][n]
      BY <1>0, <2>1
    <3> QED BY <3>1
  <2>2. CASE ~(n < k)
    <3>1. n + 1 \in 1 .. L /\ n + 1 # k /\ qu[q][n] = queue[q][n + 1]
      BY <1>0, <2>2
    <3> QED BY <3>1
  <2> QED BY <2>1, <2>2
<1>2. ASSUME NEW m \in 1 .. L, m # k
      PROVE  \E n \in 1 .. L - 1 : qu[q][n] = queue[q][m]
  <2>1. CASE m < k
    <3>1. m \in 1 .. L - 1 /\ qu[q][m] = queue[q][m]
      BY <1>0, <1>2, <2>1
    <3> QED BY <3>1
  <2>2. CASE ~(m < k)
    <3>1. m - 1 \in 1 .. L - 1 /\ ~(m - 1 < k) /\ (m - 1) + 1 = m
      BY <1>0, <1>2, <2>2
    <3>2. qu[q][m - 1] = queue[q][m]
      BY <1>0, <3>1
    <3> QED BY <3>1, <3>2
  <2> QED BY <2>1, <2>2
<1>3. ASSUME NEW p \in Q, NEW n \in 1 .. Len(qu[p])
      PROVE  \E m \in 1 .. Len(queue[p]) : qu[p][n] = queue[p][m] /\ (p = q => m # k)
  <2>1. CASE p = q
    BY <1>0, <1>1, <1>3, <2>1 DEF L
  <2>2. CASE p # q
    BY <1>0, <1>3, <2>2
  <2> QED BY <2>1, <2>2
<1>4. ASSUME NEW p \in Q, NEW m \in 1 .. Len(queue[p]), p = q => m # k
      PROVE  \E n \in 1 .. Len(qu[p]) : qu[p][n] = queue[p][m]
  <2>1. CASE p = q
    BY <1>0, <1>2, <1>4, <2>1 DEF L
  <2>2. CASE p # q
    BY <1>0, <1>4, <2>2
  <2> QED BY <2>1, <2>2
<1> QED BY <1>3, <1>4 DEF Leaves

\* No slot is that of request k of queue q.
Unslotted(slot, queue, Q, q, k) ==
  \A s \in Names, p \in Q : slot[s][p] # queue[q][k].order

LEMMA RemoveSlots ==
  ASSUME NEW queue, NEW qu, NEW Q, NEW q, NEW k, Removes(queue, qu, Q, q, k),
         NEW slot, Slotted(slot, queue, Q), Unslotted(slot, queue, Q, q, k)
  PROVE  Slotted(slot, qu, Q)
<1>0. Leaves(queue, qu, Q, q, k)
  BY RemovesLeaves
<1>1. ASSUME NEW p \in Q, slot["head"][p] # 0
      PROVE  Len(qu[p]) > 0 /\ slot["head"][p] = qu[p][1].order
  <2>1. Len(queue[p]) > 0 /\ slot["head"][p] = queue[p][1].order
    BY <1>1 DEF Slotted
  <2>2. CASE p # q
    BY <2>1, <2>2 DEF Removes
  <2>3. CASE p = q
    <3>1. k # 1
      BY <1>1, <2>1, <2>3 DEF Unslotted, Names
    <3>2. Len(queue[q]) \in Nat /\ k \in 1 .. Len(queue[q]) /\ Len(qu[q]) = Len(queue[q]) - 1
      BY DEF Removes
    <3>3. 1 \in 1 .. Len(queue[q]) - 1 /\ 1 < k /\ Len(qu[q]) > 0
      BY <3>1, <3>2
    <3>4. qu[q][1] = queue[q][1]
      BY <3>3 DEF Removes
    <3> QED BY <2>1, <2>3, <3>3, <3>4
  <2> QED BY <2>2, <2>3
<1>2. ASSUME NEW p \in Q, slot["read"][p] # 0
      PROVE  /\ \E n \in 1 .. Len(qu[p]) : slot["read"][p] = qu[p][n].order
             /\ slot["head"][p] # slot["read"][p]
  <2>1. PICK m \in 1 .. Len(queue[p]) : slot["read"][p] = queue[p][m].order
    BY <1>2 DEF Slotted
  <2>2. p = q => m # k
    BY <2>1 DEF Unslotted, Names
  <2>3. \E n \in 1 .. Len(qu[p]) : qu[p][n] = queue[p][m]
    BY <1>0, <2>2 DEF Leaves
  <2> QED BY <1>2, <2>1, <2>3 DEF Slotted
<1> QED BY <1>1, <1>2 DEF Slotted

LEMMA RemoveTickets ==
  ASSUME NEW queue, NEW qu, NEW Q, NEW q, NEW k, Removes(queue, qu, Q, q, k),
         NEW slot, Unslotted(slot, queue, Q, q, k), NEW h \in Seq(Tickets),
         Backed(h, slot, queue, Q), Covered(h, slot, queue, Q)
  PROVE  Backed(h, slot, qu, Q) /\ Covered(h, slot, qu, Q)
<1>0. Leaves(queue, qu, Q, q, k)
  BY RemovesLeaves
<1>1. ASSUME NEW m \in 1 .. Len(h)
      PROVE  \E p \in Q :
               /\ h[m].id[2] # 0 /\ slot[h[m].id[1]][p] = h[m].id[2]
               /\ \E n \in 1 .. Len(qu[p]) :
                    /\ qu[p][n].order = h[m].id[2] /\ qu[p][n].bytes = h[m].bytes
                    /\ Data(qu[p][n])
  <2>0. h[m] \in Tickets
    OBVIOUS
  <2>1. h[m].id[1] \in Names
    BY <2>0 DEF Tickets
  <2>2. PICK p \in Q :
          /\ h[m].id[2] # 0 /\ slot[h[m].id[1]][p] = h[m].id[2]
          /\ \E n \in 1 .. Len(queue[p]) :
               /\ queue[p][n].order = h[m].id[2] /\ queue[p][n].bytes = h[m].bytes
               /\ Data(queue[p][n])
    BY DEF Backed
  <2>3. PICK n \in 1 .. Len(queue[p]) :
          /\ queue[p][n].order = h[m].id[2] /\ queue[p][n].bytes = h[m].bytes
          /\ Data(queue[p][n])
    BY <2>2
  <2>4. p = q => n # k
    BY <2>1, <2>2, <2>3 DEF Unslotted
  <2>5. \E x \in 1 .. Len(qu[p]) : qu[p][x] = queue[p][n]
    BY <1>0, <2>4 DEF Leaves
  <2> QED BY <2>2, <2>3, <2>5
<1>2. ASSUME NEW s \in Names, NEW p \in Q, NEW n \in 1 .. Len(qu[p]),
             slot[s][p] = qu[p][n].order, Data(qu[p][n])
      PROVE  \E m \in 1 .. Len(h) : h[m].id = <<s, slot[s][p]>>
  <2>1. PICK m \in 1 .. Len(queue[p]) : qu[p][n] = queue[p][m]
    BY <1>0 DEF Leaves
  <2> QED BY <1>2, <2>1 DEF Covered
<1>3. Backed(h, slot, qu, Q)
  BY <1>1 DEF Backed
<1>4. Covered(h, slot, qu, Q)
  BY <1>2 DEF Covered
<1> QED BY <1>3, <1>4

\* The slot of a request that leaves was its only one.
LEMMA VacateAll ==
  ASSUME NEW queue, NEW Q, NEW slot, slot \in [Names -> [Q -> Nat]],
         Slotted(slot, queue, Q), Ordered(queue, Q), NEW s \in Names, NEW q \in Q,
         NEW k \in 1 .. Len(queue[q]), slot[s][q] = queue[q][k].order,
         NEW sl, sl = [slot EXCEPT ![s][q] = 0]
  PROVE  Unslotted(sl, queue, Q, q, k)
<1>1. queue[q][k].order # 0
  BY DEF Ordered
<1>2. \A t \in Names, p \in Q : sl[t][p] = IF t = s /\ p = q THEN 0 ELSE slot[t][p]
  BY VacateSlots
<1>3. ASSUME NEW t \in Names, NEW p \in Q, sl[t][p] = queue[q][k].order
      PROVE  FALSE
  <2>1. ~(t = s /\ p = q) /\ slot[t][p] = slot[s][q] /\ slot[t][p] # 0
    BY <1>1, <1>2, <1>3
  <2> QED BY <2>1, OneSlot
<1> QED BY <1>3 DEF Unslotted

\* Orders of the requests that are left, against one more that is admitted.
LEMMA AdmitOrders ==
  ASSUME NEW i \in Images, QueueType(i), OrderInv(i), AdmitInv(i), NEW q, NEW k,
         Removes(frontier[i], frontier'[i], Queues(i), q, k), Eligible(i, q, k),
         program' = program, orders'[i] = orders[i],
         admitted'[i] = admitted[i] \cup {frontier[i][q][k]}
  PROVE  OrderInv(i)' /\ AdmitInv(i)'
<1> DEFINE queue == frontier[i]
           qu == frontier'[i]
           Q == Queues(i)
           r == queue[q][k]
<1>0. Removes(queue, qu, Q, q, k) /\ Queues(i)' = Q
  BY DEF Queues
<1>1. Leaves(queue, qu, Q, q, k)
  <2> HIDE DEF queue, qu, Q
  <2> QED BY <1>0, RemovesLeaves
<1>2. Ordered(queue, Q)
  BY OrderedIs
<1>3. orders[i] \in Nat /\ \A p \in Q : queue[p] \in Seq(Requests)
  BY DEF QueueType
<1>4. /\ \A p \in Q : \A n \in 1 .. Len(queue[p]) :
           queue[p][n].queue = p /\ 0 < queue[p][n].order /\ queue[p][n].order <= orders[i]
      /\ \A a \in admitted[i] : a.order <= orders[i]
  BY DEF OrderInv
<1>5. /\ \A a \in admitted[i] : \A p \in Q : \A n \in 1 .. Len(queue[p]) :
           queue[p][n].order < a.order =>
             ~Conflicts(queue[p][n], a) /\ (a.queue = p => a.kind = "read")
  BY DEF AdmitInv
<1>6. /\ k = 1 \/ r.kind = "read"
      /\ \A p \in Q : \A n \in 1 .. Len(queue[p]) :
           queue[p][n].order < r.order => ~Conflicts(queue[p][n], r)
  <2>1. \A x : x \in Discovered(i) <=>
           \E p \in Q : \E n \in 1 .. Len(queue[p]) : x = queue[p][n]
    BY <1>3, DiscoveredIs
  <2> QED BY <2>1 DEF Eligible
<1>7. /\ q \in Q /\ k \in 1 .. Len(queue[q]) /\ Len(queue[q]) \in Nat
      /\ Len(qu[q]) = Len(queue[q]) - 1 /\ (\A p \in Q : p # q => qu[p] = queue[p])
      /\ \A n \in 1 .. Len(queue[q]) - 1 :
           qu[q][n] = IF n < k THEN queue[q][n] ELSE queue[q][n + 1]
  BY DEF Removes
<1>8. admitted'[i] = admitted[i] \cup {r}
  OBVIOUS
<1> HIDE DEF queue, qu, Q, r
<1>9. ASSUME NEW p \in Q, NEW n \in 1 .. Len(qu[p]), NEW m \in 1 .. Len(qu[p]), n < m
      PROVE  qu[p][n].order < qu[p][m].order
  <2>1. CASE p # q
    <3>1. qu[p] = queue[p]
      BY <1>7, <2>1
    <3> QED BY <1>2, <1>9, <3>1 DEF Ordered
  <2>2. CASE p = q
    <3> DEFINE x == IF n < k THEN n ELSE n + 1
               y == IF m < k THEN m ELSE m + 1
    <3>1. /\ n \in 1 .. Len(queue[q]) - 1 /\ m \in 1 .. Len(queue[q]) - 1
          /\ x \in 1 .. Len(queue[q]) /\ y \in 1 .. Len(queue[q]) /\ x < y
      BY <1>7, <1>9, <2>2
    <3>2. qu[q][n] = queue[q][x] /\ qu[q][m] = queue[q][y]
      BY <1>7, <3>1
    <3> HIDE DEF x, y
    <3>3. queue[q][x].order < queue[q][y].order
      BY <1>2, <1>7, <3>1 DEF Ordered
    <3> QED BY <2>2, <3>2, <3>3
  <2> QED BY <2>1, <2>2
<1>10. ASSUME NEW p \in Q, NEW n \in 1 .. Len(qu[p])
       PROVE  qu[p][n].queue = p /\ 0 < qu[p][n].order /\ qu[p][n].order <= orders[i]
  BY <1>1, <1>4, SMTT(20) DEF Leaves
<1>11. ASSUME NEW o \in Q, NEW p \in Q, NEW n \in 1 .. Len(qu[o]), NEW m \in 1 .. Len(qu[p]),
              qu[o][n].order = qu[p][m].order
       PROVE  o = p
  <2>1. PICK x \in 1 .. Len(queue[o]) : qu[o][n] = queue[o][x]
    BY <1>1 DEF Leaves
  <2>2. PICK y \in 1 .. Len(queue[p]) : qu[p][m] = queue[p][y]
    BY <1>1 DEF Leaves
  <2> QED BY <1>2, <1>11, <2>1, <2>2 DEF Ordered
<1>12. \A a \in admitted'[i] : a.order <= orders[i]
  BY <1>4, <1>7, <1>8 DEF r
<1>13. OrderInv(i)'
  BY <1>0, <1>9, <1>10, <1>11, <1>12 DEF OrderInv, qu
<1>14. ASSUME NEW a \in admitted'[i], NEW p \in Q, NEW n \in 1 .. Len(qu[p]),
              qu[p][n].order < a.order
       PROVE  ~Conflicts(qu[p][n], a) /\ (a.queue = p => a.kind = "read")
  <2>1. PICK m \in 1 .. Len(queue[p]) : qu[p][n] = queue[p][m] /\ (p = q => m # k)
    BY <1>1 DEF Leaves
  <2>2. CASE a \in admitted[i]
    BY <1>5, <1>14, <2>1, <2>2
  <2>3. CASE a = r
    <3>1. ~Conflicts(qu[p][n], a)
      BY <1>6, <1>14, <2>1, <2>3
    <3>2. ASSUME a.queue = p
          PROVE  a.kind = "read"
      <4>1. p = q
        BY <1>4, <1>7, <2>3, <3>2 DEF r
      <4>2. queue[q][m].order < queue[q][k].order
        BY <1>14, <2>1, <2>3, <4>1 DEF r
      <4>3. m < k
        <5>1. m \in 1 .. Len(queue[q]) /\ m # k
          BY <2>1, <4>1
        <5>2. ~(k < m)
          <6>1. /\ queue[q][m].order \in Nat /\ queue[q][k].order \in Nat
                /\ k < m => queue[q][k].order < queue[q][m].order
            BY <1>2, <1>7, <5>1 DEF Ordered
          <6> QED BY <4>2, <6>1
        <5> QED BY <1>7, <5>1, <5>2
      <4>4. k # 1
        BY <1>7, <4>1, <4>3
      <4> QED BY <1>6, <2>3, <4>4
    <3> QED BY <3>1, <3>2
  <2> QED BY <1>8, <2>2, <2>3
<1>15. AdmitInv(i)'
  BY <1>0, <1>14 DEF AdmitInv, qu
<1> QED BY <1>13, <1>15

LEMMA RemovedRequest ==
  ASSUME NEW x \in Seq(Requests), NEW k \in 1 .. Len(x)
  PROVE  /\ RemoveAt(x, k) \in Seq(Requests) /\ Len(RemoveAt(x, k)) = Len(x) - 1
         /\ \A n \in 1 .. Len(x) - 1 :
              RemoveAt(x, k)[n] = IF n < k THEN x[n] ELSE x[n + 1]
BY RemoveAtIs

\* What an admission leaves of image i.
LEMMA AdmitImage ==
  ASSUME FrontendInv, NEW i \in Images, pass[i].step = "turn",
         NEW q, q = QueueAt(i), NEW k, k = pass[i].cand,
         program' = program, posted'[i] = posted[i], found'[i] = found[i],
         orders'[i] = orders[i],
         slots'[i] = [slots[i] EXCEPT ![Slot(k)][q] = 0],
         frontier'[i] = [frontier[i] EXCEPT ![q] = RemoveAt(frontier[i][q], k)],
         admitted'[i] = admitted[i] \cup {frontier[i][q][k]},
         pass'[i] \in [first : Queues(i), at : Queues(i), cand : Nat \ {0},
                       step : {"scan"}],
         IoType(i)', fair'.heads[i] \in Seq(Tickets),
         Without(fair.heads[i], fair'.heads[i], Ticket(i))
  PROVE  ImageInv(i)' /\ ~InTurn(i)'
<1> DEFINE slot == slots[i]
           sl == slots'[i]
           queue == frontier[i]
           qu == frontier'[i]
           Q == Queues(i)
           h == fair.heads[i]
           e == fair'.heads[i]
           s == Slot(k)
<1>0. /\ Domains /\ FairType(fair)
      /\ QueueType(i) /\ OrderInv(i) /\ AdmitInv(i) /\ SlotInv(i) /\ TicketInv(i)
      /\ TurnInv(i)
  BY DEF FrontendInv, ImageInv
<1>1. /\ q \in Q /\ k \in 1 .. Len(queue[q]) /\ Eligible(i, q, k)
      /\ slot[s][q] = queue[q][k].order /\ Ticket(i) = <<s, slot[s][q]>>
  <2>1. q \in Q
    BY <1>0, QueueAtIn
  <2> QED BY <1>0, <2>1 DEF TurnInv, Candidate, Ticket
<1>2. /\ queue \in [Q -> Seq(Requests)] /\ (\A p \in Q : Len(queue[p]) <= QueueSize)
      /\ slot \in [Names -> [Q -> Nat]] /\ s \in Names
  BY <1>0 DEF QueueType, Slot, Names
<1>3. Queues(i)' = Q
  BY DEF Queues
<1>4. /\ Slotted(slot, queue, Q) /\ Ordered(queue, Q)
      /\ h \in Seq(Tickets) /\ Backed(h, slot, queue, Q) /\ Covered(h, slot, queue, Q)
  BY <1>0, OrderedIs DEF SlotInv, TicketInv, FairType
<1>5. /\ sl = [slot EXCEPT ![s][q] = 0] /\ qu = [queue EXCEPT ![q] = RemoveAt(queue[q], k)]
      /\ Without(h, e, <<s, slot[s][q]>>) /\ e \in Seq(Tickets)
  BY <1>1
<1>6. ~InTurn(i)' /\ TurnInv(i)'
  BY DEF InTurn, TurnInv
<1> HIDE DEF slot, sl, queue, qu, Q, h, e, s
<1>7. /\ RemoveAt(queue[q], k) \in Seq(Requests)
      /\ Len(RemoveAt(queue[q], k)) = Len(queue[q]) - 1
      /\ \A n \in 1 .. Len(queue[q]) - 1 :
           RemoveAt(queue[q], k)[n] = IF n < k THEN queue[q][n] ELSE queue[q][n + 1]
  <2> DEFINE x == queue[q]
  <2>1. x \in Seq(Requests) /\ k \in 1 .. Len(x)
    BY <1>1, <1>2
  <2> HIDE DEF x
  <2>2. /\ RemoveAt(x, k) \in Seq(Requests) /\ Len(RemoveAt(x, k)) = Len(x) - 1
        /\ \A n \in 1 .. Len(x) - 1 : RemoveAt(x, k)[n] = IF n < k THEN x[n] ELSE x[n + 1]
    BY <2>1, RemovedRequest
  <2> QED BY <2>2 DEF x
<1>8. /\ qu \in [Q -> Seq(Requests)] /\ qu[q] = RemoveAt(queue[q], k)
      /\ \A p \in Q : p # q => qu[p] = queue[p]
  BY <1>1, <1>2, <1>5, <1>7
<1>9. Removes(queue, qu, Q, q, k)
  <2>1. queue[q] \in Seq(Requests)
    BY <1>1, <1>2
  <2>2. Len(queue[q]) \in Nat
    BY <2>1
  <2> QED BY <1>1, <1>7, <1>8, <2>2 DEF Removes
<1>10. \A p \in Q : Len(qu[p]) <= QueueSize
  <2> TAKE p \in Q
  <2>1. CASE p # q
    BY <1>2, <1>8, <2>1
  <2>2. CASE p = q
    <3>1. Len(queue[q]) \in Nat /\ Len(queue[q]) <= QueueSize /\ Len(qu[q]) = Len(queue[q]) - 1
      BY <1>1, <1>2, <1>9 DEF Removes
    <3> QED BY <2>2, <3>1, Constants
  <2> QED BY <2>1, <2>2
<1>11. Slotted(sl, queue, Q) /\ sl \in [Names -> [Q -> Nat]]
  BY <1>1, <1>2, <1>4, <1>5, VacateSlots
<1>12. Unslotted(sl, queue, Q, q, k)
  BY <1>1, <1>2, <1>4, <1>5, VacateAll
<1>13. Backed(e, sl, queue, Q) /\ Covered(e, sl, queue, Q)
  BY <1>1, <1>2, <1>4, <1>5, VacateMatch
<1>14. Slotted(sl, qu, Q)
  BY <1>9, <1>11, <1>12, RemoveSlots
<1>15. Backed(e, sl, qu, Q) /\ Covered(e, sl, qu, Q)
  BY <1>5, <1>9, <1>12, <1>13, RemoveTickets
<1>16. OrderInv(i)' /\ AdmitInv(i)'
  <2>1. /\ Removes(frontier[i], frontier'[i], Queues(i), q, k)
    BY <1>9 DEF queue, qu, Q
  <2> QED BY <1>0, <1>1, <2>1, AdmitOrders
<1>17. QueueType(i)'
  <2>1. posted[i] \in [Q -> Nat] /\ found[i] \in [Q -> Nat]
        /\ (\A p \in Q : posted[i][p] <= Len(program[i][p]) /\ found[i][p] <= posted[i][p])
        /\ orders[i] \in Nat /\ admitted[i] \in SUBSET Requests
    BY <1>0 DEF QueueType, Q
  <2>2. admitted'[i] \in SUBSET Requests
    <3>1. frontier[i][q][k] \in Requests
      BY <1>1, <1>2 DEF queue
    <3> QED BY <2>1, <3>1
  <2>3. pass'[i] \in [first : Q, at : Q, cand : Nat \ {0},
                      step : {"idle", "scan", "turn", "refused"}]
    BY DEF Q
  <2> QED BY <1>3, <1>8, <1>10, <1>11, <2>1, <2>2, <2>3 DEF QueueType, qu, sl
<1>18. SlotInv(i)' /\ TicketInv(i)'
  BY <1>3, <1>5, <1>14, <1>15 DEF SlotInv, TicketInv, Without, sl, qu, e
<1> QED BY <1>6, <1>16, <1>17, <1>18 DEF ImageInv

\* What the storage takes stays within its limits.
LEMMA EnqueueType ==
  ASSUME Domains, NEW i \in Images, IoType(i), NEW r \in Requests,
         HasRoom(i, r), Enqueue(i, r)
  PROVE  /\ IoType(i)' /\ DOMAIN pending' = Images /\ DOMAIN wal' = Images
         /\ \A j \in Images : j # i => pending'[j] = pending[j] /\ wal'[j] = wal[j]
<1>1. /\ pending' \in {pending, [pending EXCEPT ![i] = @ \cup {r}]}
      /\ wal' = IF r.kind = "write" THEN [wal EXCEPT ![i].used = @ + r.bytes] ELSE wal
  BY DEF Enqueue
<1>2. DOMAIN pending = Images /\ DOMAIN wal = Images
  BY DEF Domains
<1>3. /\ DOMAIN pending' = Images /\ pending'[i] \in SUBSET Requests
      /\ \A j \in Images : j # i => pending'[j] = pending[j]
  BY <1>1, <1>2 DEF IoType
<1>4. /\ DOMAIN wal' = Images
      /\ wal'[i] \in [used : 0 .. WalRoom, wanted : BOOLEAN, rotated : BOOLEAN]
      /\ \A j \in Images : j # i => wal'[j] = wal[j]
  <2>1. wal[i] \in [used : 0 .. WalRoom, wanted : BOOLEAN, rotated : BOOLEAN]
    BY DEF IoType
  <2>2. CASE r.kind = "write"
    <3> DEFINE u == wal[i].used + r.bytes
    <3>1. u \in 0 .. WalRoom
      <4>1. r.bytes \in Nat /\ wal[i].used \in Nat
        BY <2>1 DEF Requests
      <4>2. wal[i].used + r.bytes <= WalRoom
        BY <2>2 DEF HasRoom
      <4> QED BY <4>1, <4>2, Constants
    <3>2. wal' = [wal EXCEPT ![i].used = u]
      BY <1>1, <2>2
    <3> HIDE DEF u
    <3>3. wal'[i] = [wal[i] EXCEPT !.used = u]
      BY <1>2, <3>2
    <3>4. wal'[i] \in [used : 0 .. WalRoom, wanted : BOOLEAN, rotated : BOOLEAN]
      BY <2>1, <3>1, <3>3
    <3> QED BY <1>2, <3>2, <3>4
  <2>3. CASE r.kind # "write"
    BY <1>1, <1>2, <2>1, <2>3
  <2> QED BY <2>2, <2>3
<1> QED BY <1>3, <1>4 DEF IoType

\* The ticket of the turn is that of the candidate.
LEMMA TurnBytes ==
  ASSUME FrontendInv, NEW i \in Images, InTurn(i),
         NEW n \in 1 .. Len(fair.heads[i]), fair.heads[i][n].id = Ticket(i)
  PROVE  fair.heads[i][n].bytes = Candidate(i).bytes
<1> DEFINE queue == frontier[i]
           Q == Queues(i)
           q == QueueAt(i)
           k == pass[i].cand
<1>0. /\ Domains /\ QueueType(i) /\ OrderInv(i) /\ TicketInv(i) /\ TurnInv(i)
  BY DEF FrontendInv, ImageInv
<1>1. /\ q \in Q /\ k \in 1 .. Len(queue[q]) /\ Candidate(i) = queue[q][k]
      /\ fair.heads[i][n].id[2] = queue[q][k].order
  <2>1. q \in Q
    BY <1>0, QueueAtIn
  <2> QED BY <1>0, <2>1 DEF TurnInv, InTurn, Candidate, Ticket
<1>2. Ordered(queue, Q)
  BY <1>0, OrderedIs
<1>3. PICK p \in Q : \E m \in 1 .. Len(queue[p]) :
         /\ queue[p][m].order = fair.heads[i][n].id[2]
         /\ queue[p][m].bytes = fair.heads[i][n].bytes
  BY <1>0 DEF TicketInv, Backed
<1> HIDE DEF queue, Q, q, k
<1>4. PICK m \in 1 .. Len(queue[p]) :
         /\ queue[p][m].order = queue[q][k].order
         /\ queue[p][m].bytes = fair.heads[i][n].bytes
  BY <1>1, <1>3
<1>5. p = q /\ m = k
  BY <1>1, <1>2, <1>4, OneOrder
<1> QED BY <1>1, <1>4, <1>5

\* A request that is not a data request has no ticket.
LEMMA NoTicket ==
  ASSUME FrontendInv, NEW i \in Images, pass[i].step = "turn", ~Data(Candidate(i))
  PROVE  Without(fair.heads[i], fair.heads[i], Ticket(i))
<1> DEFINE queue == frontier[i]
           Q == Queues(i)
           q == QueueAt(i)
           k == pass[i].cand
           h == fair.heads[i]
<1>0. /\ Domains /\ QueueType(i) /\ OrderInv(i) /\ TicketInv(i) /\ TurnInv(i)
  BY DEF FrontendInv, ImageInv
<1>1. /\ q \in Q /\ k \in 1 .. Len(queue[q]) /\ Candidate(i) = queue[q][k]
      /\ Ticket(i)[2] = queue[q][k].order
  <2>1. q \in Q
    BY <1>0, QueueAtIn
  <2> QED BY <1>0, <2>1 DEF TurnInv, Candidate, Ticket
<1>2. Ordered(queue, Q)
  BY <1>0, OrderedIs
<1>3. ASSUME NEW n \in 1 .. Len(h), h[n].id = Ticket(i)
      PROVE  FALSE
  <2>1. PICK p \in Q : \E m \in 1 .. Len(queue[p]) :
           queue[p][m].order = h[n].id[2] /\ Data(queue[p][m])
    BY <1>0 DEF TicketInv, Backed
  <2> HIDE DEF queue, Q, q, k, h
  <2>2. PICK m \in 1 .. Len(queue[p]) :
           queue[p][m].order = queue[q][k].order /\ Data(queue[p][m])
    BY <1>1, <1>3, <2>1
  <2>3. p = q /\ m = k
    BY <1>1, <1>2, <2>2, OneOrder
  <2> QED BY <1>1, <2>2, <2>3
<1>4. Distinct(h)
  BY <1>0, DistinctOf
<1> HIDE DEF h
<1>5. Without(h, h, Ticket(i))
  BY <1>3, <1>4 DEF Without
<1> QED BY <1>5 DEF h

LEMMA AdmitStep ==
  ASSUME FrontendInv, NEW i \in Images, Admit(i)
  PROVE  FrontendInv'
<1> DEFINE q == QueueAt(i)
           k == pass[i].cand
           r == Candidate(i)
           id == Ticket(i)
           g == Committed(fair, i, id)
<1>0. /\ Domains /\ FairType(fair) /\ GrantInv /\ HostInv
      /\ \A j \in Images : ImageInv(j)
      /\ QueueType(i) /\ IoType(i) /\ TurnInv(i) /\ TicketInv(i)
  BY DEF FrontendInv, ImageInv
<1>1. /\ pass[i].step = "turn" /\ Admits(i, r) /\ Enqueue(i, r)
      /\ slots' = [slots EXCEPT ![i][Slot(k)][q] = 0]
      /\ frontier' = [frontier EXCEPT ![i][q] = RemoveAt(@, k)]
      /\ admitted' = [admitted EXCEPT ![i] = @ \cup {r}]
      /\ pass' = [pass EXCEPT ![i].cand = 1, ![i].step = "scan"]
      /\ UNCHANGED <<guest, found, orders, done, gate>>
  BY DEF Admit
<1>2. Data(r) => WakeNext(g, {i}) /\ passed' = Overtaken(i, r.bytes)
  BY DEF Admit
<1>3. ~Data(r) => fair' = fair /\ wake' = Woken({i}) /\ passed' = passed
  BY DEF Admit
<1>4. /\ program' = program /\ posted' = posted /\ found' = found /\ orders' = orders
      /\ host' = host /\ pauses' = pauses
  BY <1>1 DEF guest, gate
<1>5. /\ q \in Queues(i) /\ k \in 1 .. Len(frontier[i][q]) /\ r = frontier[i][q][k]
      /\ r \in Requests
  <2>1. q \in Queues(i)
    BY <1>0, QueueAtIn
  <2>2. frontier[i][q] \in Seq(Requests)
    BY <1>0, <2>1 DEF QueueType
  <2>3. k \in 1 .. Len(frontier[i][q]) /\ r = frontier[i][q][k]
    BY <1>0, <1>1 DEF TurnInv, Candidate
  <2> QED BY <2>1, <2>2, <2>3
<1>6. /\ IoType(i)' /\ DOMAIN pending' = Images /\ DOMAIN wal' = Images
      /\ \A j \in Images : j # i => pending'[j] = pending[j] /\ wal'[j] = wal[j]
  <2>1. HasRoom(i, r)
    BY <1>1 DEF Admits
  <2> QED BY <1>0, <1>1, <1>5, <2>1, EnqueueType
<1>7. HostInv'
  <2>1. ~host.running
    BY <1>0, <1>1 DEF Admits, Enters, HostInv
  <2> QED BY <1>0, <1>4, <2>1 DEF HostInv, CollectionAlone
<1>8. /\ DOMAIN slots' = Images /\ DOMAIN frontier' = Images /\ DOMAIN admitted' = Images
      /\ DOMAIN pass' = Images
      /\ \A j \in Images : j # i => /\ slots'[j] = slots[j] /\ frontier'[j] = frontier[j]
                                    /\ admitted'[j] = admitted[j] /\ pass'[j] = pass[j]
  BY <1>0, <1>1 DEF Domains
<1>9. /\ slots'[i] = [slots[i] EXCEPT ![Slot(k)][q] = 0]
      /\ frontier'[i] = [frontier[i] EXCEPT ![q] = RemoveAt(frontier[i][q], k)]
      /\ admitted'[i] = admitted[i] \cup {frontier[i][q][k]}
  BY <1>0, <1>1, <1>5 DEF Domains
<1>10. pass'[i] \in [first : Queues(i), at : Queues(i), cand : Nat \ {0}, step : {"scan"}]
  <2>1. pass'[i] = [pass[i] EXCEPT !.cand = 1, !.step = "scan"]
    BY <1>0, <1>1 DEF Domains
  <2>2. pass[i] \in [first : Queues(i), at : Queues(i), cand : Nat \ {0},
                     step : {"idle", "scan", "turn", "refused"}]
    BY <1>0 DEF QueueType
  <2>3. pass'[i] = [first |-> pass[i].first, at |-> pass[i].at, cand |-> 1, step |-> "scan"]
    BY <2>1, <2>2
  <2> QED BY <2>2, <2>3
<1>11. ASSUME fair'.heads[i] \in Seq(Tickets), Without(fair.heads[i], fair'.heads[i], id)
       PROVE  ImageInv(i)' /\ ~InTurn(i)'
  <2>1. /\ q = QueueAt(i) /\ k = pass[i].cand /\ pass[i].step = "turn"
        /\ program' = program /\ posted'[i] = posted[i] /\ found'[i] = found[i]
        /\ orders'[i] = orders[i] /\ IoType(i)'
    BY <1>1, <1>4, <1>6
  <2>2. Without(fair.heads[i], fair'.heads[i], Ticket(i))
    BY <1>11
  <2> HIDE DEF q, k, r, id
  <2> QED BY <1>9, <1>10, <1>11, <2>1, <2>2, AdmitImage
<1>12. ASSUME NEW j \in Images, j # i, fair'.heads[j] = fair.heads[j]
       PROVE  ImageInv(j)' /\ InTurn(j)' = InTurn(j) /\ Ticket(j)' = Ticket(j)
  <2>1. SameIds(fair.heads[j], fair'.heads[j])
    BY <1>0, <1>12, SameHeads
  <2> QED BY <1>0, <1>4, <1>6, <1>8, <1>12, <2>1, ImageFrame
<1>13. CASE ~Data(r)
  <2>1. fair' = fair /\ wake' = Woken({i}) /\ passed' = passed
    BY <1>3, <1>13
  <2>2. ImageInv(i)' /\ ~InTurn(i)' /\ ~InTurn(i)
    <3>1. fair.heads[i] \in Seq(Tickets)
      BY <1>0 DEF FairType
    <3>2. Without(fair.heads[i], fair.heads[i], id)
      BY <1>1, <1>13, NoTicket
    <3>3. ~InTurn(i)
      BY <1>13 DEF InTurn
    <3> QED BY <1>11, <2>1, <3>1, <3>2, <3>3
  <2>3. InTurn(i)' = InTurn(i)
    BY <2>2 DEF InTurn, Data, Pool
  <2>4. \A j \in Images : /\ ImageInv(j)' /\ InTurn(j)' = InTurn(j)
                          /\ InTurn(j) => Ticket(j)' = Ticket(j)
    BY <1>12, <2>1, <2>2, <2>3
  <2>5. Domains'
    BY <1>0, <1>4, <1>6, <1>8, <2>1, WokenType DEF Domains
  <2> QED BY <1>7, <2>1, <2>4, <2>5, QuietInv
<1>14. CASE Data(r)
  <2>1. InTurn(i)
    BY <1>1, <1>14 DEF InTurn
  <2>2. /\ fair.cursor = i /\ ~fair.replenish
        /\ \A j \in Images : InTurn(j) => j = i
    BY <2>1, GrantedIs
  <2>3. PICK n \in 1 .. Len(fair.heads[i]) :
          fair.heads[i][n].id = id /\ fair.heads[i][n].bytes <= fair.deficit[i]
    BY <2>1, GrantedIs
  <2>4. fair.heads[i][n].bytes = r.bytes
    BY <2>1, <2>3, TurnBytes
  <2>5. r.bytes \in 1 .. Quantum /\ r.bytes <= fair.deficit[i]
    BY <1>5, <2>3, <2>4 DEF Requests
  <2>6. Pays(fair, g, i, id, r.bytes)
    <3>1. Distinct(fair.heads[i]) /\ FairType(fair)
      BY <1>0, DistinctOf
    <3> HIDE DEF id, r
    <3> QED BY <2>3, <2>4, <3>1, PayIs
  <2>7. PICK c \in Choose(g) :
          fair' = c.fair /\ wake' = Woken({i} \cup (Images \cap {c.pick.image}))
    BY <1>2, <1>14 DEF WakeNext
  <2>8. passed' = Overtaken(i, r.bytes)
    BY <1>2, <1>14
  <2> HIDE DEF g, r, id
  <2>9. /\ FairType(g) /\ Without(fair.heads[i], g.heads[i], id)
        /\ \A j \in Images : j # i => g.heads[j] = fair.heads[j]
        /\ g.cursor = fair.cursor /\ g.replenish = fair.replenish /\ g.granted = NoTurn
        /\ g.deficit = [fair.deficit EXCEPT ![i] = @ - r.bytes]
    BY <2>6 DEF Pays
  <2>10. /\ passed \in [Images -> Nat] /\ \A j \in Images : ShareOf(fair, j, passed[j])
    BY DEF FrontendInv, Domains, ShareInv
  <2>11. /\ passed' \in [Images -> Nat] /\ passed'[i] = 0
         /\ \A j \in Images : j # i =>
              passed'[j] = IF ReadyAt(fair.heads[j]) = {} THEN 0 ELSE passed[j] + r.bytes
    BY <2>5, <2>8, <2>10 DEF Overtaken
  <2>12. \A j \in Images : ShareOf(g, j, passed'[j])
    <3> TAKE j \in Images
    <3>1. CASE j = i
      BY <2>9, <2>11, <3>1, ShareZero
    <3>2. CASE j # i
      <4>1. passed[j] \in Nat /\ ShareOf(fair, j, passed[j]) /\ FairType(fair)
        BY <1>0, <2>10
      <4>2. ShareOf(g, j, IF ReadyAt(fair.heads[j]) = {} THEN 0 ELSE passed[j] + r.bytes)
        BY <2>2, <2>5, <2>9, <3>2, <4>1, CommitShare
      <4> QED BY <2>11, <3>2, <4>2
    <3> QED BY <3>1, <3>2
  <2>13. /\ FairType(fair)' /\ ShareInv' /\ fair'.heads = g.heads /\ fair'.granted = NoTurn
    BY <2>7, <2>9, <2>11, <2>12, WakeFrame
  <2>14. ImageInv(i)' /\ ~InTurn(i)'
    <3>1. g.heads[i] \in Seq(Tickets)
      BY <2>9 DEF FairType
    <3> QED BY <1>11, <2>9, <2>13, <3>1
  <2>15. \A j \in Images : ImageInv(j)' /\ ~InTurn(j)'
    <3> TAKE j \in Images
    <3>1. CASE j # i
      <4>1. fair'.heads[j] = fair.heads[j] /\ ~InTurn(j)
        BY <2>2, <2>9, <2>13, <3>1
      <4> QED BY <1>12, <3>1, <4>1
    <3> QED BY <2>14, <3>1
  <2>16. GrantInv'
    BY <2>13, <2>15 DEF GrantInv
  <2>17. Domains'
    BY <1>0, <1>4, <1>6, <1>8, <2>7, <2>11, WokenType DEF Domains
  <2> QED BY <1>7, <2>13, <2>15, <2>16, <2>17 DEF FrontendInv
<1> QED BY <1>13, <1>14

-----------------------------------------------------------------------------
(* The invariant holds                                                     *)

LEMMA InitImage ==
  ASSUME Init, NEW i \in Images
  PROVE  ImageInv(i)
<1>0. /\ program \in Programs
      /\ posted[i] = [q \in Queues(i) |-> 0] /\ found[i] = [q \in Queues(i) |-> 0]
      /\ frontier[i] = [q \in Queues(i) |-> <<>>] /\ orders[i] = 0
      /\ slots[i] = [s \in Names |-> [q \in Queues(i) |-> 0]]
      /\ pass[i] = [first |-> NQueues(i) - 1, at |-> 0, cand |-> 1, step |-> "idle"]
      /\ pending[i] = {} /\ admitted[i] = {}
      /\ wal[i] = [used |-> 0, wanted |-> FALSE, rotated |-> FALSE]
      /\ fair.heads[i] = <<>>
  BY DEF Init, Names
<1> DEFINE Q == Queues(i)
<1>1. /\ NQueues(i) - 1 \in Q /\ 0 \in Q
      /\ \A q \in Q : program[i][q] \in Seq(Posted)
  BY <1>0, QueuesHold, QueuesOf
<1>2. /\ posted[i] \in [Q -> Nat] /\ found[i] \in [Q -> Nat]
      /\ \A q \in Q : posted[i][q] = 0 /\ found[i][q] = 0
      /\ frontier[i] \in [Q -> Seq(Requests)]
      /\ \A q \in Q : frontier[i][q] = <<>> /\ Len(frontier[i][q]) = 0
  BY <1>0
<1>3. slots[i] \in [Names -> [Q -> Nat]] /\ \A s \in Names, q \in Q : slots[i][s][q] = 0
  BY <1>0
<1>4. pass[i] \in [first : Q, at : Q, cand : Nat \ {0},
                   step : {"idle", "scan", "turn", "refused"}]
  BY <1>0, <1>1
<1>5. QueueType(i)
  <2>1. \A q \in Q : Len(program[i][q]) \in Nat
    BY <1>1
  <2>2. /\ \A q \in Q : posted[i][q] <= Len(program[i][q]) /\ found[i][q] <= posted[i][q]
        /\ \A q \in Q : Len(frontier[i][q]) <= QueueSize
    BY <1>2, <2>1, Constants
  <2> QED BY <1>0, <1>2, <1>3, <1>4, <2>2 DEF QueueType
<1>6. IoType(i)
  BY <1>0, Constants DEF IoType
<1>7. OrderInv(i) /\ AdmitInv(i)
  BY <1>0, <1>2 DEF OrderInv, AdmitInv
<1>8. TurnInv(i)
  BY <1>0 DEF TurnInv
<1>9. SlotInv(i)
  BY <1>3 DEF SlotInv, Slotted, Names
<1>10. TicketInv(i)
  BY <1>0, <1>2 DEF TicketInv, Backed, Covered, Distinct
<1> QED BY <1>5, <1>6, <1>7, <1>8, <1>9, <1>10 DEF ImageInv

LEMMA InitInv == Init => FrontendInv
<1> SUFFICES ASSUME Init PROVE FrontendInv
  OBVIOUS
<1>1. Domains
  BY DEF Init, Domains
<1>2. fair = [heads |-> [i \in Images |-> <<>>], deficit |-> [i \in Images |-> 0],
              cursor |-> 0, replenish |-> TRUE, granted |-> NoTurn, released |-> FALSE]
  BY DEF Init
<1>3. FairType(fair)
  <2>1. 0 \in Images /\ 0 \in 0 .. 2 * Quantum - 1
    BY Constants DEF Images
  <2>2. [i \in Images |-> <<>>] \in [Images -> Seq(Tickets)]
    OBVIOUS
  <2>3. [i \in Images |-> 0] \in [Images -> 0 .. 2 * Quantum - 1]
    BY <2>1
  <2> QED BY <1>2, <2>1, <2>2, <2>3, NoTurnIn DEF FairType
<1>4. \A i \in Images : ImageInv(i)
  BY InitImage
<1>5. GrantInv
  <2>1. \A i \in Images : ~InTurn(i)
    BY DEF Init, InTurn
  <2> QED BY <1>2, <2>1 DEF GrantInv
<1>6. HostInv
  BY Constants DEF Init, HostInv, CollectionAlone
<1>7. ShareInv
  <2>1. \A i \in Images : passed[i] = 0
    BY DEF Init
  <2> QED BY <1>3, <2>1, ShareZero DEF ShareInv
<1> QED BY <1>1, <1>3, <1>4, <1>5, <1>6, <1>7 DEF FrontendInv

LEMMA StutterInv ==
  ASSUME FrontendInv, UNCHANGED vars
  PROVE  FrontendInv'
<1>1. /\ UNCHANGED <<guest, queues, slots, pass, fair, past>>
      /\ pending' = pending /\ wal' = wal /\ wake' = wake /\ host' = host /\ pauses' = pauses
  BY DEF vars, io, gate
<1>2. Domains /\ HostInv /\ \A j \in Images : IoType(j)
  BY DEF FrontendInv, ImageInv
<1>3. HostInv'
  BY <1>1, <1>2 DEF HostInv, CollectionAlone
<1>4. \A j \in Images : pending'[j] \subseteq pending[j] /\ IoType(j)'
  BY <1>1, <1>2 DEF IoType
<1>5. DOMAIN pending' = Images /\ DOMAIN wal' = Images /\ wake' \in [Images -> BOOLEAN]
  BY <1>1, <1>2 DEF Domains
<1> QED BY <1>1, <1>3, <1>4, <1>5, CalmInv

LEMMA NextInv == FrontendInv /\ [Next]_vars => FrontendInv'
<1> SUFFICES ASSUME FrontendInv, [Next]_vars PROVE FrontendInv'
  OBVIOUS
<1>1. ASSUME NEW i \in Images, NEW q \in Queues(i), Post(i, q)
      PROVE  FrontendInv'
  BY <1>1, PostInv
<1>2. ASSUME NEW i \in Images, FrontendStep(i)
      PROVE  FrontendInv'
  <2>1. CASE StartPass(i)
    BY <2>1, StartPassInv
  <2>2. CASE NextQueue(i)
    BY <2>2, NextQueueInv
  <2>3. CASE EndPass(i) \/ Deny(i)
    BY <2>3, PassInv
  <2>4. CASE Poll(i)
    BY <2>4, PollInv
  <2>5. CASE GiveUp(i)
    BY <2>5, GiveUpInv
  <2>6. CASE Admit(i)
    BY <2>6, AdmitStep
  <2>7. CASE Refuse(i)
    BY <2>7, RefuseInv
  <2> QED BY <1>2, <2>1, <2>2, <2>3, <2>4, <2>5, <2>6, <2>7 DEF FrontendStep
<1>3. ASSUME NEW i \in Images, Complete(i)
      PROVE  FrontendInv'
  BY <1>3, CompleteInv
<1>4. ASSUME NEW i \in Images, Rotate(i)
      PROVE  FrontendInv'
  BY <1>4, RotateInv
<1>5. ASSUME NEW i \in Images, Reopen(i)
      PROVE  FrontendInv'
  BY <1>5, ReopenInv
<1>6. CASE Pause \/ HostStep
  BY <1>6, PauseInv DEF HostStep
<1>7. CASE UNCHANGED vars
  BY <1>7, StutterInv
<1> QED BY <1>1, <1>2, <1>3, <1>4, <1>5, <1>6, <1>7 DEF Next

\* Every reachable state satisfies the invariant: types and limits, ring order
\* and admission order, slots against tickets, the turn in progress, the pause
\* of the host and the shares of bytes (fair.rs, frontend.rs, admission.rs).
THEOREM FrontendHolds == Spec => []FrontendInv
<1>1. Init => FrontendInv
  BY InitInv
<1>2. FrontendInv /\ [Next]_vars => FrontendInv'
  BY NextInv
<1> QED BY <1>1, <1>2, PTL DEF Spec

-----------------------------------------------------------------------------
(* What the invariant says                                                 *)

LEMMA InOrder == FrontendInv => AdmittedInOrder
<1> SUFFICES ASSUME FrontendInv, NEW i \in Images, NEW a \in admitted[i],
                    NEW w \in Discovered(i), w.order < a.order
             PROVE  ~Conflicts(w, a) /\ (a.queue = w.queue => a.kind = "read")
  BY DEF AdmittedInOrder
<1>1. QueueType(i) /\ OrderInv(i) /\ AdmitInv(i)
  BY DEF FrontendInv, ImageInv
<1>2. \A q \in Queues(i) : frontier[i][q] \in Seq(Requests)
  BY <1>1 DEF QueueType
<1>3. PICK q \in Queues(i) : \E n \in 1 .. Len(frontier[i][q]) : w = frontier[i][q][n]
  BY <1>2, DiscoveredIs
<1>4. PICK n \in 1 .. Len(frontier[i][q]) : w = frontier[i][q][n]
  BY <1>3
<1>5. w.queue = q
  BY <1>1, <1>4 DEF OrderInv
<1> QED BY <1>1, <1>4, <1>5 DEF AdmitInv

LEMMA Typed == FrontendInv => TypeOK
<1> SUFFICES ASSUME FrontendInv PROVE TypeOK
  OBVIOUS
<1>0. Domains /\ FairType(fair) /\ HostInv /\ \A i \in Images : QueueType(i) /\ IoType(i)
  BY DEF FrontendInv, ImageInv
<1>1. program \in Programs /\ wake \in [Images -> BOOLEAN]
  BY <1>0 DEF Domains
<1>2. ASSUME NEW i \in Images, NEW q \in Queues(i)
      PROVE  /\ posted[i][q] \in 0 .. Len(program[i][q])
             /\ found[i][q] \in 0 .. posted[i][q]
             /\ Range(frontier[i][q]) \subseteq Requests
             /\ Len(frontier[i][q]) <= QueueSize
  <2>1. /\ posted[i][q] \in Nat /\ found[i][q] \in Nat
        /\ posted[i][q] <= Len(program[i][q]) /\ found[i][q] <= posted[i][q]
        /\ frontier[i][q] \in Seq(Requests) /\ Len(frontier[i][q]) <= QueueSize
    BY <1>0 DEF QueueType
  <2>2. Len(program[i][q]) \in Nat
    <3>1. program[i][q] \in Seq(Posted)
      BY <1>1, QueuesOf
    <3> QED BY <3>1
  <2>3. Range(frontier[i][q]) \subseteq Requests
    BY <2>1 DEF Range
  <2> QED BY <2>1, <2>2, <2>3
<1>3. orders \in [Images -> Nat]
  BY <1>0 DEF Domains
<1>4. ASSUME NEW i \in Images
      PROVE  /\ slots[i] \in [{"head", "read"} -> [Queues(i) -> Nat]]
             /\ pass[i].step \in {"idle", "scan", "turn", "refused"}
             /\ pass[i].at \in Queues(i) /\ pass[i].first \in Queues(i)
             /\ fair.deficit[i] \in 0 .. 2 * Quantum - 1
             /\ pending[i] \subseteq Requests
             /\ wal[i].used \in 0 .. WalRoom
  <2>1. /\ slots[i] \in [{"head", "read"} -> [Queues(i) -> Nat]]
        /\ pass[i] \in [first : Queues(i), at : Queues(i), cand : Nat \ {0},
                        step : {"idle", "scan", "turn", "refused"}]
    BY <1>0 DEF QueueType, Names
  <2>2. /\ pending[i] \subseteq Requests
        /\ wal[i] \in [used : 0 .. WalRoom, wanted : BOOLEAN, rotated : BOOLEAN]
    BY <1>0 DEF IoType
  <2>3. fair.deficit[i] \in 0 .. 2 * Quantum - 1
    BY <1>0 DEF FairType
  <2> QED BY <2>1, <2>2, <2>3
<1>5. fair.cursor \in Images /\ fair.replenish \in BOOLEAN
  BY <1>0 DEF FairType
<1>6. host \in [paused : BOOLEAN, running : BOOLEAN] /\ pauses \in 0 .. MaxPauses
  BY <1>0 DEF HostInv
<1> QED BY <1>1, <1>2, <1>3, <1>4, <1>5, <1>6 DEF TypeOK

\* As many orders as tickets.
LEMMA CountTickets ==
  ASSUME NEW h \in Seq(Tickets), Distinct(h), NEW S,
         S = {id[2] : id \in {t.id : t \in Range(h)}}
  PROVE  Cardinality(S) = Len(h)
<1> DEFINE F == [m \in 1 .. Len(h) |-> h[m].id[2]]
           n == Len(h)
<1>0. n \in Nat /\ DOMAIN h = 1 .. n
  OBVIOUS
<1>1. \A x : x \in S <=> \E m \in 1 .. n : x = h[m].id[2]
  BY <1>0 DEF Range
<1> HIDE DEF n
<1>2. DOMAIN F = 1 .. n /\ \A m \in 1 .. n : F[m] = h[m].id[2]
  BY DEF n
<1> HIDE DEF F
<1>3. F \in [1 .. n -> S]
  <2>1. F = [m \in 1 .. n |-> h[m].id[2]]
    BY DEF F, n
  <2> QED BY <1>1, <2>1
<1>4. F \in Injection(1 .. n, S)
  <2>1. \A a, b \in DOMAIN F : F[a] = F[b] => a = b
    BY <1>2 DEF Distinct, n
  <2> QED BY <1>3, <2>1 DEF Injection, IsInjective
<1>5. F \in Surjection(1 .. n, S)
  <2>1. \A t \in S : \E m \in 1 .. n : F[m] = t
    BY <1>1, <1>2
  <2> QED BY <1>3, <2>1 DEF Surjection
<1>6. ExistsBijection(1 .. n, S)
  BY <1>4, <1>5 DEF ExistsBijection, Bijection
<1> QED BY <1>0, <1>6, FS_CountingElements DEF n

\* The request of a slot.
LEMMA SlotRequest ==
  ASSUME FrontendInv, NEW i \in Images, NEW s \in Names, NEW q \in Queues(i),
         slots[i][s][q] # 0
  PROVE  \E n \in 1 .. Len(frontier[i][q]) :
           /\ frontier[i][q][n].order = slots[i][s][q]
           /\ (CHOOSE r \in Discovered(i) : r.order = slots[i][s][q]) = frontier[i][q][n]
<1> DEFINE slot == slots[i]
           queue == frontier[i]
           Q == Queues(i)
           x == slots[i][s][q]
           r == CHOOSE w \in Discovered(i) : w.order = x
<1>0. QueueType(i) /\ OrderInv(i) /\ SlotInv(i)
  BY DEF FrontendInv, ImageInv
<1>1. Slotted(slot, queue, Q) /\ Ordered(queue, Q)
  BY <1>0, OrderedIs DEF SlotInv
<1>2. PICK n \in 1 .. Len(queue[q]) : x = queue[q][n].order
  <2>1. x = slot[s][q] /\ x # 0 /\ q \in Q
    OBVIOUS
  <2> HIDE DEF slot, queue, Q, x
  <2> QED BY <1>1, <2>1, SlotOrder
<1>3. \A w : w \in Discovered(i) <=>
         \E p \in Q : \E m \in 1 .. Len(queue[p]) : w = queue[p][m]
  <2>1. \A p \in Q : frontier[i][p] \in Seq(Requests)
    BY <1>0 DEF QueueType
  <2> QED BY <2>1, DiscoveredIs
<1>4. q \in Q /\ queue[q][n] \in Discovered(i)
  BY <1>3
<1> HIDE DEF x
<1>5. r \in Discovered(i) /\ r.order = x
  BY <1>2, <1>4
<1> HIDE DEF r
<1>6. PICK p \in Q : \E m \in 1 .. Len(queue[p]) : r = queue[p][m]
  BY <1>3, <1>5
<1>7. PICK m \in 1 .. Len(queue[p]) : r = queue[p][m]
  BY <1>6
<1>8. p = q /\ m = n
  <2> HIDE DEF queue, Q
  <2>1. queue[p][m].order = queue[q][n].order
    BY <1>2, <1>5, <1>7
  <2> QED BY <1>1, <1>4, <2>1, OneOrder
<1> QED BY <1>2, <1>7, <1>8 DEF r, x

LEMMA OwnedTickets == FrontendInv => TicketsOwned
<1> SUFFICES ASSUME FrontendInv PROVE TicketsOwned
  OBVIOUS
<1>1. ASSUME NEW i \in Images
      PROVE  LET waiting == {w \in {"head", "read"} \X Queues(i) :
                               slots[i][w[1]][w[2]] # 0}
                 request(w) == CHOOSE r \in Discovered(i) : r.order = slots[i][w[1]][w[2]]
                 owned == {w \in waiting : Data(request(w))}
                 ids == {t.id : t \in Range(fair.heads[i])}
             IN  /\ \A w \in waiting :
                      \E r \in Range(frontier[i][w[2]]) : r.order = slots[i][w[1]][w[2]]
                 /\ ids = {<<w[1], slots[i][w[1]][w[2]]>> : w \in owned}
                 /\ Cardinality({id[2] : id \in ids}) = Len(fair.heads[i])
  <2> DEFINE waiting == {w \in {"head", "read"} \X Queues(i) : slots[i][w[1]][w[2]] # 0}
             request(w) == CHOOSE r \in Discovered(i) : r.order = slots[i][w[1]][w[2]]
             owned == {w \in waiting : Data(request(w))}
             h == fair.heads[i]
             ids == {t.id : t \in Range(h)}
             names == {<<w[1], slots[i][w[1]][w[2]]>> : w \in owned}
             queue == frontier[i]
             Q == Queues(i)
             slot == slots[i]
  <2>0. /\ FairType(fair) /\ QueueType(i) /\ OrderInv(i) /\ TicketInv(i)
    BY DEF FrontendInv, ImageInv
  <2>1. /\ h \in Seq(Tickets) /\ Backed(h, slot, queue, Q) /\ Covered(h, slot, queue, Q)
        /\ Distinct(h) /\ Ordered(queue, Q) /\ queue \in [Q -> Seq(Requests)]
    BY <2>0, OrderedIs DEF FairType, TicketInv, QueueType
  <2>2. \A w : w \in waiting <=>
          w \in Names \X Q /\ slot[w[1]][w[2]] # 0
    BY DEF Names
  <2>3. ASSUME NEW w \in waiting
        PROVE  /\ w[1] \in Names /\ w[2] \in Q /\ slot[w[1]][w[2]] # 0
               /\ \E n \in 1 .. Len(queue[w[2]]) :
                    /\ queue[w[2]][n].order = slot[w[1]][w[2]]
                    /\ request(w) = queue[w[2]][n]
    <3>1. w[1] \in Names /\ w[2] \in Q /\ slot[w[1]][w[2]] # 0
      BY <2>2
    <3> QED BY <3>1, SlotRequest
  <2>4. \A w \in waiting :
          \E r \in Range(frontier[i][w[2]]) : r.order = slots[i][w[1]][w[2]]
    <3> TAKE w \in waiting
    <3>1. PICK n \in 1 .. Len(queue[w[2]]) : queue[w[2]][n].order = slot[w[1]][w[2]]
      BY <2>3
    <3>2. queue[w[2]] \in Seq(Requests)
      BY <2>1, <2>3
    <3>3. queue[w[2]][n] \in Range(queue[w[2]])
      BY <3>2 DEF Range
    <3> QED BY <3>1, <3>3
  <2>5. \A x : x \in ids <=> \E m \in 1 .. Len(h) : x = h[m].id
    <3>1. DOMAIN h = 1 .. Len(h)
      BY <2>1
    <3> QED BY <3>1 DEF Range
  <2>6. Cardinality({id[2] : id \in ids}) = Len(h)
    BY <2>1, CountTickets
  <2> HIDE DEF waiting, request, ids
  <2>7. ASSUME NEW x \in ids
        PROVE  x \in names
    <3>1. PICK m \in 1 .. Len(h) : x = h[m].id
      BY <2>5
    <3>2. h[m] \in Tickets
      BY <2>1
    <3>3. x \in Names \X Nat
      BY <3>1, <3>2 DEF Tickets
    <3>4. PICK q \in Q :
            /\ x[2] # 0 /\ slot[x[1]][q] = x[2]
            /\ \E n \in 1 .. Len(queue[q]) :
                 queue[q][n].order = x[2] /\ Data(queue[q][n])
      BY <2>1, <3>1 DEF Backed
    <3>5. PICK n \in 1 .. Len(queue[q]) : queue[q][n].order = x[2] /\ Data(queue[q][n])
      BY <3>4
    <3> DEFINE w == <<x[1], q>>
    <3>6. w[1] = x[1] /\ w[2] = q /\ w \in Names \X Q /\ w \in waiting
      BY <2>2, <3>3, <3>4
    <3> HIDE DEF w
    <3>7. PICK m2 \in 1 .. Len(queue[q]) :
            queue[q][m2].order = slot[x[1]][q] /\ request(w) = queue[q][m2]
      BY <2>3, <3>6
    <3>8. m2 = n
      <4>1. queue[q][m2].order = queue[q][n].order
        BY <3>4, <3>5, <3>7
      <4> HIDE DEF queue, Q
      <4> QED BY <2>1, <4>1, OneOrder
    <3>9. w \in owned
      BY <3>5, <3>6, <3>7, <3>8
    <3>10. x = <<x[1], x[2]>>
      BY <3>3
    <3>11. x = <<w[1], slots[i][w[1]][w[2]]>>
      BY <3>4, <3>6, <3>10
    <3> QED BY <3>9, <3>11
  <2>8. ASSUME NEW w \in owned
        PROVE  <<w[1], slots[i][w[1]][w[2]]>> \in ids
    <3>1. w \in waiting /\ Data(request(w))
      OBVIOUS
    <3>2. w[1] \in Names /\ w[2] \in Q
      BY <2>3, <3>1
    <3>3. PICK n \in 1 .. Len(queue[w[2]]) :
            queue[w[2]][n].order = slot[w[1]][w[2]] /\ request(w) = queue[w[2]][n]
      BY <2>3, <3>1
    <3>4. \E m \in 1 .. Len(h) : h[m].id = <<w[1], slot[w[1]][w[2]]>>
      BY <2>1, <3>1, <3>2, <3>3 DEF Covered
    <3> QED BY <2>5, <3>4
  <2>9. ids = names
    BY <2>7, <2>8
  <2> QED BY <2>4, <2>6, <2>9 DEF waiting, request, ids
<1> QED BY <1>1 DEF TicketsOwned

LEMMA PaidTurn == FrontendInv => TurnPaid
<1> SUFFICES ASSUME FrontendInv PROVE TurnPaid
  OBVIOUS
<1> DEFINE inTurn == {i \in Images : /\ pass[i].step \in {"turn", "refused"}
                                     /\ Data(Candidate(i))}
<1>1. \A i : i \in inTurn <=> i \in Images /\ InTurn(i)
  BY DEF InTurn
<1>2. CASE inTurn = {}
  <2>1. fair.granted = NoTurn
    BY <1>1, <1>2 DEF FrontendInv, GrantInv
  <2> QED BY <1>2, <2>1 DEF TurnPaid
<1>3. CASE inTurn # {}
  <2>1. PICK i \in Images : InTurn(i)
    BY <1>1, <1>3
  <2>2. fair.granted = [image |-> i, id |-> Ticket(i)] /\ \A j \in Images : InTurn(j) => j = i
    BY <2>1, GrantedIs
  <2>3. PICK n \in 1 .. Len(fair.heads[i]) :
          /\ fair.heads[i][n].id = Ticket(i) /\ fair.heads[i][n].ready
          /\ fair.heads[i][n].bytes <= fair.deficit[i]
    BY <2>1, GrantedIs
  <2>4. FairType(fair)
    BY DEF FrontendInv
  <2>5. /\ fair.heads[i] \in Seq(Tickets) /\ fair.deficit[i] \in Nat
    BY <2>4 DEF FairType
  <2>6. fair.heads[i][n] \in Range(fair.heads[i]) /\ fair.heads[i][n] \in Tickets
    BY <2>5 DEF Range
  <2>7. \E t \in Range(fair.heads[i]) :
          t.id = Ticket(i) /\ t.ready /\ fair.deficit[i] >= t.bytes
    <3>1. fair.heads[i][n].bytes \in Nat
      BY <2>6 DEF Tickets
    <3> QED BY <2>3, <2>5, <2>6, <3>1
  <2>8. i \in inTurn /\ inTurn = {i}
    BY <1>1, <2>1, <2>2
  <2> QED BY <1>3, <2>2, <2>7, <2>8 DEF TurnPaid
<1> QED BY <1>2, <1>3

LEMMA Owned == FrontendInv => TurnsOwned
BY Typed, OwnedTickets, PaidTurn DEF TurnsOwned, FrontendInv, HostInv

LEMMA Bounded == FrontendInv => OvertakeBounded
<1> SUFFICES ASSUME FrontendInv, NEW i \in Images
             PROVE  passed[i] <=
                      Behind(fair.heads[i]) * ((NImages - 1) * (2 * Quantum - 1))
  BY DEF OvertakeBounded
<1> DEFINE b == Behind(fair.heads[i])
           v == Visits(fair, i)
           u == Unspent(fair, i)
<1>0. FairType(fair) /\ passed[i] \in Nat /\ ShareOf(fair, i, passed[i])
  BY DEF FrontendInv, Domains, ShareInv
<1>1. CASE ReadyAt(fair.heads[i]) = {}
  <2>1. passed[i] = 0 /\ b = 0
    BY <1>0, <1>1, BehindNone DEF ShareOf
  <2> QED BY <2>1, Constants
<1>2. CASE ReadyAt(fair.heads[i]) # {}
  <2>1. passed[i] + u <= Bound(b, v)
    BY <1>0, <1>2 DEF ShareOf
  <2>2. b \in Nat \ {0} /\ v \in 0 .. NImages - 1 /\ u \in Nat
    <3>1. fair.heads[i] \in Seq(Tickets)
      BY <1>0 DEF FairType
    <3>2. b \in 1 .. Len(fair.heads[i])
      BY <1>2, <3>1, FirstReadyIs
    <3>3. v \in 0 .. NImages - 1 /\ u \in 0 .. Visit
      BY <1>0, VisitsIn
    <3> HIDE DEF b, v, u
    <3> QED BY <3>2, <3>3, Constants
  <2> HIDE DEF b, v, u
  <2>3. Bound(b, v) <= Bound(b, NImages - 1) /\ Bound(b, v) \in Nat
    <3> DEFINE m == NImages - 1
    <3>1. m \in Nat /\ v \in Nat /\ v <= m
      BY <2>2, Constants
    <3> HIDE DEF m
    <3>2. Bound(b, v) <= Bound(b, m) /\ Bound(b, v) \in Nat
      BY <2>2, <3>1, BoundMore, BoundNat
    <3> QED BY <3>2 DEF m
  <2>4. Bound(b, NImages - 1) = b * ((NImages - 1) * Visit)
    BY <2>2, BoundRound
  <2>5. Bound(b, NImages - 1) \in Nat
    BY <2>2, BoundNat, Constants
  <2>6. passed[i] <= Bound(b, NImages - 1)
    BY <1>0, <2>1, <2>2, <2>3, <2>5
  <2> QED BY <2>4, <2>6 DEF Visit, b
<1> QED BY <1>1, <1>2

-----------------------------------------------------------------------------
(* Theorems                                                                *)

\* Conflicting requests of an image are admitted in the order they were
\* discovered in, whichever queues they came from, and only reads pass others
\* of their own queue (Frontier::eligible), for every program of the guests.
THEOREM AdmissionOrdered == Spec => []AdmittedInOrder
BY FrontendHolds, InOrder, PTL

\* Tickets match the requests that wait, at most one frontend has the turn and
\* its image can pay for it, and none is in one while the host collects
\* (Ticket, Turn::commit and Admission of fair.rs and admission.rs).
THEOREM TurnsSafe == Spec => []TurnsOwned
BY FrontendHolds, Owned, PTL

\* Byte fairness for every number of images and every quantum: what the other
\* images admit past one with a ready head is bounded by the visits the
\* scheduler owes it (State::choose, Turn::commit and Turn::drop of fair.rs).
THEOREM FairnessBounded == Spec => []OvertakeBounded
BY FrontendHolds, Bounded, PTL
=============================================================================
