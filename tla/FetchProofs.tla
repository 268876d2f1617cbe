---------------------------- MODULE FetchProofs ----------------------------
(***************************************************************************)
(* Reads of any number of images through one cache of any size: no answer  *)
(* and no cached block ever holds bytes other than the ones its manifest   *)
(* names, a block is fetched by one leader at a time and never while it is *)
(* resident, the cache never charges more than its capacity, and an image  *)
(* that leads no fetch fails alone.                                        *)
(***************************************************************************)
EXTENDS Fetch, SequenceTheorems, FiniteSetTheorems, WellFoundedInduction, TLAPS

-----------------------------------------------------------------------------
(* The inductive invariant.                                                *)

Stages == {"idle", "own", "get", "copy", "lookup", "peek", "header", "payload",
           "publish", "drop", "waiting", "done", "failed"}
ReadType ==
  [stage : Stages, todo : Seq(Hashes), buffer : Nat, cell : Reads \cup {Nobody},
   got : Hashes \cup {"none", "failed", "bad"},
   io : {"none", "bulk", "kernel", "ready"}, wrong : BOOLEAN]
Block == [hash : Hashes, id : Nat, bytes : Hashes]
ImageType == [failed : BOOLEAN, bulk : Seq(Reads)]
SchedType ==
  [ready : [Images -> BOOLEAN], next : Int, turn : 0..3, bg : BOOLEAN,
   waiting : BOOLEAN, woken : BOOLEAN, passed : 0..3]

TypeInv ==
  /\ rd \in [Reads -> ReadType]
  /\ reg \in [Hashes -> Reads \cup {Nobody}]
  /\ lru \in Seq(Block)
  /\ image \in [Images -> ImageType]

\* The opportunities that passed the background owner since the last fourth one.
TurnOK(s) ==
  /\ s \in SchedType
  /\ ~s.bg => s.passed = 0
  /\ s.bg /\ s.turn # 0 => s.passed < s.turn

\* What the stage of a read says of its block and of the bytes it was given.
Good(x) ==
  /\ x \in ReadType /\ ~x.wrong
  /\ x.stage \in {"get", "copy", "lookup", "peek", "header", "payload", "publish",
                   "waiting"} => x.todo # <<>>
  /\ x.stage \in {"own", "get", "lookup"} => x.got = "none"
  /\ x.stage \in {"copy", "publish"} => x.got = Head(x.todo)
  /\ x.cell # Nobody => x.stage = "waiting" /\ x.got = "none"
  /\ x.stage = "waiting" => x.got \in {"none", "failed", Head(x.todo)}

\* A poll that completed without an answer was cancelled by its failed image.
Starved(x) == x.stage = "waiting" /\ x.io = "ready" /\ x.got = "none"

\* A leader is the one its hash is registered to, until it finishes, and what is
\* being fetched is not resident.
Leads(x) == x.stage \in {"peek", "header", "payload"}
Fetching(x) == x.stage \in {"header", "payload"}
Leading(x, h) == Leads(x) /\ x.todo # <<>> /\ Head(x.todo) = h

\* A leader owes an answer until it told it: also between its two critical
\* sections, and when it is being dropped.
Owes(x, h) ==
  \/ x.stage = "drop"
  \/ x.stage \in {"peek", "header", "payload", "publish"} /\ x.todo # <<>>
       /\ Head(x.todo) = h

ReadInv(r) ==
  /\ Good(rd[r])
  /\ Starved(rd[r]) => image[Of(r)].failed
  /\ Leads(rd[r]) => reg[Hash(r)] = r
  /\ Fetching(rd[r]) => \A k \in DOMAIN lru : lru[k].hash # Hash(r)

CacheInv ==
  /\ \A k \in DOMAIN lru : lru[k].bytes = lru[k].hash
  /\ Charged(lru) <= Blocks

\* Whoever waits is owed the answer by the leader of its cell, and the registry
\* names leaders only.
WaitInv ==
  /\ \A q \in Reads : rd[q].cell # Nobody => Owes(rd[rd[q].cell], Hash(q))
  /\ \A h \in Hashes : reg[h] # Nobody => Leading(rd[reg[h]], h)

FetchInv ==
  /\ TypeInv /\ TurnOK(sched) /\ (\A r \in Reads : ReadInv(r)) /\ CacheInv
  /\ WaitInv

-----------------------------------------------------------------------------
(* Facts about the operators of the model.                                 *)

\* The constants, as the provers need them.
LEMMA Constants ==
  /\ Cardinality(Images) \in Nat \ {0} /\ Images = 1..Cardinality(Images)
  /\ Images \subseteq Nat \ {0}
  /\ \A r \in Reads : r \in Nat \ {0} /\ Of(r) \in Images
<1>1. Cardinality(Images) \in Nat
  BY FetchConstants, FS_CardinalityType
<1>2. Cardinality(Images) # 0
  BY <1>1, FetchConstants
<1> QED BY <1>1, <1>2, FetchConstants DEF Of

\* A nonempty set of naturals has a least member.
LEMMA LeastExists ==
  ASSUME NEW S \in SUBSET Nat, S # {}
  PROVE  \E m \in S : \A x \in S : m <= x
<1> DEFINE R == OpToRel(<, Nat)
<1>1. IsWellFoundedOn(R, Nat)
  BY NatLessThanWellFounded
<1>2. \E y \in S : \A z \in S : ~(<<z, y>> \in R)
  <2> HIDE DEF R
  <2> QED BY <1>1, WFMin
<1>3. \A a, b \in Nat : <<a, b>> \in R <=> a < b
  BY DEF OpToRel
<1>4. PICK y \in S : \A z \in S : ~(<<z, y>> \in R)
  BY <1>2
<1>5. \A z \in S : ~(z < y)
  <2> HIDE DEF R
  <2> QED BY <1>3, <1>4
<1>6. \A z \in S : y <= z
  BY <1>5
<1> QED BY <1>6

\* The cache lookup finds the block of a hash, or tells that none is resident.
Find(l, h) == SelectInSeq(l, LAMBDA b : b.hash = h)
LEMMA FindIs ==
  ASSUME NEW l \in Seq(Block), NEW h
  PROVE  /\ Find(l, h) # 0 => Find(l, h) \in DOMAIN l /\ l[Find(l, h)].hash = h
         /\ Find(l, h) = 0 => \A k \in DOMAIN l : l[k].hash # h
<1> DEFINE I == {i \in 1..Len(l) : l[i].hash = h}
<1>1. Find(l, h) = IF I # {} THEN Min(I) ELSE 0
  BY DEF Find, SelectInSeq
<1>2. ASSUME I # {} PROVE Min(I) \in I
  <2>1. I \in SUBSET Nat
    OBVIOUS
  <2>2. \E m \in I : \A x \in I : m <= x
    <3> HIDE DEF I
    <3> QED BY <1>2, <2>1, LeastExists
  <2> QED BY <2>2 DEF Min
<1>3. Len(l) \in Nat /\ DOMAIN l = 1..Len(l)
  OBVIOUS
<1> QED BY <1>1, <1>2, <1>3

\* Lru::promote and Lru::evict keep buffers and make none.
LEMMA PromoteKeeps ==
  ASSUME NEW l \in Seq(Block), NEW at \in DOMAIN l
  PROVE  /\ Promote(l, at) \in Seq(Block)
         /\ \A k \in DOMAIN Promote(l, at) : \E j \in DOMAIN l :
              Promote(l, at)[k] = l[j]
<1>1. at \in 1..Len(l) /\ Len(l) \in Nat
  OBVIOUS
<1> DEFINE a == SubSeq(l, 1, at - 1)
           b == SubSeq(l, at + 1, Len(l))
           T == {l[j] : j \in DOMAIN l}
<1>2. \A j \in 1..Len(l) : l[j] \in T
  OBVIOUS
<1>3. a \in Seq(T) /\ b \in Seq(T)
  <2> HIDE DEF T
  <2>1. \A j \in 1..(at - 1) : l[j] \in T
    BY <1>1, <1>2
  <2>2. \A j \in (at + 1)..Len(l) : l[j] \in T
    BY <1>1, <1>2
  <2> QED BY <1>1, <2>1, <2>2, SubSeqProperties
<1>4. l[at] \in T
  BY <1>1
<1>5. Promote(l, at) = Append(a \o b, l[at])
  BY DEF Promote, RemoveAt
<1>6. Promote(l, at) \in Seq(T)
  <2> HIDE DEF T, a, b
  <2>1. a \o b \in Seq(T)
    BY <1>3
  <2> QED BY <2>1, <1>4, <1>5
<1>7. T \subseteq Block
  OBVIOUS
<1>8. Promote(l, at) \in Seq(Block)
  <2> HIDE DEF T
  <2> QED BY <1>6, <1>7
<1>9. \A k \in DOMAIN Promote(l, at) : Promote(l, at)[k] \in T
  <2> HIDE DEF T
  <2> QED BY <1>6
<1> QED BY <1>8, <1>9
LEMMA EvictKeeps ==
  ASSUME NEW l \in Seq(Block), NEW n \in 0..Len(l)
  PROVE  /\ Evict(l, n) \in Seq(Block)
         /\ \A k \in DOMAIN Evict(l, n) : \E j \in DOMAIN l : Evict(l, n)[k] = l[j]
<1>1. Len(l) \in Nat
  OBVIOUS
<1> DEFINE T == {l[j] : j \in DOMAIN l}
<1>2. \A j \in (n + 1)..Len(l) : l[j] \in T
  BY <1>1
<1>3. Evict(l, n) \in Seq(T)
  <2> HIDE DEF T
  <2> QED BY <1>1, <1>2, SubSeqProperties DEF Evict
<1>7. T \subseteq Block
  OBVIOUS
<1>8. Evict(l, n) \in Seq(Block)
  <2> HIDE DEF T
  <2> QED BY <1>3, <1>7
<1>9. \A k \in DOMAIN Evict(l, n) : Evict(l, n)[k] \in T
  <2> HIDE DEF T
  <2> QED BY <1>3
<1> QED BY <1>8, <1>9

\* The image of a finite set is finite.
LEMMA ImageFinite ==
  ASSUME NEW S, IsFiniteSet(S), NEW f
  PROVE  IsFiniteSet({f[x] : x \in S})
<1> DEFINE T == {f[x] : x \in S}
           g == [x \in S |-> f[x]]
<1>1. g \in Surjection(S, T)
  BY DEF Surjection
<1> HIDE DEF T, g
<1>2. IsFiniteSet(T)
  BY <1>1, FS_Surjection
<1> QED BY <1>2 DEF T

\* The buffers in memory are finitely many.
LEMMA BuffersFinite ==
  ASSUME rd \in [Reads -> ReadType], NEW l \in Seq(Block)
  PROVE  IsFiniteSet(Buffers(l)) /\ Charged(l) \in Nat
<1> DEFINE f == [r \in Reads |-> rd[r].buffer]
           g == [k \in 1..Len(l) |-> l[k].id]
<1>1. IsFiniteSet({f[r] : r \in Reads})
  <2> HIDE DEF f
  <2> QED BY FetchConstants, ImageFinite
<1>2. Held \subseteq {f[r] : r \in Reads}
  BY DEF Held
<1>3. IsFiniteSet(Held)
  <2> HIDE DEF f
  <2> QED BY <1>1, <1>2, FS_Subset
<1>4. IsFiniteSet(1..Len(l))
  <2>1. 1 \in Int /\ Len(l) \in Int
    OBVIOUS
  <2> QED BY <2>1, FS_Interval
<1>5. IsFiniteSet({g[k] : k \in 1..Len(l)})
  <2> HIDE DEF g
  <2> QED BY <1>4, ImageFinite
<1>6. {g[k] : k \in 1..Len(l)} = {l[k].id : k \in DOMAIN l}
  OBVIOUS
<1>7. IsFiniteSet(Buffers(l))
  <2> HIDE DEF g
  <2>1. IsFiniteSet({l[k].id : k \in DOMAIN l})
    BY <1>5, <1>6
  <2> QED BY <2>1, <1>3, FS_Union DEF Buffers
<1> QED BY <1>7, FS_CardinalityType DEF Charged

\* A free buffer is found.
LEMMA NewBufferNat ==
  ASSUME TypeInv, CacheInv
  PROVE  NewBuffer \in Nat
<1> DEFINE N == Cardinality(Reads) + Blocks + 1
           S == {id \in 1..N : id \notin Buffers(lru)}
<1>1. N \in Nat /\ Blocks \in Nat /\ N > Blocks
  BY FetchConstants, FS_CardinalityType
<1>2. IsFiniteSet(Buffers(lru)) /\ Charged(lru) \in Nat
  BY BuffersFinite DEF TypeInv
<1>3. S # {}
  <2> SUFFICES ASSUME 1..N \subseteq Buffers(lru) PROVE FALSE
    OBVIOUS
  <2> HIDE DEF N
  <2>1. 1 \in Int /\ N \in Int
    BY <1>1
  <2>2. Cardinality(1..N) = N
    BY <2>1, <1>1, FS_Interval
  <2>3. Cardinality(1..N) <= Charged(lru)
    BY <1>2, FS_Subset DEF Charged
  <2> QED BY <2>2, <2>3, <1>1, <1>2 DEF CacheInv
<1>4. PICK m \in S : \A x \in S : m <= x
  <2>1. S \in SUBSET Nat
    BY <1>1
  <2> HIDE DEF S
  <2> QED BY <2>1, <1>3, LeastExists
<1>5. m \in 1..N /\ m \notin Buffers(lru)
  OBVIOUS
<1>6. \A k \in 1..(m - 1) : k \in Buffers(lru)
  <2> SUFFICES ASSUME NEW k \in 1..(m - 1), k \notin Buffers(lru) PROVE FALSE
    OBVIOUS
  <2>1. k \in 1..N /\ ~(m <= k)
    <3> HIDE DEF N
    <3> QED BY <1>1, <1>5
  <2>2. k \in S
    BY <2>1
  <2> QED BY <2>1, <2>2, <1>4
<1>7. NewBuffer \in 1..N
  BY <1>5, <1>6 DEF NewBuffer
<1> QED BY <1>1, <1>7

\* A step that keeps only buffers of before charges no more blocks.
LEMMA FewerBuffers ==
  ASSUME FetchInv, \A r \in Reads : rd'[r].buffer \in {0} \cup Buffers(lru),
         \A k \in DOMAIN lru' : lru'[k].id \in Buffers(lru)
  PROVE  Charged(lru)' <= Blocks
<1>1. Buffers(lru)' \subseteq Buffers(lru)
  BY DEF Buffers, Held
<1>2. IsFiniteSet(Buffers(lru)) /\ Charged(lru) \in Nat
  BY BuffersFinite DEF TypeInv, FetchInv
<1>3. Cardinality(Buffers(lru)') <= Cardinality(Buffers(lru))
  BY <1>1, <1>2, FS_Subset
<1>4. Cardinality(Buffers(lru)') \in Nat
  BY <1>1, <1>2, FS_Subset, FS_CardinalityType
<1>5. Blocks \in Nat
  BY FetchConstants
<1>6. Cardinality(Buffers(lru)) <= Blocks /\ Cardinality(Buffers(lru)) \in Nat
  BY <1>2 DEF FetchInv, CacheInv, Charged
<1>7. Cardinality(Buffers(lru)') <= Blocks
  BY <1>3, <1>4, <1>5, <1>6
<1> QED BY <1>7 DEF Charged

\* Scheduler::notify, Port::ready and the grants keep the count of the reads
\* that passed the background owner.
LEMMA NotifyOK ==
  ASSUME NEW s, TurnOK(s)
  PROVE  TurnOK(Notify(s))
<1>1. (s.woken \/ Selected(s) = 0) \in BOOLEAN
  OBVIOUS
<1>2. s \in SchedType
  BY DEF TurnOK
<1> DEFINE w == s.woken \/ Selected(s) = 0
<1>3. Notify(s) = [s EXCEPT !.woken = w]
  BY DEF Notify
<1> HIDE DEF w
<1>4. w \in BOOLEAN
  BY DEF w
<1> QED BY <1>2, <1>3, <1>4 DEF TurnOK, SchedType
LEMMA ReadyOK ==
  ASSUME TurnOK(sched), NEW i \in Images, NEW b \in BOOLEAN
  PROVE  TurnOK(Ready(sched, i, b))
<1>1. TurnOK([sched EXCEPT !.ready[i] = b])
  BY DEF TurnOK, SchedType
<1> QED BY <1>1, NotifyOK DEF Ready
LEMMA GrantedOK ==
  ASSUME TurnOK(sched), NEW who \in Images \cup {0}, Selected(sched) = who
  PROVE  TurnOK(Granted(sched, who))
<1>1. sched \in SchedType /\ Cardinality(Images) \in Nat \ {0} /\ who \in Nat
  BY Constants DEF TurnOK
<1>4. sched.turn \in 0..3 /\ sched.passed \in 0..3
  BY <1>1 DEF SchedType
<1>5. (sched.turn + 1) % 4 \in 0..3
  <2>1. sched.turn = 0 \/ sched.turn = 1 \/ sched.turn = 2 \/ sched.turn = 3
    BY <1>4
  <2> QED BY <2>1
<1>2. CASE who = 0
  <2>1. Granted(sched, who) =
          [sched EXCEPT !.bg = FALSE, !.passed = 0, !.turn = (@ + 1) % 4]
    BY <1>1, <1>2 DEF Granted, SchedType
  <2> DEFINE t == (sched.turn + 1) % 4
             g == [sched EXCEPT !.bg = FALSE, !.passed = 0, !.turn = t]
  <2>2. t \in 0..3
    BY <1>5
  <2>3. Granted(sched, who) = g
    BY <2>1
  <2> HIDE DEF t
  <2>4. g \in SchedType
    <3>1. ASSUME NEW a \in BOOLEAN, NEW b \in 0..3, NEW c \in 0..3
          PROVE  [sched EXCEPT !.bg = a, !.passed = b, !.turn = c] \in SchedType
      BY <1>1 DEF SchedType
    <3>2. FALSE \in BOOLEAN /\ 0 \in 0..3
      OBVIOUS
    <3> QED BY <3>1, <3>2, <2>2
  <2>5. g.bg = FALSE /\ g.passed = 0
    BY <1>1 DEF SchedType
  <2> QED BY <2>3, <2>4, <2>5 DEF TurnOK
<1>3. CASE who # 0
  <2>1. sched.bg => sched.turn # 0
    BY <1>3 DEF Selected
  <2> DEFINE n == (who % Cardinality(Images)) + 1
             p == IF sched.bg THEN sched.passed + 1 ELSE 0
  <2>2. n \in Int
    BY <1>1
  <2>3. p \in 0..3
    BY <1>4, <2>1 DEF TurnOK
  <2>5. sched.bg /\ (sched.turn + 1) % 4 # 0 => p < (sched.turn + 1) % 4
    <3> SUFFICES ASSUME sched.bg, (sched.turn + 1) % 4 # 0 PROVE p < (sched.turn + 1) % 4
      OBVIOUS
    <3>1. sched.turn \in {1, 2} /\ sched.passed \in 0..3 /\ sched.passed < sched.turn
      BY <1>4, <2>1 DEF TurnOK
    <3>2. sched.turn = 1 \/ sched.turn = 2
      BY <3>1
    <3> QED BY <3>1, <3>2
  <2>6. Granted(sched, who) =
          [sched EXCEPT !.ready = [@ EXCEPT ![who] = FALSE], !.next = n,
                        !.passed = p, !.turn = (@ + 1) % 4]
    BY <1>1, <1>3 DEF Granted, SchedType
  <2>7. ~sched.bg => p = 0
    OBVIOUS
  <2> HIDE DEF n, p
  <2> DEFINE g == [sched EXCEPT !.ready = [@ EXCEPT ![who] = FALSE], !.next = n,
                        !.passed = p, !.turn = (@ + 1) % 4]
  <2>8. g \in SchedType
    BY <1>1, <1>3, <1>5, <2>2, <2>3 DEF SchedType
  <2>9. g.bg = sched.bg /\ g.passed = p /\ g.turn = (sched.turn + 1) % 4
    BY <1>1 DEF SchedType
  <2> HIDE DEF g
  <2>10. TurnOK(g)
    BY <2>5, <2>7, <2>8, <2>9 DEF TurnOK
  <2> QED BY <2>6, <2>10 DEF g
<1> QED BY <1>2, <1>3
LEMMA TakeOK ==
  ASSUME TurnOK(sched), NEW i \in Images, Selected(sched) = i, NEW b \in BOOLEAN
  PROVE  TurnOK(Take(sched, i, b))
<1> DEFINE g == Granted(sched, i)
<1>1. TurnOK(g)
  BY GrantedOK
<1>2. TurnOK([g EXCEPT !.ready[i] = b])
  <2> HIDE DEF g
  <2> QED BY <1>1 DEF TurnOK, SchedType
<1> QED BY <1>2, NotifyOK DEF Take

-----------------------------------------------------------------------------
(* Steps of one read.                                                      *)

\* Read::next_block starts the next block afresh.
LEMMA NextBlockIs ==
  ASSUME NEW y \in ReadType, ~y.wrong, y.cell = Nobody, NEW x \in NextBlock(y)
  PROVE  /\ Good(x) /\ x.stage \in {"done", "get", "own"} /\ x.buffer = 0
         /\ x.cell = Nobody
<1> DEFINE at(stage) == [y EXCEPT !.stage = stage, !.buffer = 0, !.got = "none",
                                  !.io = "none"]
<1>1. ASSUME NEW s \in Stages, NEW z, z = at(s)
      PROVE  /\ z \in ReadType /\ z.stage = s /\ z.buffer = 0 /\ z.got = "none"
             /\ z.io = "none" /\ z.todo = y.todo /\ z.wrong = y.wrong
             /\ z.cell = y.cell
  BY <1>1 DEF ReadType
<1>2. Stages = Stages \cup {"done", "get", "own"}
  BY DEF Stages
<1>3. CASE y.todo = <<>>
  <2>1. x = at("done")
    BY <1>3 DEF NextBlock
  <2> HIDE DEF at
  <2> QED BY <1>1, <1>2, <2>1 DEF Good
<1>4. CASE y.todo # <<>> /\ x = at("get")
  <2> HIDE DEF at
  <2> QED BY <1>1, <1>2, <1>4 DEF Good
<1>5. CASE y.todo # <<>> /\ x = Pushed(at("own"))
  <2> DEFINE z == at("own")
  <2>1. /\ z \in ReadType /\ z.stage = "own" /\ z.buffer = 0 /\ z.got = "none"
        /\ z.wrong = y.wrong /\ z.cell = y.cell
    BY <1>1, <1>2, ZenonT(60)
  <2> HIDE DEF z
  <2>2. x = [z EXCEPT !.io = "bulk"]
    BY <1>5, <2>1 DEF Pushed, z
  <2>3. /\ x \in ReadType /\ x.stage = "own" /\ x.buffer = 0 /\ x.got = "none"
        /\ x.wrong = y.wrong /\ x.cell = y.cell
    BY <2>1, <2>2 DEF ReadType
  <2> QED BY <2>3 DEF Good
<1> QED BY <1>3, <1>4, <1>5 DEF NextBlock

\* A block answered with the bytes it names is not a wrong one.
LEMMA TakenIs ==
  ASSUME NEW x, Good(x), x.todo # <<>>, NEW bytes, bytes = Head(x.todo)
  PROVE  /\ Taken(x, bytes) \in ReadType /\ ~Taken(x, bytes).wrong
         /\ Taken(x, bytes).cell = x.cell
<1>1. x \in ReadType /\ ~x.wrong
  BY DEF Good
<1>2. Tail(x.todo) \in Seq(Hashes)
  BY <1>1 DEF ReadType
<1>3. Taken(x, bytes) = [x EXCEPT !.wrong = FALSE, !.todo = Tail(@)]
  BY <1>1 DEF Taken
<1>4. ASSUME NEW w \in BOOLEAN, NEW t \in Seq(Hashes)
      PROVE  /\ [x EXCEPT !.wrong = w, !.todo = t] \in ReadType
             /\ [x EXCEPT !.wrong = w, !.todo = t].wrong = w
             /\ [x EXCEPT !.wrong = w, !.todo = t].cell = x.cell
  BY <1>1 DEF ReadType
<1>5. FALSE \in BOOLEAN
  OBVIOUS
<1>6. Taken(x, bytes) = [x EXCEPT !.wrong = FALSE, !.todo = Tail(x.todo)]
  BY <1>3
<1> QED BY <1>2, <1>4, <1>5, <1>6

\* A step of read r replaces r, may queue it, and leaves failures alone.
LEMMA SteppedIs ==
  ASSUME FetchInv, NEW r \in Reads, NEW base \in [Reads -> ReadType],
         NEW x \in ReadType, Stepped(base, r, x)
  PROVE  /\ rd' \in [Reads -> ReadType] /\ rd'[r] = x
         /\ \A q \in Reads : q # r => rd'[q] = base[q]
         /\ image' \in [Images -> ImageType]
         /\ \A i \in Images : image'[i].failed = image[i].failed
         /\ TurnOK(sched')
<1>1. rd' = [base EXCEPT ![r] = x]
  BY DEF Stepped
<1>2. Of(r) \in Images
  BY Constants
<1>3. TurnOK(sched')
  <2>1. CASE x.io = "bulk"
    BY <2>1, <1>2, ReadyOK DEF Stepped, FetchInv
  <2>2. CASE x.io # "bulk"
    BY <2>2 DEF Stepped, FetchInv
  <2> QED BY <2>1, <2>2
<1>4. image \in [Images -> ImageType]
  BY DEF FetchInv, TypeInv
<1>5. /\ image' \in [Images -> ImageType]
      /\ \A i \in Images : image'[i].failed = image[i].failed
  <2>1. CASE x.io = "bulk"
    <3>1. Append(image[Of(r)].bulk, r) \in Seq(Reads)
      BY <1>2, <1>4 DEF ImageType
    <3>2. image' = [image EXCEPT ![Of(r)].bulk = Append(@, r)]
      BY <2>1 DEF Stepped
    <3> QED BY <1>2, <1>4, <3>1, <3>2 DEF ImageType
  <2>2. CASE x.io # "bulk"
    BY <2>2, <1>4 DEF Stepped
  <2> QED BY <2>1, <2>2
<1> QED BY <1>1, <1>3, <1>5

\* Leader::finish: the waiters of the cell get the answer, nothing else changes.
LEMMA ToldIs ==
  ASSUME FetchInv, NEW r \in Reads, NEW got \in Hashes \cup {"failed"},
         \A h : Owes(rd[r], h) => got = h \/ got = "failed"
  PROVE  /\ Told(r, got) \in [Reads -> ReadType]
         /\ \A q \in Reads :
              LET x == Told(r, got)[q]
              IN  /\ Good(x) /\ x.stage = rd[q].stage /\ x.todo = rd[q].todo
                  /\ x.buffer = rd[q].buffer /\ (Starved(x) => Starved(rd[q]))
                  /\ x.cell # r /\ x.cell \in {Nobody, rd[q].cell}
<1>1. rd \in [Reads -> ReadType] /\ r # Nobody
  BY Constants DEF FetchInv, TypeInv, Nobody
<1>2. ASSUME NEW q \in Reads, NEW x, x = Told(r, got)[q]
      PROVE  /\ x \in ReadType /\ Good(x)
             /\ x.stage = rd[q].stage /\ x.todo = rd[q].todo
             /\ x.buffer = rd[q].buffer /\ (Starved(x) => Starved(rd[q]))
             /\ x.cell # r /\ x.cell \in {Nobody, rd[q].cell}
  <2>1. Good(rd[q]) /\ rd[q] \in ReadType
    BY <1>1 DEF FetchInv, ReadInv
  <2>2. CASE rd[q].cell = r
    <3>1. x = [rd[q] EXCEPT !.cell = Nobody, !.got = got]
      BY <1>2, <2>2 DEF Told
    <3>2. /\ x \in ReadType /\ x.stage = rd[q].stage /\ x.todo = rd[q].todo
          /\ x.buffer = rd[q].buffer /\ x.io = rd[q].io /\ x.got = got
          /\ x.wrong = rd[q].wrong /\ x.cell = Nobody
      BY <2>1, <3>1 DEF ReadType
    <3>3. got = Head(rd[q].todo) \/ got = "failed"
      BY <1>1, <2>2 DEF FetchInv, WaitInv, Hash
    <3>4. rd[q].stage = "waiting" /\ rd[q].got = "none"
      BY <1>1, <2>1, <2>2 DEF Good
    <3> QED BY <1>1, <2>1, <3>2, <3>3, <3>4 DEF Good, Starved
  <2>3. CASE rd[q].cell # r
    <3>1. x = rd[q]
      BY <1>2, <2>3 DEF Told
    <3> QED BY <2>1, <2>3, <3>1
  <2> QED BY <2>2, <2>3
<1>3. Told(r, got) \in [Reads -> ReadType]
  <2>1. \A q \in Reads : Told(r, got)[q] \in ReadType
    BY <1>2
  <2>2. Told(r, got) = [q \in Reads |-> Told(r, got)[q]]
    BY DEF Told
  <2> QED BY <2>1, <2>2
<1> QED BY <1>2, <1>3

\* What is left of a read that only its fetch's answer may have touched.
LEMMA OtherRead ==
  ASSUME FetchInv, NEW q \in Reads,
         Good(rd'[q]), rd'[q].stage = rd[q].stage, rd'[q].todo = rd[q].todo,
         Starved(rd'[q]) => Starved(rd[q]) \/ image'[Of(q)].failed,
         image[Of(q)].failed => image'[Of(q)].failed,
         Leads(rd[q]) => reg'[Hash(q)] = q,
         Fetching(rd[q]) => \A k \in DOMAIN lru' : lru'[k].hash # Hash(q)
  PROVE  ReadInv(q)'
BY DEF FetchInv, ReadInv, Leads, Fetching, Hash, Of

\* The reads a step leaves alone, when registry and cache stay as they are.
LEMMA OtherReads ==
  ASSUME FetchInv, NEW r \in Reads, \A q \in Reads : q # r => rd'[q] = rd[q],
         \A i \in Images : image'[i].failed = image[i].failed, reg' = reg,
         \A k \in DOMAIN lru' : \E j \in DOMAIN lru : lru'[k] = lru[j]
  PROVE  \A q \in Reads : q # r => ReadInv(q)'
<1> SUFFICES ASSUME NEW q \in Reads, q # r PROVE ReadInv(q)'
  OBVIOUS
<1>1. ReadInv(q) /\ rd'[q] = rd[q] /\ Of(q) \in Images
  BY Constants DEF FetchInv
<1> QED BY <1>1, OtherRead DEF ReadInv

\* What a step owes when it adds no block to the cache.
LEMMA Conclude ==
  ASSUME FetchInv, TypeInv', TurnOK(sched'), \A q \in Reads : ReadInv(q)',
         \A k \in DOMAIN lru' : \E j \in DOMAIN lru : lru'[k] = lru[j],
         \A q \in Reads : rd'[q].buffer \in {0, rd[q].buffer} \cup Buffers(lru),
         WaitInv'
  PROVE  FetchInv'
<1>1. \A k \in DOMAIN lru' : lru'[k].id \in Buffers(lru)
  BY DEF Buffers
<1>2. \A q \in Reads : rd'[q].buffer \in {0} \cup Buffers(lru)
  BY DEF Buffers, Held
<1>3. Charged(lru)' <= Blocks
  BY <1>1, <1>2, FewerBuffers
<1>4. CacheInv'
  BY <1>3 DEF CacheInv, FetchInv
<1> QED BY <1>4 DEF FetchInv

\* A read that goes on owing what it owed, and that waits for a leader if it
\* waits at all.
Keeps(x, y) ==
  \A h : (Owes(x, h) => Owes(y, h)) /\ (Leading(x, h) => Leading(y, h))
Asks(x, y) ==
  \/ y.cell = Nobody
  \/ y.cell = x.cell /\ y.todo = x.todo
  \/ Leading(rd[y.cell], Head(y.todo))
LEMMA WaitKept ==
  ASSUME FetchInv, rd' \in [Reads -> ReadType], NEW r \in Reads, reg' = reg,
         \A q \in Reads : q # r => rd'[q] = rd[q],
         Keeps(rd[r], rd'[r]), Asks(rd[r], rd'[r])
  PROVE  WaitInv'
<1>1. /\ rd \in [Reads -> ReadType] /\ reg \in [Hashes -> Reads \cup {Nobody}]
      /\ WaitInv
  BY DEF FetchInv, TypeInv
<1>2. \A c \in Reads : \A h : Owes(rd[c], h) => Owes(rd'[c], h)
  BY DEF Keeps
<1>3. \A c \in Reads : \A h : Leading(rd[c], h) => Leading(rd'[c], h)
  BY DEF Keeps
<1>4. ASSUME NEW q \in Reads, rd'[q].cell # Nobody
      PROVE  Owes(rd'[rd'[q].cell], Head(rd'[q].todo))
  <2>1. rd'[q].cell \in Reads
    BY <1>4 DEF ReadType
  <2>2. CASE rd'[q].cell = rd[q].cell /\ rd'[q].todo = rd[q].todo
    BY <1>1, <1>2, <1>4, <2>1, <2>2 DEF WaitInv, Hash
  <2>3. CASE q = r /\ Leading(rd[rd'[q].cell], Head(rd'[q].todo))
    BY <1>3, <2>1, <2>3 DEF Leading, Leads, Owes
  <2> QED BY <1>4, <2>2, <2>3 DEF Asks
<1>5. ASSUME NEW h \in Hashes, reg'[h] # Nobody PROVE Leading(rd'[reg'[h]], h)
  BY <1>1, <1>3, <1>5 DEF WaitInv
<1> QED BY <1>4, <1>5 DEF WaitInv, Hash

\* A step of read r that leaves the registry and the cache alone.
LEMMA ReadStep ==
  ASSUME FetchInv, NEW r \in Reads, NEW x, Good(x), ~Starved(x),
         Leads(x) => reg[Head(x.todo)] = r,
         Fetching(x) => \A k \in DOMAIN lru : lru[k].hash # Head(x.todo),
         x.buffer \in {0, rd[r].buffer}, Stepped(rd, r, x), UNCHANGED <<reg, lru>>,
         Keeps(rd[r], x), Asks(rd[r], x)
  PROVE  FetchInv'
<1>1. rd \in [Reads -> ReadType] /\ x \in ReadType
  BY DEF FetchInv, TypeInv, Good
<1>2. /\ rd' \in [Reads -> ReadType] /\ rd'[r] = x
      /\ \A q \in Reads : q # r => rd'[q] = rd[q]
      /\ image' \in [Images -> ImageType]
      /\ \A i \in Images : image'[i].failed = image[i].failed
      /\ TurnOK(sched')
  BY <1>1, SteppedIs
<1>3. TypeInv'
  BY <1>2 DEF FetchInv, TypeInv
<1>4. ReadInv(r)'
  BY <1>2 DEF ReadInv, Hash
<1>5. \A q \in Reads : q # r => ReadInv(q)'
  BY <1>2, OtherReads
<1>6. \A q \in Reads : rd'[q].buffer \in {0, rd[q].buffer} \cup Buffers(lru)
  BY <1>2
<1>7. WaitInv'
  BY <1>2, WaitKept
<1> QED BY <1>2, <1>3, <1>4, <1>5, <1>6, <1>7, Conclude

\* A step of read r alone.
LEMMA LocalStep ==
  ASSUME FetchInv, NEW r \in Reads, NEW x, Good(x), rd' = [rd EXCEPT ![r] = x],
         Starved(x) => image[Of(r)].failed,
         Leads(x) => reg[Head(x.todo)] = r,
         Fetching(x) => \A k \in DOMAIN lru : lru[k].hash # Head(x.todo),
         x.buffer \in {0, rd[r].buffer}, UNCHANGED <<reg, lru, image, sched>>,
         Keeps(rd[r], x), Asks(rd[r], x)
  PROVE  FetchInv'
<1>1. rd \in [Reads -> ReadType] /\ x \in ReadType
  BY DEF FetchInv, TypeInv, Good
<1>2. /\ rd' \in [Reads -> ReadType] /\ rd'[r] = x
      /\ \A q \in Reads : q # r => rd'[q] = rd[q]
  BY <1>1
<1>3. TypeInv' /\ TurnOK(sched')
  BY <1>2 DEF FetchInv, TypeInv
<1>4. ReadInv(r)'
  BY <1>2 DEF ReadInv, Hash, Of
<1>5. \A q \in Reads : q # r => ReadInv(q)'
  BY <1>2, OtherReads
<1>6. \A q \in Reads : rd'[q].buffer \in {0, rd[q].buffer} \cup Buffers(lru)
  BY <1>2
<1>7. WaitInv'
  BY <1>2, WaitKept
<1> QED BY <1>2, <1>3, <1>4, <1>5, <1>6, <1>7, Conclude

\* Pushing a read changes where it waits for IO and nothing else.
LEMMA PushedIs ==
  ASSUME NEW x \in ReadType
  PROVE  /\ Pushed(x) \in ReadType /\ Pushed(x).io # "ready"
         /\ Pushed(x).stage = x.stage /\ Pushed(x).todo = x.todo
         /\ Pushed(x).buffer = x.buffer /\ Pushed(x).got = x.got
         /\ Pushed(x).wrong = x.wrong /\ Pushed(x).cell = x.cell
<1>1. PICK io \in {"kernel", "bulk"} : Pushed(x) = [x EXCEPT !.io = io]
  BY DEF Pushed
<1> QED BY <1>1 DEF ReadType

\* A read that leads nothing owes nothing; the same stage and block owe the same.
LEMMA OwesNothing ==
  ASSUME NEW x, x.stage \notin {"peek", "header", "payload", "publish", "drop"}, NEW y
  PROVE  Keeps(x, y)
BY DEF Keeps, Owes, Leading, Leads
LEMMA OwesTheSame ==
  ASSUME NEW x, NEW y, y.todo = x.todo,
         y.stage = x.stage \/ (Leads(x) /\ Leads(y))
  PROVE  Keeps(x, y)
<1>1. CASE y.stage = x.stage
  BY <1>1 DEF Keeps, Owes, Leading, Leads
<1>2. CASE Leads(x) /\ Leads(y)
  BY <1>2 DEF Keeps, Owes, Leading, Leads
<1> QED BY <1>1, <1>2

-----------------------------------------------------------------------------
(* The actions.                                                            *)

\* Reactor::start_read begins with an unanswered read.
LEMMA StartInv ==
  ASSUME FetchInv, NEW r \in Reads, Start(r)
  PROVE  FetchInv'
<1>1. PICK todo \in SeqOf(Hashes, MaxLength) :
        \E read \in NextBlock([Idle EXCEPT !.todo = todo])
                      \cup {Pushed([Idle EXCEPT !.stage = "own", !.todo = todo])} :
          Stepped(rd, r, read)
  BY DEF Start
<1>2. PICK read \in NextBlock([Idle EXCEPT !.todo = todo])
                      \cup {Pushed([Idle EXCEPT !.stage = "own", !.todo = todo])} :
          Stepped(rd, r, read)
  BY <1>1
<1>3. todo \in Seq(Hashes)
  BY FetchConstants DEF SeqOf
<1> DEFINE y == [Idle EXCEPT !.todo = todo]
           z == [Idle EXCEPT !.stage = "own", !.todo = todo]
<1>4. y \in ReadType /\ ~y.wrong /\ y.cell = Nobody
  BY <1>3 DEF Idle, ReadType, Stages
<1>5. /\ z \in ReadType /\ ~z.wrong /\ z.stage = "own" /\ z.buffer = 0
      /\ z.got = "none" /\ z.cell = Nobody
  BY <1>3 DEF Idle, ReadType, Stages
<1> HIDE DEF y, z
<1>6. /\ Good(read) /\ read.stage \in {"done", "get", "own"} /\ read.buffer = 0
      /\ read.cell = Nobody
  <2>1. CASE read \in NextBlock(y)
    BY <2>1, <1>4, NextBlockIs
  <2>2. CASE read = Pushed(z)
    BY <2>2, <1>5, PushedIs DEF Good
  <2> QED BY <2>1, <2>2 DEF y, z
<1>7. UNCHANGED <<reg, lru>> /\ rd[r].stage = "idle"
  BY DEF Start
<1>8. Keeps(rd[r], read) /\ Asks(rd[r], read)
  BY <1>6, <1>7, OwesNothing DEF Asks
<1> QED BY <1>2, <1>6, <1>7, <1>8, ReadStep DEF Starved, Leads, Fetching

\* Reactor::submit_bulk only hands a read to the kernel.
LEMMA SubmitInv ==
  ASSUME FetchInv, NEW i \in Images, Submit(i)
  PROVE  FetchInv'
<1>1. /\ image[i].bulk # <<>> /\ Selected(sched) = i
      /\ rd' = [rd EXCEPT ![Head(image[i].bulk)].io = "kernel"]
      /\ image' = [image EXCEPT ![i].bulk = Tail(@)]
      /\ sched' = Take(sched, i, Len(image[i].bulk) > 1)
      /\ UNCHANGED <<reg, lru>>
  BY DEF Submit
<1>2. rd \in [Reads -> ReadType] /\ image \in [Images -> ImageType]
  BY DEF FetchInv, TypeInv
<1>13. Head(image[i].bulk) \in Reads /\ Tail(image[i].bulk) \in Seq(Reads)
  BY <1>1, <1>2 DEF ImageType
<1>3. PICK r \in Reads : r = Head(image[i].bulk)
  BY <1>13
<1>4. rd' = [rd EXCEPT ![r].io = "kernel"]
  BY <1>1, <1>3
<1>5. /\ rd' \in [Reads -> ReadType]
      /\ \A q \in Reads : q # r => rd'[q] = rd[q]
      /\ rd'[r] = [rd[r] EXCEPT !.io = "kernel"]
  BY <1>2, <1>3, <1>4, ZenonT(60) DEF ReadType
<1>6. /\ rd'[r].stage = rd[r].stage /\ rd'[r].todo = rd[r].todo
      /\ rd'[r].got = rd[r].got /\ rd'[r].buffer = rd[r].buffer
      /\ rd'[r].wrong = rd[r].wrong /\ rd'[r].io = "kernel"
      /\ rd'[r].cell = rd[r].cell
  BY <1>2, <1>3, <1>5 DEF ReadType
<1>7. /\ image' \in [Images -> ImageType]
      /\ \A j \in Images : image'[j].failed = image[j].failed
  BY <1>1, <1>2, <1>13 DEF ImageType
<1>8. TurnOK(sched')
  <2>1. (Len(image[i].bulk) > 1) \in BOOLEAN
    OBVIOUS
  <2> QED BY <1>1, <2>1, TakeOK DEF FetchInv
<1>9. TypeInv'
  BY <1>1, <1>5, <1>7 DEF FetchInv, TypeInv
<1>10. ReadInv(r)'
  <2>1. ReadInv(r)
    BY <1>3 DEF FetchInv
  <2>2. Good(rd'[r])
    BY <1>2, <1>3, <1>5, <1>6, <2>1 DEF ReadInv, Good
  <2> QED BY <1>1, <1>6, <2>1, <2>2 DEF ReadInv, Starved, Leads, Fetching, Hash
<1>11. \A q \in Reads : q # r => ReadInv(q)'
  BY <1>1, <1>3, <1>5, <1>7, OtherReads
<1>12. \A q \in Reads : rd'[q].buffer \in {0, rd[q].buffer} \cup Buffers(lru)
  BY <1>5, <1>6
<1>14. Keeps(rd[r], rd'[r]) /\ Asks(rd[r], rd'[r])
  BY <1>6, OwesTheSame DEF Asks
<1>15. WaitInv'
  BY <1>1, <1>5, <1>14, WaitKept
<1> QED BY <1>1, <1>8, <1>9, <1>10, <1>11, <1>12, <1>15, Conclude

\* A poll completes when it was answered, or when its image cancelled it.
LEMMA CompleteInv ==
  ASSUME FetchInv, NEW r \in Reads, Complete(r)
  PROVE  FetchInv'
<1>1. PICK bytes \in IF rd[r].stage # "payload" THEN {rd[r].got}
                      ELSE {Hash(r)} \cup {b \in {"bad"} : "corrupt" \in Faults
                                                 /\ used.fault = "none"} :
        rd' = [rd EXCEPT ![r].io = "ready", ![r].got = bytes]
  BY DEF Complete
<1>2. /\ rd[r].stage = "waiting" => rd[r].got # "none" \/ image[Of(r)].failed
      /\ UNCHANGED <<reg, lru, image, sched>>
  BY DEF Complete
<1>3. rd \in [Reads -> ReadType] /\ ReadInv(r)
  BY DEF FetchInv, TypeInv
<1>4. bytes \in Hashes \cup {"none", "failed", "bad"}
  <2>1. CASE rd[r].stage # "payload"
    BY <2>1, <1>1, <1>3 DEF ReadType
  <2>2. CASE rd[r].stage = "payload"
    <3>1. Hash(r) \in Hashes
      BY <2>2, <1>3 DEF ReadInv, Good, ReadType, Hash
    <3> QED BY <3>1, <2>2, <1>1
  <2> QED BY <2>1, <2>2
<1> DEFINE x == [rd[r] EXCEPT !.io = "ready", !.got = bytes]
<1>5. rd' = [rd EXCEPT ![r] = x]
  BY <1>1, <1>3
<1>6. /\ x \in ReadType /\ x.stage = rd[r].stage /\ x.todo = rd[r].todo
      /\ x.buffer = rd[r].buffer /\ x.wrong = rd[r].wrong /\ x.got = bytes
      /\ x.cell = rd[r].cell
  BY <1>3, <1>4 DEF ReadType
<1> HIDE DEF x
<1>7. rd[r].stage # "payload" => bytes = rd[r].got
  BY <1>1
<1>8. Good(x)
  BY <1>3, <1>6, <1>7 DEF ReadInv, Good
<1>9. Starved(x) => image[Of(r)].failed
  BY <1>2, <1>6, <1>7 DEF Starved
<1>10. /\ Leads(x) => reg[Head(x.todo)] = r
       /\ Fetching(x) => \A k \in DOMAIN lru : lru[k].hash # Head(x.todo)
  BY <1>3, <1>6 DEF ReadInv, Leads, Fetching, Hash
<1>11. Keeps(rd[r], x) /\ Asks(rd[r], x)
  BY <1>6, OwesTheSame DEF Asks
<1> QED BY <1>2, <1>5, <1>6, <1>8, <1>9, <1>10, <1>11, LocalStep

\* Cache::get hands out the bytes of the hash; the promoted cache is the same
\* blocks in another order.
LEMMA GetInv ==
  ASSUME FetchInv, NEW r \in Reads, Get(r)
  PROVE  FetchInv'
<1>1. rd \in [Reads -> ReadType] /\ lru \in Seq(Block) /\ ReadInv(r)
  BY DEF FetchInv, TypeInv
<1>2. /\ rd[r].stage = "get" /\ rd[r].todo # <<>> /\ rd[r].got = "none"
      /\ Hash(r) \in Hashes /\ Good(rd[r]) /\ rd[r].cell = Nobody
  <2>1. rd[r].stage = "get"
    BY DEF Get
  <2>2. rd[r].todo # <<>> /\ rd[r].got = "none" /\ Good(rd[r]) /\ rd[r].cell = Nobody
    BY <1>1, <2>1 DEF ReadInv, Good
  <2> QED BY <1>1, <2>1, <2>2 DEF ReadType, Hash
<1>3. PICK at : at = Find(lru, Hash(r))
  OBVIOUS
<1>4. /\ at # 0 => at \in DOMAIN lru /\ lru[at].hash = Hash(r)
      /\ at = 0 => \A k \in DOMAIN lru : lru[k].hash # Hash(r)
  BY <1>1, <1>3, FindIs
<1>5. UNCHANGED <<reg, image, sched>>
  BY DEF Get
<1>6. CASE at # 0
  <2>1. /\ lru' = Promote(lru, at)
        /\ rd' = [rd EXCEPT ![r].stage = "copy", ![r].buffer = lru[at].id,
                            ![r].got = lru[at].bytes]
    BY <1>3, <1>6 DEF Get, Find
  <2>2. at \in DOMAIN lru /\ lru[at].hash = Hash(r)
    BY <1>4, <1>6
  <2>3. lru[at].bytes = Hash(r) /\ lru[at].id \in Nat
    <3>1. lru[at] \in Block
      BY <1>1, <2>2
    <3>2. lru[at].bytes = lru[at].hash
      BY <2>2 DEF FetchInv, CacheInv
    <3> QED BY <2>2, <3>1, <3>2 DEF Block
  <2>4. /\ lru' \in Seq(Block)
        /\ \A k \in DOMAIN lru' : \E j \in DOMAIN lru : lru'[k] = lru[j]
    BY <1>1, <2>1, <2>2, PromoteKeeps
  <2> DEFINE x == [rd[r] EXCEPT !.stage = "copy", !.buffer = lru[at].id,
                                !.got = lru[at].bytes]
  <2>5. rd' = [rd EXCEPT ![r] = x]
    BY <1>1, <2>1
  <2>6. /\ x \in ReadType /\ x.stage = "copy" /\ x.todo = rd[r].todo
        /\ x.buffer = lru[at].id /\ x.wrong = rd[r].wrong /\ x.got = Hash(r)
        /\ x.cell = rd[r].cell
    BY <1>1, <1>2, <2>3 DEF ReadType, Stages
  <2> HIDE DEF x
  <2>7. /\ rd' \in [Reads -> ReadType] /\ rd'[r] = x
        /\ \A q \in Reads : q # r => rd'[q] = rd[q]
    BY <1>1, <2>5, <2>6
  <2>8. ReadInv(r)'
    BY <1>2, <2>6, <2>7 DEF ReadInv, Good, Starved, Leads, Fetching, Hash
  <2>9. \A q \in Reads : q # r => ReadInv(q)'
    BY <1>5, <2>4, <2>7, OtherReads
  <2>10. TypeInv' /\ TurnOK(sched')
    BY <1>5, <2>4, <2>7 DEF FetchInv, TypeInv
  <2>11. \A q \in Reads : rd'[q].buffer \in {0, rd[q].buffer} \cup Buffers(lru)
    BY <2>2, <2>6, <2>7 DEF Buffers
  <2>12. WaitInv'
    <3>1. Keeps(rd[r], x) /\ Asks(rd[r], x)
      BY <1>2, <2>6, OwesNothing DEF Asks
    <3> QED BY <1>5, <2>7, <3>1, WaitKept
  <2> QED BY <2>4, <2>8, <2>9, <2>10, <2>11, <2>12, Conclude
<1>7. CASE at = 0
  <2>1. rd' = [rd EXCEPT ![r].stage = "lookup"] /\ UNCHANGED lru
    BY <1>3, <1>7 DEF Get, Find
  <2> DEFINE x == [rd[r] EXCEPT !.stage = "lookup"]
  <2>2. rd' = [rd EXCEPT ![r] = x]
    BY <1>1, <2>1
  <2>3. /\ x \in ReadType /\ x.stage = "lookup" /\ x.todo = rd[r].todo
        /\ x.buffer = rd[r].buffer /\ x.wrong = rd[r].wrong /\ x.got = "none"
        /\ x.cell = Nobody
    BY <1>1, <1>2 DEF ReadType, Stages
  <2> HIDE DEF x
  <2>4. Good(x)
    BY <1>2, <2>3 DEF Good
  <2>5. Keeps(rd[r], x) /\ Asks(rd[r], x)
    BY <1>2, <2>3, OwesNothing DEF Asks
  <2> QED BY <1>5, <2>1, <2>2, <2>3, <2>4, <2>5, LocalStep DEF Starved, Leads, Fetching
<1> QED BY <1>6, <1>7

\* Read::copy answers the block with the bytes the cache held.
LEMMA CopyInv ==
  ASSUME FetchInv, NEW r \in Reads, Copy(r)
  PROVE  FetchInv'
<1>1. Good(rd[r]) /\ rd[r].stage = "copy"
  BY DEF FetchInv, ReadInv, Copy
<1>2. /\ Taken(rd[r], rd[r].got) \in ReadType /\ ~Taken(rd[r], rd[r].got).wrong
      /\ Taken(rd[r], rd[r].got).cell = Nobody
  BY <1>1, TakenIs DEF Good
<1>3. PICK read \in NextBlock(Taken(rd[r], rd[r].got)) : Stepped(rd, r, read)
  BY DEF Copy
<1>4. /\ Good(read) /\ read.stage \in {"done", "get", "own"} /\ read.buffer = 0
      /\ read.cell = Nobody
  BY <1>2, <1>3, NextBlockIs
<1>5. UNCHANGED <<reg, lru>>
  BY DEF Copy
<1>6. Keeps(rd[r], read) /\ Asks(rd[r], read)
  BY <1>1, <1>4, OwesNothing DEF Asks
<1> QED BY <1>3, <1>4, <1>5, <1>6, ReadStep DEF Starved, Leads, Fetching

\* Registry::lookup: a second read of a hash waits, so that one leads.
LEMMA LookupInv ==
  ASSUME FetchInv, NEW r \in Reads, Lookup(r)
  PROVE  FetchInv'
<1>1. /\ rd \in [Reads -> ReadType] /\ ReadInv(r)
      /\ reg \in [Hashes -> Reads \cup {Nobody}]
  BY DEF FetchInv, TypeInv
<1>2. /\ rd[r].stage = "lookup" /\ rd[r].todo # <<>> /\ rd[r].got = "none"
      /\ Hash(r) \in Hashes /\ Good(rd[r]) /\ rd[r] \in ReadType
      /\ rd[r].cell = Nobody
  <2>1. rd[r].stage = "lookup"
    BY DEF Lookup
  <2>2. rd[r].todo # <<>> /\ rd[r].got = "none" /\ Good(rd[r]) /\ rd[r].cell = Nobody
    BY <1>1, <2>1 DEF ReadInv, Good
  <2> QED BY <1>1, <2>1, <2>2 DEF ReadType, Hash
<1>3. UNCHANGED <<lru, image, sched>>
  BY DEF Lookup
<1>4. CASE reg[Hash(r)] # Nobody
  <2> DEFINE y == [rd[r] EXCEPT !.stage = "waiting", !.cell = reg[Hash(r)]]
             x == Pushed(y)
  <2>1. rd' = [rd EXCEPT ![r] = x] /\ UNCHANGED reg
    BY <1>1, <1>4 DEF Lookup
  <2>2. /\ y \in ReadType /\ y.stage = "waiting" /\ y.todo = rd[r].todo
        /\ y.buffer = rd[r].buffer /\ y.wrong = rd[r].wrong /\ y.got = "none"
        /\ y.cell = reg[Hash(r)]
    BY <1>1, <1>2 DEF ReadType, Stages
  <2> HIDE DEF y
  <2>3. /\ x \in ReadType /\ x.stage = "waiting" /\ x.todo = rd[r].todo
        /\ x.buffer = rd[r].buffer /\ x.wrong = rd[r].wrong /\ x.got = "none"
        /\ x.io # "ready" /\ x.cell = reg[Hash(r)]
    BY <2>2, PushedIs
  <2> HIDE DEF x
  <2>4. Good(x)
    BY <1>2, <2>3 DEF Good
  <2>5. Leading(rd[reg[Hash(r)]], Hash(r))
    BY <1>2, <1>4 DEF FetchInv, WaitInv
  <2>6. Keeps(rd[r], x) /\ Asks(rd[r], x)
    BY <1>2, <2>3, <2>5, OwesNothing DEF Asks, Hash
  <2> QED BY <1>3, <2>1, <2>3, <2>4, <2>6, LocalStep DEF Starved, Leads, Fetching
<1>5. CASE reg[Hash(r)] = Nobody
  <2> DEFINE x == [rd[r] EXCEPT !.stage = "peek"]
  <2>1. /\ rd' = [rd EXCEPT ![r] = x]
        /\ reg' = [reg EXCEPT ![Hash(r)] = r]
    BY <1>1, <1>5 DEF Lookup
  <2>2. /\ x \in ReadType /\ x.stage = "peek" /\ x.todo = rd[r].todo
        /\ x.buffer = rd[r].buffer /\ x.wrong = rd[r].wrong /\ x.got = "none"
        /\ x.cell = Nobody
    BY <1>2 DEF ReadType, Stages
  <2> HIDE DEF x
  <2>3. /\ rd' \in [Reads -> ReadType] /\ rd'[r] = x
        /\ \A q \in Reads : q # r => rd'[q] = rd[q]
    BY <1>1, <2>1, <2>2
  <2>4. reg' \in [Hashes -> Reads \cup {Nobody}] /\ reg'[Hash(r)] = r
    BY <1>1, <1>2, <2>1
  <2>5. ReadInv(r)'
    BY <1>2, <2>2, <2>3, <2>4 DEF ReadInv, Good, Starved, Leads, Fetching, Hash
  <2>6. ASSUME NEW q \in Reads, q # r PROVE ReadInv(q)'
    <3>1. ReadInv(q) /\ rd'[q] = rd[q] /\ q # Nobody
      BY <2>3, <2>6, Constants DEF FetchInv, Nobody
    <3>2. Leads(rd[q]) => reg'[Hash(q)] = q
      <4> SUFFICES ASSUME Leads(rd[q]) PROVE reg'[Hash(q)] = q
        OBVIOUS
      <4>1. reg[Hash(q)] = q
        BY <3>1 DEF ReadInv
      <4>2. Hash(q) # Hash(r) /\ Hash(q) \in Hashes
        <5>1. rd[q].todo # <<>> /\ rd[q] \in ReadType
          BY <3>1 DEF ReadInv, Good, Leads
        <5> QED BY <5>1, <3>1, <4>1, <1>5 DEF ReadType, Hash
      <4> QED BY <1>1, <2>1, <4>1, <4>2
    <3> QED BY <1>3, <3>1, <3>2, OtherRead DEF ReadInv
  <2>7. TypeInv' /\ TurnOK(sched')
    BY <1>3, <2>3, <2>4 DEF FetchInv, TypeInv
  <2>8. \A q \in Reads : rd'[q].buffer \in {0, rd[q].buffer} \cup Buffers(lru)
    BY <2>2, <2>3
  <2>9. WaitInv'
    <3>1. ASSUME NEW q \in Reads, rd'[q].cell # Nobody
          PROVE  Owes(rd'[rd'[q].cell], Head(rd'[q].todo))
      <4>1. q # r /\ rd'[q] = rd[q]
        BY <2>2, <2>3, <3>1
      <4>2. Owes(rd[rd[q].cell], Hash(q)) /\ rd[q].cell \in Reads
        BY <1>1, <3>1, <4>1 DEF FetchInv, WaitInv, ReadType
      <4>3. rd[q].cell # r
        BY <1>2, <4>2 DEF Owes
      <4> QED BY <2>3, <4>1, <4>2, <4>3 DEF Hash
    <3>2. ASSUME NEW h \in Hashes, reg'[h] # Nobody PROVE Leading(rd'[reg'[h]], h)
      <4>1. CASE h = Hash(r)
        BY <1>2, <2>2, <2>3, <2>4, <4>1 DEF Leading, Leads, Hash
      <4>2. CASE h # Hash(r)
        <5>1. reg'[h] = reg[h] /\ reg[h] \in Reads /\ Leading(rd[reg[h]], h)
          BY <1>1, <2>1, <3>2, <4>2 DEF FetchInv, WaitInv
        <5>2. reg[h] # r
          BY <1>2, <5>1 DEF Leading, Leads
        <5> QED BY <2>3, <5>1, <5>2
      <4> QED BY <4>1, <4>2
    <3> QED BY <3>1, <3>2 DEF WaitInv, Hash
  <2> QED BY <1>3, <2>5, <2>6, <2>7, <2>8, <2>9, Conclude
<1> QED BY <1>4, <1>5

\* A leader that has its bytes leaves the registry: no other read led that hash,
\* and it still owes the bytes.
LEMMA LeaderStep ==
  ASSUME FetchInv, NEW r \in Reads, Leads(rd[r]), NEW x, Good(x),
         x.stage = "publish", x.todo = rd[r].todo, x.cell = Nobody,
         x.buffer = rd[r].buffer, Stepped(rd, r, x),
         reg' = Unregistered(r), lru' \in Seq(Block),
         \A k \in DOMAIN lru' :
            lru'[k].hash = Hash(r) \/ \E j \in DOMAIN lru : lru'[k] = lru[j]
  PROVE  /\ TypeInv' /\ TurnOK(sched') /\ (\A q \in Reads : ReadInv(q)') /\ WaitInv'
         /\ \A q \in Reads : rd'[q].buffer \in {0, rd[q].buffer}
<1>1. /\ reg \in [Hashes -> Reads \cup {Nobody}] /\ ReadInv(r) /\ x \in ReadType
      /\ rd \in [Reads -> ReadType] /\ \A q \in Reads : q # Nobody
  BY Constants DEF FetchInv, TypeInv, Good, Nobody
<1>2. \A q \in Reads : Leads(rd[q]) => Hash(q) \in Hashes /\ reg[Hash(q)] = q
  <2> SUFFICES ASSUME NEW q \in Reads, Leads(rd[q])
               PROVE  Hash(q) \in Hashes /\ reg[Hash(q)] = q
    OBVIOUS
  <2>1. ReadInv(q)
    BY DEF FetchInv
  <2>2. rd[q] \in ReadType /\ rd[q].todo # <<>>
    BY <2>1 DEF ReadInv, Good, Leads
  <2> QED BY <2>1, <2>2 DEF ReadInv, ReadType, Hash
<1>5. /\ rd' \in [Reads -> ReadType] /\ rd'[r] = x
      /\ \A q \in Reads : q # r => rd'[q] = rd[q]
      /\ image' \in [Images -> ImageType]
      /\ \A i \in Images : image'[i].failed = image[i].failed
      /\ TurnOK(sched')
  BY <1>1, SteppedIs
<1>6. reg' \in [Hashes -> Reads \cup {Nobody}]
  BY <1>1 DEF Unregistered, Nobody
<1>7. TypeInv'
  BY <1>5, <1>6 DEF TypeInv
<1>8. ReadInv(r)'
  BY <1>5 DEF ReadInv, Starved, Leads, Fetching
<1>9. ASSUME NEW q \in Reads, q # r PROVE ReadInv(q)'
  <2>1. rd'[q] = rd[q] /\ ReadInv(q) /\ Of(q) \in Images
    BY <1>5, <1>9, Constants DEF FetchInv
  <2>2. Leads(rd[q]) => Hash(q) # Hash(r)
    BY <1>2, <1>9
  <2>3. Leads(rd[q]) => reg'[Hash(q)] = q
    BY <1>2, <1>9 DEF Unregistered
  <2>4. Fetching(rd[q]) => \A k \in DOMAIN lru' : lru'[k].hash # Hash(q)
    <3>1. Fetching(rd[q]) => Leads(rd[q])
      BY DEF Fetching, Leads
    <3> QED BY <3>1, <2>1, <2>2 DEF ReadInv
  <2>5. Good(rd'[q])
    BY <2>1 DEF ReadInv
  <2> QED BY <1>5, <2>1, <2>3, <2>4, <2>5, OtherRead, ZenonT(60)
<1>10. \A q \in Reads : rd'[q].buffer \in {0, rd[q].buffer}
  BY <1>5
<1>11. \A c \in Reads : \A h : Owes(rd[c], h) => Owes(rd'[c], h)
  <2>1. \A h : Owes(rd[r], h) => Owes(x, h)
    BY DEF Owes, Leads
  <2> QED BY <1>5, <2>1
<1>12. ASSUME NEW q \in Reads, rd'[q].cell # Nobody
       PROVE  Owes(rd'[rd'[q].cell], Head(rd'[q].todo))
  <2>1. q # r /\ rd'[q] = rd[q]
    BY <1>5, <1>12
  <2>2. Owes(rd[rd[q].cell], Hash(q)) /\ rd[q].cell \in Reads
    BY <1>1, <1>12, <2>1 DEF FetchInv, WaitInv, ReadType
  <2> QED BY <1>11, <2>1, <2>2 DEF Hash
<1>13. ASSUME NEW h \in Hashes, reg'[h] # Nobody PROVE Leading(rd'[reg'[h]], h)
  <2>1. reg'[h] = reg[h] /\ reg[h] # r /\ reg[h] \in Reads
    BY <1>1, <1>13 DEF Unregistered
  <2>2. Leading(rd[reg[h]], h)
    BY <1>13, <2>1 DEF FetchInv, WaitInv
  <2> QED BY <1>5, <2>1, <2>2
<1>14. WaitInv'
  BY <1>12, <1>13 DEF WaitInv, Hash
<1> QED BY <1>5, <1>7, <1>8, <1>9, <1>10, <1>14

\* Leader::finish's second critical section: every waiter of the cell is told the
\* bytes its own block names, or that the fetch failed.
LEMMA PublishInv ==
  ASSUME FetchInv, NEW r \in Reads, Publish(r)
  PROVE  FetchInv'
<1>1. /\ rd \in [Reads -> ReadType] /\ ReadInv(r) /\ Good(rd[r])
      /\ reg \in [Hashes -> Reads \cup {Nobody}] /\ rd[r] \in ReadType
      /\ UNCHANGED <<reg, lru>> /\ rd[r].stage \in {"publish", "drop"}
      /\ r # Nobody /\ rd[r].cell = Nobody
  <2>1. /\ rd \in [Reads -> ReadType] /\ ReadInv(r)
        /\ reg \in [Hashes -> Reads \cup {Nobody}]
    BY DEF FetchInv, TypeInv
  <2>2. UNCHANGED <<reg, lru>> /\ rd[r].stage \in {"publish", "drop"}
    BY DEF Publish
  <2>3. Good(rd[r])
    BY <2>1 DEF ReadInv
  <2> QED BY <2>1, <2>2, <2>3, Constants DEF Good, Nobody
<1>2. PICK got, x :
        /\ got \in Hashes \cup {"failed"}
        /\ \A h : Owes(rd[r], h) => got = h \/ got = "failed"
        /\ Good(x) /\ x.stage \in {"done", "get", "own", "failed"}
        /\ x.buffer \in {0, rd[r].buffer} /\ x.cell = Nobody
        /\ Stepped(Told(r, got), r, x)
  <2>1. CASE rd[r].stage = "publish"
    <3>1. PICK x \in NextBlock(Taken(rd[r], rd[r].got)) : Stepped(Told(r, rd[r].got), r, x)
      BY <2>1 DEF Publish
    <3>2. rd[r].todo # <<>> /\ rd[r].got = Head(rd[r].todo)
      BY <1>1, <2>1 DEF Good
    <3>3. rd[r].got \in Hashes
      BY <1>1, <3>2 DEF ReadType
    <3>4. /\ Taken(rd[r], rd[r].got) \in ReadType /\ ~Taken(rd[r], rd[r].got).wrong
          /\ Taken(rd[r], rd[r].got).cell = Nobody
      BY <1>1, <3>2, TakenIs
    <3>5. /\ Good(x) /\ x.stage \in {"done", "get", "own"} /\ x.buffer = 0
          /\ x.cell = Nobody
      BY <3>1, <3>4, NextBlockIs
    <3>6. \A h : Owes(rd[r], h) => rd[r].got = h
      BY <2>1, <3>2 DEF Owes
    <3> QED BY <3>1, <3>3, <3>5, <3>6
  <2>2. CASE rd[r].stage = "drop"
    <3> DEFINE x == [rd[r] EXCEPT !.stage = "failed"]
    <3>1. Stepped(Told(r, "failed"), r, x)
      BY <2>2 DEF Publish
    <3>2. /\ x \in ReadType /\ x.stage = "failed" /\ x.wrong = rd[r].wrong
          /\ x.buffer = rd[r].buffer /\ x.cell = Nobody
      BY <1>1 DEF ReadType, Stages
    <3> HIDE DEF x
    <3>3. Good(x)
      BY <1>1, <3>2 DEF Good
    <3>4. "failed" \in Hashes \cup {"failed"}
      OBVIOUS
    <3> QED BY <3>1, <3>2, <3>3, <3>4
  <2> QED BY <1>1, <2>1, <2>2
<1> DEFINE base == Told(r, got)
<1>3. /\ base \in [Reads -> ReadType]
      /\ \A q \in Reads :
           /\ Good(base[q]) /\ base[q].stage = rd[q].stage
           /\ base[q].todo = rd[q].todo /\ base[q].buffer = rd[q].buffer
           /\ (Starved(base[q]) => Starved(rd[q]))
           /\ base[q].cell # r /\ base[q].cell \in {Nobody, rd[q].cell}
  BY <1>2, ToldIs
<1>4. Stepped(base, r, x)
  BY <1>2
<1> HIDE DEF base
<1>5. /\ rd' \in [Reads -> ReadType] /\ rd'[r] = x
      /\ \A q \in Reads : q # r => rd'[q] = base[q]
      /\ image' \in [Images -> ImageType]
      /\ \A i \in Images : image'[i].failed = image[i].failed
      /\ TurnOK(sched')
  <2>1. x \in ReadType
    BY <1>2 DEF Good
  <2> QED BY <1>3, <1>4, <2>1, SteppedIs
<1>6. TypeInv'
  BY <1>1, <1>5 DEF FetchInv, TypeInv
<1>7. ReadInv(r)'
  BY <1>2, <1>5 DEF ReadInv, Starved, Leads, Fetching
<1>8. ASSUME NEW q \in Reads, q # r PROVE ReadInv(q)'
  <2>1. rd'[q] = base[q] /\ ReadInv(q) /\ Of(q) \in Images
    BY <1>5, <1>8, Constants DEF FetchInv
  <2>2. Leads(rd[q]) => reg'[Hash(q)] = q
    BY <1>1, <2>1 DEF ReadInv
  <2>3. Fetching(rd[q]) => \A k \in DOMAIN lru' : lru'[k].hash # Hash(q)
    BY <1>1, <2>1 DEF ReadInv
  <2> QED BY <1>3, <1>5, <2>1, <2>2, <2>3, OtherRead, ZenonT(60)
<1>9. ASSUME NEW q \in Reads, rd'[q].cell # Nobody
      PROVE  Owes(rd'[rd'[q].cell], Head(rd'[q].todo))
  <2>1. q # r /\ rd'[q] = base[q]
    BY <1>2, <1>5, <1>9
  <2>2. /\ rd'[q].cell = rd[q].cell /\ rd[q].cell # r /\ rd[q].cell \in Reads
        /\ rd'[q].todo = rd[q].todo
    BY <1>1, <1>3, <1>9, <2>1 DEF ReadType
  <2>3. Owes(rd[rd[q].cell], Hash(q))
    BY <1>9, <2>2 DEF FetchInv, WaitInv
  <2>4. /\ rd'[rd[q].cell].stage = rd[rd[q].cell].stage
        /\ rd'[rd[q].cell].todo = rd[rd[q].cell].todo
    BY <1>3, <1>5, <2>2
  <2> QED BY <2>2, <2>3, <2>4 DEF Owes, Hash
<1>10. ASSUME NEW h \in Hashes, reg'[h] # Nobody PROVE Leading(rd'[reg'[h]], h)
  <2>1. reg'[h] = reg[h] /\ reg[h] \in Reads /\ Leading(rd[reg[h]], h)
    BY <1>1, <1>10 DEF FetchInv, WaitInv
  <2>2. reg[h] # r
    BY <1>1, <2>1 DEF Leading, Leads
  <2>3. rd'[reg[h]].stage = rd[reg[h]].stage /\ rd'[reg[h]].todo = rd[reg[h]].todo
    BY <1>3, <1>5, <2>1, <2>2
  <2> QED BY <2>1, <2>3 DEF Leading, Leads
<1>11. WaitInv'
  BY <1>9, <1>10 DEF WaitInv, Hash
<1>12. \A q \in Reads : rd'[q].buffer \in {0, rd[q].buffer} \cup Buffers(lru)
  BY <1>2, <1>3, <1>5
<1> QED BY <1>1, <1>5, <1>6, <1>7, <1>8, <1>11, <1>12, Conclude

\* Read::chunk of a new leader: the block it finds resident is the answer, and
\* otherwise it fetches a block that is not.
LEMMA PeekInv ==
  ASSUME FetchInv, NEW r \in Reads, Peek(r)
  PROVE  FetchInv'
<1>1. rd \in [Reads -> ReadType] /\ lru \in Seq(Block) /\ ReadInv(r)
  BY DEF FetchInv, TypeInv
<1>2. /\ rd[r].stage = "peek" /\ rd[r].todo # <<>> /\ Good(rd[r])
      /\ rd[r] \in ReadType /\ rd[r].cell = Nobody
  <2>1. rd[r].stage = "peek"
    BY DEF Peek
  <2> QED BY <1>1, <2>1 DEF ReadInv, Good
<1>3. PICK at : at = Find(lru, Hash(r))
  OBVIOUS
<1>4. /\ at # 0 => at \in DOMAIN lru /\ lru[at].hash = Hash(r)
      /\ at = 0 => \A k \in DOMAIN lru : lru[k].hash # Hash(r)
  BY <1>1, <1>3, FindIs
<1>5. UNCHANGED lru
  BY DEF Peek
<1>6. CASE at # 0
  <2>1. lru[at].bytes = Hash(r)
    BY <1>4, <1>6 DEF FetchInv, CacheInv
  <2> DEFINE x == [rd[r] EXCEPT !.stage = "publish", !.got = lru[at].bytes]
  <2>2. reg' = Unregistered(r) /\ Stepped(rd, r, x)
    BY <1>3, <1>6 DEF Peek, Find
  <2>3. Hash(r) \in Hashes
    BY <1>2 DEF ReadType, Hash
  <2>4. /\ x \in ReadType /\ x.stage = "publish" /\ x.todo = rd[r].todo
        /\ x.buffer = rd[r].buffer /\ x.wrong = rd[r].wrong /\ x.got = Hash(r)
        /\ x.cell = Nobody
    BY <1>2, <2>1, <2>3 DEF ReadType, Stages
  <2> HIDE DEF x
  <2>5. Good(x)
    BY <1>2, <2>4 DEF Good, Hash
  <2>6. Leads(rd[r])
    BY <1>2 DEF Leads
  <2>7. /\ TypeInv' /\ TurnOK(sched') /\ (\A q \in Reads : ReadInv(q)') /\ WaitInv'
        /\ \A q \in Reads : rd'[q].buffer \in {0, rd[q].buffer}
    BY <1>1, <1>5, <2>2, <2>4, <2>5, <2>6, LeaderStep
  <2> QED BY <1>5, <2>7, Conclude
<1>7. CASE at = 0
  <2> DEFINE y == [rd[r] EXCEPT !.stage = "header"]
             x == Pushed(y)
  <2>1. Stepped(rd, r, x) /\ UNCHANGED reg
    BY <1>3, <1>7 DEF Peek, Find
  <2>2. /\ y \in ReadType /\ y.stage = "header" /\ y.todo = rd[r].todo
        /\ y.buffer = rd[r].buffer /\ y.wrong = rd[r].wrong /\ y.cell = rd[r].cell
    BY <1>2 DEF ReadType, Stages
  <2> HIDE DEF y
  <2>3. /\ x \in ReadType /\ x.stage = "header" /\ x.todo = rd[r].todo
        /\ x.buffer = rd[r].buffer /\ x.wrong = rd[r].wrong /\ x.cell = rd[r].cell
    BY <2>2, PushedIs
  <2> HIDE DEF x
  <2>4. Good(x) /\ ~Starved(x)
    BY <1>2, <2>3 DEF Good, Starved
  <2>5. reg[Head(x.todo)] = r
    BY <1>1, <1>2, <2>3 DEF ReadInv, Leads, Hash
  <2>6. \A k \in DOMAIN lru : lru[k].hash # Head(x.todo)
    BY <1>4, <1>7, <2>3 DEF Hash
  <2>7. Keeps(rd[r], x) /\ Asks(rd[r], x)
    BY <1>2, <2>3, OwesTheSame DEF Asks, Leads
  <2> QED BY <1>5, <2>1, <2>3, <2>4, <2>5, <2>6, <2>7, ReadStep
<1> QED BY <1>6, <1>7

\* Cache::fill adds the new block to blocks that were there.
LEMMA FilledIs ==
  ASSUME FetchInv, NEW b \in Block
  PROVE  /\ Filled(b) \in Seq(Block)
         /\ \A k \in DOMAIN Filled(b) :
              Filled(b)[k] = b \/ \E j \in DOMAIN lru : Filled(b)[k] = lru[j]
         /\ \/ \A k \in DOMAIN Filled(b) : \E j \in DOMAIN lru : Filled(b)[k] = lru[j]
            \/ \E n \in 0..Len(lru) : /\ Charged(Evict(lru, n)) < Blocks
                                      /\ Filled(b) = Append(Evict(lru, n), b)
<1>1. lru \in Seq(Block) /\ Len(lru) \in Nat
  BY DEF FetchInv, TypeInv
<1> DEFINE room == {k \in 0..Len(lru) : Charged(Evict(lru, k)) < Blocks}
           n == CHOOSE k \in room : \A j \in room : k <= j
<1>2. PICK at : at = Find(lru, b.hash)
  OBVIOUS
<1>3. Filled(b) = IF at # 0 THEN Promote(lru, at)
                  ELSE IF room = {} THEN <<>> ELSE Append(Evict(lru, n), b)
  BY <1>2 DEF Filled, Find, Insert
<1>4. CASE at # 0
  <2>1. at \in DOMAIN lru
    BY <1>1, <1>2, <1>4, FindIs
  <2> HIDE DEF room, n
  <2> QED BY <1>1, <1>3, <1>4, <2>1, PromoteKeeps
<1>5. CASE at = 0 /\ room = {}
  <2>1. Filled(b) = <<>>
    BY <1>3, <1>5
  <2> QED BY <2>1
<1>6. CASE at = 0 /\ room # {}
  <2>1. room \in SUBSET Nat
    BY <1>1
  <2>2. n \in room
    <3> HIDE DEF room
    <3>1. \E m \in room : \A j \in room : m <= j
      BY <2>1, <1>6, LeastExists
    <3> QED BY <3>1
  <2>3. n \in 0..Len(lru) /\ Charged(Evict(lru, n)) < Blocks
    BY <2>2
  <2>4. Filled(b) = Append(Evict(lru, n), b)
    BY <1>3, <1>6
  <2> HIDE DEF room, n
  <2>5. /\ Evict(lru, n) \in Seq(Block)
        /\ \A k \in DOMAIN Evict(lru, n) : \E j \in DOMAIN lru : Evict(lru, n)[k] = lru[j]
    BY <1>1, <2>3, EvictKeeps
  <2> DEFINE e == Evict(lru, n)
  <2>6. Append(e, b) \in Seq(Block)
    BY <2>5
  <2>7. \A k \in DOMAIN Append(e, b) : Append(e, b)[k] = b \/ Append(e, b)[k] = e[k]
    BY <2>5
  <2>8. \A k \in DOMAIN Append(e, b) : Append(e, b)[k] = b \/ k \in DOMAIN e
    BY <2>5
  <2>9. \A k \in DOMAIN Append(e, b) :
          Append(e, b)[k] = b \/ \E j \in DOMAIN lru : Append(e, b)[k] = lru[j]
    BY <2>5, <2>7, <2>8
  <2> QED BY <2>3, <2>4, <2>6, <2>9
<1> QED BY <1>4, <1>5, <1>6

\* The new block is charged in the room the eviction made.
LEMMA FilledFits ==
  ASSUME FetchInv, NEW b \in Block, lru' = Filled(b),
         \A q \in Reads : rd'[q].buffer \in {0, rd[q].buffer}
  PROVE  Charged(lru)' <= Blocks
<1>1. CASE \A k \in DOMAIN Filled(b) : \E j \in DOMAIN lru : Filled(b)[k] = lru[j]
  <2>1. \A k \in DOMAIN lru' : lru'[k].id \in Buffers(lru)
    BY <1>1 DEF Buffers
  <2>2. \A q \in Reads : rd'[q].buffer \in {0} \cup Buffers(lru)
    BY DEF Buffers, Held
  <2> QED BY <2>1, <2>2, FewerBuffers
<1>2. ASSUME NEW n \in 0..Len(lru), Charged(Evict(lru, n)) < Blocks,
             Filled(b) = Append(Evict(lru, n), b)
      PROVE  Charged(lru)' <= Blocks
  <2>1. lru \in Seq(Block) /\ rd \in [Reads -> ReadType]
    BY DEF FetchInv, TypeInv
  <2>2. Evict(lru, n) \in Seq(Block)
    BY <2>1, EvictKeeps
  <2>3. IsFiniteSet(Buffers(Evict(lru, n))) /\ Charged(Evict(lru, n)) \in Nat
    BY <2>1, <2>2, BuffersFinite
  <2> DEFINE e == Evict(lru, n)
             B == Buffers(e)
  <2>4. \A k \in DOMAIN lru' : lru'[k].id \in B \cup {b.id}
    <3>1. lru' = Append(e, b)
      BY <1>2
    <3>2. \A k \in DOMAIN Append(e, b) : Append(e, b)[k] = b
                                           \/ (k \in DOMAIN e /\ Append(e, b)[k] = e[k])
      BY <2>2
    <3> QED BY <3>1, <3>2 DEF Buffers
  <2>5. \A q \in Reads : rd'[q].buffer \in {0} \cup B
    BY DEF Buffers, Held
  <2>6. Buffers(lru)' \subseteq B \cup {b.id}
    <3> HIDE DEF B
    <3> QED BY <2>4, <2>5 DEF Buffers, Held
  <2>7. IsFiniteSet(B) /\ Cardinality(B) \in Nat /\ Cardinality(B) < Blocks
    BY <1>2, <2>3 DEF Charged
  <2> HIDE DEF B
  <2>8. /\ IsFiniteSet(B \cup {b.id})
        /\ Cardinality(B \cup {b.id}) \in {Cardinality(B), Cardinality(B) + 1}
    BY <2>7, FS_AddElement
  <2>9. /\ Cardinality(Buffers(lru)') <= Cardinality(B \cup {b.id})
        /\ Cardinality(Buffers(lru)') \in Nat
    BY <2>6, <2>8, FS_Subset, FS_CardinalityType
  <2>10. Blocks \in Nat
    BY FetchConstants
  <2>11. Cardinality(Buffers(lru)') <= Blocks
    BY <2>7, <2>8, <2>9, <2>10
  <2> QED BY <2>11 DEF Charged
<1> QED BY <1>1, <1>2, FilledIs

\* Read::advance_inner: only verified bytes reach the cache and the answer.
LEMMA AdvanceInv ==
  ASSUME FetchInv, NEW r \in Reads, Advance(r)
  PROVE  FetchInv'
<1>1. /\ rd \in [Reads -> ReadType] /\ lru \in Seq(Block) /\ ReadInv(r)
      /\ rd[r] \in ReadType /\ Good(rd[r])
  BY DEF FetchInv, TypeInv, ReadInv
<1>2. rd[r].io = "ready" /\ ~image[Of(r)].failed
  BY DEF Advance, Serving
<1>3. CASE rd[r].stage = "own"
  <2> DEFINE s == IF rd[r].todo = <<>> THEN "done" ELSE "get"
             x == [rd[r] EXCEPT !.io = "none", !.stage = s]
  <2>1. Stepped(rd, r, x) /\ UNCHANGED <<reg, lru>>
    BY <1>3 DEF Advance
  <2>2. s \in Stages /\ s \in {"done", "get"} /\ (s = "get" => rd[r].todo # <<>>)
    BY DEF Stages
  <2> HIDE DEF s
  <2>3. /\ x \in ReadType /\ x.stage = s /\ x.todo = rd[r].todo
        /\ x.buffer = rd[r].buffer /\ x.wrong = rd[r].wrong /\ x.got = rd[r].got
        /\ x.cell = rd[r].cell
    BY <1>1, <2>2 DEF ReadType
  <2> HIDE DEF x
  <2>4. Good(x)
    BY <1>1, <1>3, <2>2, <2>3 DEF Good
  <2>5. ~Starved(x) /\ ~Leads(x) /\ ~Fetching(x)
    BY <2>2, <2>3 DEF Starved, Leads, Fetching
  <2>6. Keeps(rd[r], x) /\ Asks(rd[r], x)
    BY <1>3, <2>3, OwesNothing DEF Asks
  <2> QED BY <2>1, <2>3, <2>4, <2>5, <2>6, ReadStep
<1>4. CASE rd[r].stage = "header"
  <2> DEFINE y == [rd[r] EXCEPT !.stage = "payload"]
             x == Pushed(y)
  <2>1. Stepped(rd, r, x) /\ UNCHANGED <<reg, lru>>
    BY <1>4 DEF Advance
  <2>2. /\ y \in ReadType /\ y.stage = "payload" /\ y.todo = rd[r].todo
        /\ y.buffer = rd[r].buffer /\ y.wrong = rd[r].wrong /\ y.cell = rd[r].cell
    BY <1>1 DEF ReadType, Stages
  <2> HIDE DEF y
  <2>3. /\ x \in ReadType /\ x.stage = "payload" /\ x.todo = rd[r].todo
        /\ x.buffer = rd[r].buffer /\ x.wrong = rd[r].wrong /\ x.cell = rd[r].cell
    BY <2>2, PushedIs
  <2> HIDE DEF x
  <2>4. Good(x) /\ ~Starved(x)
    BY <1>1, <1>4, <2>3 DEF Good, Starved
  <2>5. /\ reg[Head(x.todo)] = r
        /\ \A k \in DOMAIN lru : lru[k].hash # Head(x.todo)
    BY <1>1, <1>4, <2>3 DEF ReadInv, Leads, Fetching, Hash
  <2>6. Keeps(rd[r], x) /\ Asks(rd[r], x)
    BY <1>4, <2>3, OwesTheSame DEF Asks, Leads
  <2> QED BY <2>1, <2>3, <2>4, <2>5, <2>6, ReadStep
<1>5. CASE rd[r].stage = "payload"
  <2>1. /\ rd[r].got = Hash(r)
        /\ lru' = Filled([hash |-> Hash(r), id |-> NewBuffer, bytes |-> rd[r].got])
        /\ reg' = Unregistered(r)
        /\ Stepped(rd, r, [rd[r] EXCEPT !.stage = "publish", !.io = "none"])
    BY <1>5 DEF Advance, Verified
  <2> DEFINE x == [rd[r] EXCEPT !.stage = "publish", !.io = "none"]
  <2>2. Stepped(rd, r, x)
    BY <2>1
  <2>3. rd[r].todo # <<>> /\ Hash(r) \in Hashes
    <3>1. rd[r].todo # <<>>
      BY <1>1, <1>5 DEF Good
    <3> QED BY <1>1, <3>1 DEF ReadType, Hash
  <2>4. /\ x \in ReadType /\ x.stage = "publish" /\ x.todo = rd[r].todo
        /\ x.buffer = rd[r].buffer /\ x.wrong = rd[r].wrong /\ x.got = rd[r].got
        /\ x.cell = rd[r].cell
    BY <1>1 DEF ReadType, Stages
  <2> HIDE DEF x
  <2>5. Good(x) /\ x.cell = Nobody
    BY <1>1, <1>5, <2>1, <2>3, <2>4 DEF Good, Hash
  <2>6. Leads(rd[r])
    BY <1>5 DEF Leads
  <2> DEFINE b == [hash |-> Hash(r), id |-> NewBuffer, bytes |-> Hash(r)]
  <2>7. b \in Block /\ b.hash = Hash(r) /\ b.bytes = Hash(r)
    <3>1. NewBuffer \in Nat
      BY NewBufferNat DEF FetchInv
    <3> QED BY <2>3, <3>1 DEF Block
  <2>8. lru' = Filled(b)
    BY <2>1
  <2> HIDE DEF b
  <2>9. /\ lru' \in Seq(Block)
        /\ \A k \in DOMAIN lru' : lru'[k] = b \/ \E j \in DOMAIN lru : lru'[k] = lru[j]
    BY <2>7, <2>8, FilledIs
  <2>10. /\ TypeInv' /\ TurnOK(sched') /\ (\A q \in Reads : ReadInv(q)') /\ WaitInv'
         /\ \A q \in Reads : rd'[q].buffer \in {0, rd[q].buffer}
    <3>1. \A k \in DOMAIN lru' :
            lru'[k].hash = Hash(r) \/ \E j \in DOMAIN lru : lru'[k] = lru[j]
      BY <2>7, <2>9
    <3> QED BY <2>1, <2>2, <2>4, <2>5, <2>6, <2>9, <3>1, LeaderStep
  <2>11. Charged(lru)' <= Blocks
    BY <2>7, <2>8, <2>10, FilledFits
  <2>12. \A k \in DOMAIN lru' : lru'[k].bytes = lru'[k].hash
    BY <2>7, <2>9 DEF FetchInv, CacheInv
  <2> QED BY <2>10, <2>11, <2>12 DEF FetchInv, CacheInv
<1>6. CASE rd[r].stage = "waiting"
  <2>1. /\ rd[r].got # "failed" /\ UNCHANGED <<reg, lru>>
        /\ \E next \in NextBlock(Taken(rd[r], rd[r].got)) : Stepped(rd, r, next)
    BY <1>6 DEF Advance
  <2>2. rd[r].got # "none"
    BY <1>1, <1>2, <1>6 DEF ReadInv, Starved
  <2>3. rd[r].got = Head(rd[r].todo) /\ rd[r].todo # <<>>
    BY <1>1, <1>6, <2>1, <2>2 DEF Good
  <2>4. /\ Taken(rd[r], rd[r].got) \in ReadType /\ ~Taken(rd[r], rd[r].got).wrong
        /\ Taken(rd[r], rd[r].got).cell = Nobody
    BY <1>1, <2>2, <2>3, TakenIs DEF Good
  <2>5. PICK x \in NextBlock(Taken(rd[r], rd[r].got)) : Stepped(rd, r, x)
    BY <2>1
  <2>6. /\ Good(x) /\ x.stage \in {"done", "get", "own"} /\ x.buffer = 0
        /\ x.cell = Nobody
    BY <2>4, <2>5, NextBlockIs
  <2>7. Keeps(rd[r], x) /\ Asks(rd[r], x)
    BY <1>6, <2>6, OwesNothing DEF Asks
  <2> QED BY <2>1, <2>5, <2>6, <2>7, ReadStep DEF Starved, Leads, Fetching
<1> QED BY <1>3, <1>4, <1>5, <1>6 DEF Advance

\* What is left of a failing image.
LEMMA FailedImage ==
  ASSUME image \in [Images -> ImageType], NEW i \in Images,
         image' = [image EXCEPT ![i].failed = TRUE, ![i].bulk = <<>>]
  PROVE  /\ image' \in [Images -> ImageType]
         /\ \A j \in Images : image[j].failed => image'[j].failed
<1>1. \A j \in Images : j # i => image'[j] = image[j]
  OBVIOUS
<1> DEFINE y == [image[i] EXCEPT !.failed = TRUE, !.bulk = <<>>]
<1>2. image' = [image EXCEPT ![i] = y]
  OBVIOUS
<1>6. image[i] \in ImageType
  OBVIOUS
<1>3. ASSUME NEW b \in BOOLEAN, NEW e \in Seq(Reads), NEW z,
             z = [image[i] EXCEPT !.failed = b, !.bulk = e]
      PROVE  z \in ImageType /\ z.failed = b
  BY <1>3, <1>6 DEF ImageType
<1>4. TRUE \in BOOLEAN /\ <<>> \in Seq(Reads)
  OBVIOUS
<1>5. y \in ImageType /\ y.failed = TRUE
  BY <1>3, <1>4
<1> HIDE DEF y
<1> QED BY <1>1, <1>2, <1>5

LEMMA FailingIs ==
  ASSUME FetchInv, NEW i \in Images, NEW s, TurnOK(s), Failing(i, s)
  PROVE  /\ image' \in [Images -> ImageType] /\ image'[i].failed
         /\ \A j \in Images : image[j].failed => image'[j].failed
         /\ TurnOK(sched')
<1>1. image \in [Images -> ImageType]
  BY DEF FetchInv, TypeInv
<1>2. image' = [image EXCEPT ![i].failed = TRUE, ![i].bulk = <<>>]
  BY DEF Failing
<1>3. /\ image' \in [Images -> ImageType]
      /\ \A j \in Images : image[j].failed => image'[j].failed
  BY <1>1, <1>2, FailedImage
<1>4. image'[i].failed
  BY <1>1, <1>2 DEF ImageType
<1>5. TurnOK([s EXCEPT !.ready[i] = FALSE])
  BY DEF TurnOK, SchedType
<1>6. TurnOK(sched')
  BY <1>5, NotifyOK DEF Failing, Ready
<1> QED BY <1>3, <1>4, <1>6

\* Reads that only changed where they wait for IO.
SameRead(x, y) ==
  /\ y.stage = x.stage /\ y.todo = x.todo /\ y.cell = x.cell /\ y.got = x.got
  /\ y.buffer = x.buffer /\ y.wrong = x.wrong
LEMMA UnqueuedIs ==
  ASSUME FetchInv, NEW i \in Images
  PROVE  /\ Unqueued(i) \in [Reads -> ReadType]
         /\ \A q \in Reads : /\ SameRead(rd[q], Unqueued(i)[q])
                             /\ Of(q) # i => Unqueued(i)[q] = rd[q]
<1>1. rd \in [Reads -> ReadType]
  BY DEF FetchInv, TypeInv
<1>2. ASSUME NEW q \in Reads, NEW x, x = Unqueued(i)[q]
      PROVE  x \in ReadType /\ SameRead(rd[q], x) /\ (Of(q) # i => x = rd[q])
  <2>1. x = rd[q] \/ (Of(q) = i /\ x = [rd[q] EXCEPT !.io = "ready"])
    BY <1>2 DEF Unqueued
  <2>2. CASE x = rd[q]
    BY <1>1, <2>2 DEF SameRead
  <2>3. CASE Of(q) = i /\ x = [rd[q] EXCEPT !.io = "ready"]
    BY <1>1, <2>3 DEF ReadType, SameRead
  <2> QED BY <2>1, <2>2, <2>3
<1>3. Unqueued(i) = [q \in Reads |-> Unqueued(i)[q]]
  BY DEF Unqueued
<1>4. \A q \in Reads : Unqueued(i)[q] \in ReadType
  BY <1>2
<1>5. Unqueued(i) \in [Reads -> ReadType]
  BY <1>3, <1>4
<1> QED BY <1>2, <1>5

\* A failing image moves its unsubmitted reads to the ones it rejects.
LEMMA UnqueuedInv ==
  ASSUME FetchInv, NEW i \in Images, NEW s, TurnOK(s), Failing(i, s),
         rd' = Unqueued(i), UNCHANGED <<reg, lru>>
  PROVE  FetchInv'
<1>1. /\ image' \in [Images -> ImageType] /\ image'[i].failed
      /\ \A j \in Images : image[j].failed => image'[j].failed
      /\ TurnOK(sched')
  BY FailingIs
<1>2. /\ rd' \in [Reads -> ReadType]
      /\ \A q \in Reads : SameRead(rd[q], rd'[q]) /\ (Of(q) # i => rd'[q] = rd[q])
  BY UnqueuedIs
<1>3. TypeInv'
  BY <1>1, <1>2 DEF FetchInv, TypeInv
<1>4. ASSUME NEW q \in Reads PROVE ReadInv(q)'
  <2>1. ReadInv(q) /\ SameRead(rd[q], rd'[q]) /\ Of(q) \in Images
    BY <1>2, Constants DEF FetchInv
  <2>2. Good(rd'[q])
    BY <1>2, <2>1 DEF ReadInv, Good, SameRead
  <2>3. Starved(rd'[q]) => Starved(rd[q]) \/ image'[Of(q)].failed
    BY <1>1, <1>2
  <2> QED BY <1>1, <2>1, <2>2, <2>3, OtherRead DEF ReadInv, SameRead
<1>5. WaitInv'
  <2>1. \A q \in Reads : rd[q].cell \in Reads \cup {Nobody}
    BY DEF FetchInv, TypeInv, ReadType
  <2>2. \A h \in Hashes : reg[h] \in Reads \cup {Nobody}
    BY DEF FetchInv, TypeInv
  <2>3. \A c \in Reads : rd'[c].stage = rd[c].stage /\ rd'[c].todo = rd[c].todo
                          /\ rd'[c].cell = rd[c].cell
    BY <1>2 DEF SameRead
  <2> QED BY <2>1, <2>2, <2>3 DEF FetchInv, WaitInv, Owes, Leading, Leads, Hash
<1>6. \A q \in Reads : rd'[q].buffer \in {0, rd[q].buffer} \cup Buffers(lru)
  BY <1>2 DEF SameRead
<1> QED BY <1>1, <1>3, <1>4, <1>5, <1>6, Conclude

\* The drop of a read: a leader leaves the registry and owes its waiters the
\* failure, and the leaders that stay keep their hashes.
LEMMA DroppedInv ==
  ASSUME FetchInv, NEW r \in Reads, rd[r].stage \notin {"publish", "drop"},
         NEW base \in [Reads -> ReadType],
         \A q \in Reads : SameRead(rd[q], base[q]),
         \A q \in Reads : Starved(base[q]) => Starved(rd[q]) \/ image'[Of(q)].failed,
         rd' = [base EXCEPT ![r] = Dropped(r)], reg' = Unregistered(r),
         image' \in [Images -> ImageType],
         \A j \in Images : image[j].failed => image'[j].failed,
         TurnOK(sched'), UNCHANGED lru
  PROVE  FetchInv'
<1>1. /\ rd \in [Reads -> ReadType] /\ reg \in [Hashes -> Reads \cup {Nobody}]
      /\ lru \in Seq(Block) /\ \A q \in Reads : q # Nobody
  BY Constants DEF FetchInv, TypeInv, Nobody
<1> DEFINE x == Dropped(r)
           led == \E h \in Hashes : reg[h] = r
<1>2. /\ x \in ReadType /\ x.stage = (IF led THEN "drop" ELSE "failed")
      /\ x.buffer = 0 /\ ~x.wrong /\ x.cell = Nobody
  <2>1. /\ Idle \in ReadType /\ ~Idle.wrong /\ Idle.buffer = 0 /\ Idle.cell = Nobody
    BY DEF Idle, ReadType, Stages
  <2>2. ASSUME NEW t \in Stages, NEW z, z = [Idle EXCEPT !.stage = t]
        PROVE  /\ z \in ReadType /\ z.stage = t /\ z.buffer = Idle.buffer
               /\ z.wrong = Idle.wrong /\ z.cell = Idle.cell
    BY <2>1, <2>2 DEF ReadType
  <2>3. (IF led THEN "drop" ELSE "failed") \in Stages
    BY DEF Stages
  <2>4. x = [Idle EXCEPT !.stage = IF led THEN "drop" ELSE "failed"]
    BY DEF Dropped
  <2> HIDE DEF x, led
  <2> QED BY <2>1, <2>2, <2>3, <2>4
<1>3. ASSUME NEW h, Owes(rd[r], h) PROVE Owes(x, h)
  <2>1. Leads(rd[r])
    BY <1>3 DEF Owes, Leads
  <2>2. ReadInv(r) /\ rd[r] \in ReadType
    BY <1>1 DEF FetchInv
  <2>3. rd[r].todo # <<>>
    BY <2>1, <2>2 DEF ReadInv, Good, Leads
  <2>4. Hash(r) \in Hashes /\ reg[Hash(r)] = r
    BY <2>1, <2>2, <2>3 DEF ReadInv, ReadType, Hash
  <2>5. led
    BY <2>4
  <2> HIDE DEF led, x
  <2> QED BY <1>2, <2>5 DEF Owes
<1> HIDE DEF x
<1>4. /\ rd' \in [Reads -> ReadType] /\ rd'[r] = x
      /\ \A q \in Reads : q # r => rd'[q] = base[q]
  BY <1>2 DEF x
<1>5. reg' \in [Hashes -> Reads \cup {Nobody}]
  BY <1>1 DEF Unregistered, Nobody
<1>6. TypeInv'
  BY <1>1, <1>4, <1>5 DEF TypeInv
<1>7. x.stage \in {"drop", "failed"}
  BY <1>2
<1> HIDE DEF led
<1>8. ReadInv(r)'
  BY <1>2, <1>4, <1>7 DEF ReadInv, Good, Starved, Leads, Fetching
<1>9. ASSUME NEW q \in Reads, q # r PROVE ReadInv(q)'
  <2>1. ReadInv(q) /\ SameRead(rd[q], rd'[q]) /\ Of(q) \in Images /\ rd'[q] = base[q]
    BY <1>4, <1>9, Constants DEF FetchInv
  <2>2. Good(rd'[q])
    BY <1>4, <2>1 DEF ReadInv, Good, SameRead
  <2>3. Leads(rd[q]) => reg'[Hash(q)] = q
    <3> SUFFICES ASSUME Leads(rd[q]) PROVE reg'[Hash(q)] = q
      OBVIOUS
    <3>1. rd[q] \in ReadType /\ rd[q].todo # <<>> /\ reg[Hash(q)] = q
      BY <2>1 DEF ReadInv, Good, Leads
    <3>2. Hash(q) \in Hashes
      BY <3>1 DEF ReadType, Hash
    <3> QED BY <1>9, <3>1, <3>2 DEF Unregistered
  <2>4. Fetching(rd[q]) => \A k \in DOMAIN lru' : lru'[k].hash # Hash(q)
    BY <2>1 DEF ReadInv
  <2> QED BY <2>1, <2>2, <2>3, <2>4, OtherRead DEF SameRead
<1>10. \A c \in Reads : \A h : Owes(rd[c], h) => Owes(rd'[c], h)
  <2> TAKE c \in Reads
  <2> TAKE h
  <2>1. CASE c = r
    BY <1>3, <1>4, <2>1
  <2>2. CASE c # r
    BY <1>4, <2>2 DEF SameRead, Owes
  <2> QED BY <2>1, <2>2
<1>11. ASSUME NEW q \in Reads, rd'[q].cell # Nobody
       PROVE  Owes(rd'[rd'[q].cell], Head(rd'[q].todo))
  <2>1. q # r /\ rd'[q].cell = rd[q].cell /\ rd'[q].todo = rd[q].todo
    BY <1>2, <1>4, <1>11 DEF SameRead
  <2>2. Owes(rd[rd[q].cell], Hash(q)) /\ rd[q].cell \in Reads
    BY <1>1, <1>11, <2>1 DEF FetchInv, WaitInv, ReadType
  <2> QED BY <1>10, <2>1, <2>2 DEF Hash
<1>12. ASSUME NEW h \in Hashes, reg'[h] # Nobody PROVE Leading(rd'[reg'[h]], h)
  <2>1. reg'[h] = reg[h] /\ reg[h] # r /\ reg[h] \in Reads
    BY <1>1, <1>12 DEF Unregistered
  <2>2. Leading(rd[reg[h]], h)
    BY <1>12, <2>1 DEF FetchInv, WaitInv
  <2>3. SameRead(rd[reg[h]], rd'[reg[h]])
    BY <1>4, <2>1
  <2> QED BY <2>1, <2>2, <2>3 DEF SameRead, Leading, Leads
<1>13. WaitInv'
  BY <1>11, <1>12 DEF WaitInv, Hash
<1>14. \A q \in Reads : rd'[q].buffer \in {0, rd[q].buffer} \cup Buffers(lru)
  BY <1>2, <1>4 DEF SameRead
<1> QED BY <1>6, <1>8, <1>9, <1>13, <1>14, Conclude

\* The three ways reads fail.
LEMMA FailInv ==
  ASSUME FetchInv,
         \/ \E r \in Reads : FailRead(r) \/ Reject(r)
         \/ \E i \in Images : FailImage(i)
  PROVE  FetchInv'
<1>4. TurnOK(sched) /\ rd \in [Reads -> ReadType] /\ image \in [Images -> ImageType]
  BY DEF FetchInv, TypeInv
<1>1. ASSUME NEW r \in Reads, FailRead(r) PROVE FetchInv'
  <2>1. Of(r) \in Images
    BY Constants
  <2>2. /\ Failing(Of(r), sched) /\ rd[r].stage \in {"payload", "waiting"}
        /\ rd' = [Unqueued(Of(r)) EXCEPT ![r] = Dropped(r)]
        /\ reg' = Unregistered(r) /\ UNCHANGED lru
    BY <1>1 DEF FailRead
  <2>3. /\ image' \in [Images -> ImageType] /\ image'[Of(r)].failed
        /\ \A j \in Images : image[j].failed => image'[j].failed
        /\ TurnOK(sched')
    BY <1>4, <2>1, <2>2, FailingIs
  <2>4. PICK base : base = Unqueued(Of(r))
    OBVIOUS
  <2>5. /\ base \in [Reads -> ReadType]
        /\ \A q \in Reads : /\ SameRead(rd[q], base[q])
                            /\ Of(q) # Of(r) => base[q] = rd[q]
    BY <2>1, <2>4, UnqueuedIs
  <2>6. \A q \in Reads : Starved(base[q]) => Starved(rd[q]) \/ image'[Of(q)].failed
    BY <2>3, <2>5
  <2>7. rd' = [base EXCEPT ![r] = Dropped(r)]
    BY <2>2, <2>4
  <2> QED BY <2>2, <2>3, <2>5, <2>6, <2>7, DroppedInv
<1>2. ASSUME NEW r \in Reads, Reject(r) PROVE FetchInv'
  <2>1. /\ rd' = [rd EXCEPT ![r] = Dropped(r)] /\ reg' = Unregistered(r)
        /\ UNCHANGED <<lru, image, sched>> /\ Turning(Of(r))
    BY <1>2 DEF Reject
  <2>2. rd[r].stage \notin {"publish", "drop"}
    BY <2>1 DEF Turning, Atomic
  <2>3. \A q \in Reads : SameRead(rd[q], rd[q])
    BY DEF SameRead
  <2> QED BY <1>4, <2>1, <2>2, <2>3, DroppedInv
<1>3. ASSUME NEW i \in Images, FailImage(i) PROVE FetchInv'
  BY <1>3, <1>4, UnqueuedInv DEF FailImage
<1> QED BY <1>1, <1>2, <1>3

\* A step of the background owner moves the scheduler only.
LEMMA SchedStep ==
  ASSUME FetchInv, TurnOK(sched'), UNCHANGED <<rd, reg, lru, image>>
  PROVE  FetchInv'
<1>1. TypeInv'
  BY DEF FetchInv, TypeInv
<1>2. \A r \in Reads : ReadInv(r)'
  BY DEF FetchInv, ReadInv, Hash, Of
<1>3. CacheInv'
  BY DEF FetchInv, CacheInv, Charged, Buffers, Held
<1>4. WaitInv'
  BY DEF FetchInv, WaitInv, Hash
<1> QED BY <1>1, <1>2, <1>3, <1>4 DEF FetchInv

\* wait_background: a fourth opportunity is the background owner's.
LEMMA BackgroundInv ==
  ASSUME FetchInv, Ask \/ Wakes \/ Expire
  PROVE  FetchInv'
<1>1. TurnOK(sched)
  BY DEF FetchInv
<1>2. CASE Ask
  <2>1. ~sched.bg /\ sched \in SchedType /\ sched.passed = 0
    BY <1>1, <1>2 DEF Ask, TurnOK
  <2> DEFINE s == [sched EXCEPT !.bg = TRUE, !.waiting = TRUE, !.woken = TRUE]
  <2>2. s \in SchedType
    <3>1. ASSUME NEW a \in BOOLEAN, NEW b \in BOOLEAN, NEW c \in BOOLEAN
          PROVE  [sched EXCEPT !.bg = a, !.waiting = b, !.woken = c] \in SchedType
      BY <2>1 DEF SchedType
    <3>2. TRUE \in BOOLEAN
      OBVIOUS
    <3> QED BY <3>1, <3>2
  <2>3. s.bg = TRUE /\ s.passed = 0 /\ s.turn = sched.turn /\ s.turn \in 0..3
    BY <2>1 DEF SchedType
  <2>4. sched' = Notify(s) /\ UNCHANGED <<rd, reg, lru, image>>
    BY <1>2 DEF Ask
  <2> HIDE DEF s
  <2>5. TurnOK(s)
    BY <2>2, <2>3 DEF TurnOK
  <2> QED BY <2>4, <2>5, NotifyOK, SchedStep
<1>3. CASE Wakes
  <2>1. ASSUME NEW s, TurnOK(s), NEW w \in BOOLEAN, NEW t \in BOOLEAN
        PROVE  TurnOK([s EXCEPT !.waiting = w, !.woken = t])
    BY <2>1 DEF TurnOK, SchedType
  <2>2. ASSUME NEW s, TurnOK(s), NEW t \in BOOLEAN
        PROVE  TurnOK([s EXCEPT !.woken = t])
    BY <2>2 DEF TurnOK, SchedType
  <2>3. FALSE \in BOOLEAN
    OBVIOUS
  <2>4. UNCHANGED <<rd, reg, lru, image>>
    BY <1>3 DEF Wakes
  <2>5. CASE Selected(sched) = 0
    <3>1. TurnOK(Notify(Granted(sched, 0)))
      BY <1>1, <2>5, GrantedOK, NotifyOK
    <3>2. sched' = [Notify(Granted(sched, 0)) EXCEPT !.waiting = FALSE, !.woken = FALSE]
      BY <1>3, <2>5 DEF Wakes
    <3> QED BY <2>1, <2>3, <2>4, <3>1, <3>2, SchedStep
  <2>6. CASE Selected(sched) # 0
    <3>1. sched' = [sched EXCEPT !.woken = FALSE]
      BY <1>3, <2>6 DEF Wakes
    <3> QED BY <1>1, <2>2, <2>3, <2>4, <3>1, SchedStep
  <2> QED BY <2>5, <2>6
<1>4. CASE Expire
  <2> DEFINE e == [sched EXCEPT !.bg = FALSE, !.waiting = FALSE, !.woken = FALSE,
                                !.passed = 0]
  <2>1. e \in SchedType /\ ~e.bg /\ e.passed = 0
    <3>1. sched \in SchedType
      BY <1>1 DEF TurnOK
    <3>2. e \in SchedType
      <4>1. ASSUME NEW a \in BOOLEAN, NEW n \in 0..3
            PROVE  [sched EXCEPT !.bg = a, !.waiting = a, !.woken = a, !.passed = n]
                      \in SchedType
        BY <3>1 DEF SchedType
      <4>2. FALSE \in BOOLEAN /\ 0 \in 0..3
        OBVIOUS
      <4> QED BY <4>1, <4>2
    <3>3. ~e.bg /\ e.passed = 0
      BY <3>1 DEF SchedType
    <3> QED BY <3>2, <3>3
  <2> HIDE DEF e
  <2>2. TurnOK(Notify(e))
    BY <2>1, NotifyOK DEF TurnOK
  <2>3. CASE sched' = Notify(e) /\ UNCHANGED <<rd, reg, lru, image>>
    BY <2>2, <2>3, SchedStep
  <2>4. ASSUME NEW i \in Images, Failing(i, Notify(e)), rd' = Unqueued(i),
               UNCHANGED <<reg, lru>>
        PROVE  FetchInv'
    BY <2>2, <2>4, UnqueuedInv
  <2> QED BY <1>4, <2>3, <2>4 DEF Expire, e
<1> QED BY <1>2, <1>3, <1>4

-----------------------------------------------------------------------------
(* The theorems.                                                           *)

\* At the start no read is in progress and nothing is cached.
LEMMA InitInv == ASSUME Init PROVE FetchInv
<1> USE DEF Init
<1>1. /\ Idle \in ReadType /\ Idle.stage = "idle" /\ ~Idle.wrong /\ Idle.buffer = 0
      /\ Idle.cell = Nobody
  BY DEF Idle, ReadType, Stages
<1>2. TypeInv
  BY <1>1 DEF TypeInv, ImageType, Nobody
<1>3. sched \in SchedType /\ sched.passed = 0 /\ sched.bg = FALSE
  BY DEF SchedType
<1>4. TurnOK(sched)
  BY <1>3 DEF TurnOK
<1>5. \A r \in Reads : ReadInv(r)
  BY <1>1 DEF ReadInv, Good, Starved, Leads, Fetching
<1>6. CacheInv
  <2>1. Buffers(lru) = {}
    BY <1>1 DEF Buffers, Held
  <2>2. Charged(lru) = 0
    BY <2>1, FS_EmptySet DEF Charged
  <2> QED BY <2>2, FetchConstants DEF CacheInv
<1>7. WaitInv
  BY <1>1 DEF WaitInv
<1> QED BY <1>2, <1>4, <1>5, <1>6, <1>7 DEF FetchInv

\* Every step keeps the invariant.
LEMMA NextInv == ASSUME FetchInv, [Next]_vars PROVE FetchInv'
<1>1. CASE UNCHANGED vars
  BY <1>1, SchedStep DEF vars, FetchInv
<1>2. CASE Next
  <2>1. ASSUME NEW r \in Reads, Start(r) \/ Step(r) PROVE FetchInv'
    BY <2>1, StartInv, GetInv, CopyInv, LookupInv, PeekInv, PublishInv, CompleteInv,
       AdvanceInv, FailInv DEF Step
  <2>2. ASSUME NEW i \in Images, Submit(i) \/ FailImage(i) PROVE FetchInv'
    BY <2>2, SubmitInv, FailInv
  <2> QED BY <1>2, <2>1, <2>2, BackgroundInv DEF Next
<1> QED BY <1>1, <1>2

\* The inductive invariant of reads, registry, cache and scheduler holds for
\* every number of images, reads and blocks.
THEOREM FetchInvariant == Spec => []FetchInv
<1>1. Init => FetchInv
  BY InitInv
<1>2. FetchInv /\ [Next]_vars => FetchInv'
  BY NextInv
<1> QED BY <1>1, <1>2, PTL DEF Spec

\* No answer and no cached block holds bytes its manifest does not name,
\* whatever the device returns (Payload::verify, Cache::fill).
THEOREM OnlyVerifiedBytes == Spec => []BytesVerified
<1>1. FetchInv => BytesVerified
  BY DEF FetchInv, ReadInv, Good, CacheInv, BytesVerified
<1> QED BY <1>1, FetchInvariant, PTL

\* One leader fetches a block, never a resident one; the cache is never charged
\* beyond its capacity; three demand reads at most pass the background owner.
THEOREM OneLeaderFetches == Spec => []FetchedOnce
<1>1. FetchInv => FetchedOnce
  <2> SUFFICES ASSUME FetchInv PROVE FetchedOnce
    OBVIOUS
  <2>1. sched.passed <= 3
    BY DEF FetchInv, TurnOK, SchedType
  <2>2. Charged(lru) <= Blocks
    BY DEF FetchInv, CacheInv
  <2>3. \A r \in Reads : rd[r].stage \in {"header", "payload"} =>
          /\ reg[Hash(r)] = r
          /\ \A k \in DOMAIN lru : lru[k].hash # Hash(r)
    BY DEF FetchInv, ReadInv, Leads, Fetching
  <2> QED BY <2>1, <2>2, <2>3 DEF FetchedOnce
<1> QED BY <1>1, FetchInvariant, PTL

-----------------------------------------------------------------------------
(* The failure of an image that leads no fetch.                            *)

\* While no other fault happened no fetch is dropped and no wait interrupted, a
\* payload that came back is the one asked for, and a failed image has no read in
\* a turn and none that leads.
Calm(x, failed) ==
  /\ x.stage # "drop"
  /\ x.stage = "waiting" => x.got # "failed"
  /\ x.stage = "payload" /\ x.io = "ready" => x.got = Head(x.todo)
  /\ failed => x.stage \notin Atomic \cup {"header", "payload"}
Quiet == {"none", "image"}
ContainInv ==
  /\ used = [jobs |-> used.jobs, fault |-> used.fault]
  /\ used.fault \in Quiet =>
       /\ ~gate
       /\ \A r \in Reads : Calm(rd[r], image[Of(r)].failed)
       /\ \A i \in Images : image[i].failed => used.fault = "image"
       /\ \A i, j \in Images : image[i].failed /\ image[j].failed => i = j

\* A step that neither fails anything nor injects a fault.
LEMMA CalmKept ==
  ASSUME ContainInv, UNCHANGED gate, used'.fault = used.fault,
         used' = [jobs |-> used'.jobs, fault |-> used'.fault],
         \A i \in Images : image'[i].failed = image[i].failed,
         used.fault \in Quiet => \A r \in Reads : Calm(rd'[r], image[Of(r)].failed)
  PROVE  ContainInv'
<1>1. \A r \in Reads : Of(r) \in Images
  BY Constants
<1> QED BY <1>1 DEF ContainInv, Calm, Of

\* The step of one read of an image that serves, or in the middle of a turn.
LEMMA ReadCalm ==
  ASSUME ContainInv, NEW r \in Reads, UNCHANGED <<gate, used>>,
         \A q \in Reads : q # r => rd'[q] = rd[q],
         \A i \in Images : image'[i].failed = image[i].failed,
         rd[r].stage \in Atomic \/ ~image[Of(r)].failed,
         used.fault \in Quiet => Calm(rd'[r], FALSE)
  PROVE  ContainInv'
<1>1. ASSUME used.fault \in Quiet, NEW q \in Reads
      PROVE  Calm(rd'[q], image[Of(q)].failed)
  <2>1. Calm(rd[q], image[Of(q)].failed)
    BY <1>1 DEF ContainInv
  <2>2. CASE q # r
    BY <2>1, <2>2
  <2>3. CASE q = r
    <3>1. ~image[Of(r)].failed
      BY <2>1, <2>3 DEF Calm
    <3> QED BY <1>1, <2>3, <3>1 DEF Calm
  <2> QED BY <2>2, <2>3
<1> QED BY <1>1, CalmKept DEF ContainInv

\* The same of a read whose new work may be queued.
LEMMA StepCalm ==
  ASSUME FetchInv, FetchInv', ContainInv, NEW r \in Reads, NEW x, Stepped(rd, r, x),
         UNCHANGED <<gate, used>>, rd[r].stage \in Atomic \/ ~image[Of(r)].failed,
         used.fault \in Quiet => Calm(x, FALSE)
  PROVE  ContainInv'
<1>1. rd \in [Reads -> ReadType] /\ rd' \in [Reads -> ReadType]
  BY DEF FetchInv, TypeInv
<1>2. x = rd'[r]
  BY <1>1 DEF Stepped
<1>3. x \in ReadType
  BY <1>1, <1>2
<1>4. /\ \A q \in Reads : q # r => rd'[q] = rd[q]
      /\ \A i \in Images : image'[i].failed = image[i].failed
  BY <1>1, <1>3, SteppedIs
<1> QED BY <1>2, <1>4, ReadCalm

\* What Read::next_block leaves leads nothing and waits for nothing.
LEMMA NextCalm ==
  ASSUME NEW y \in ReadType, ~y.wrong, y.cell = Nobody, NEW x \in NextBlock(y)
  PROVE  Calm(x, FALSE)
BY NextBlockIs DEF Calm

LEMMA StartCalm ==
  ASSUME FetchInv, FetchInv', ContainInv, NEW r \in Reads, Start(r) PROVE ContainInv'
<1>1. PICK todo \in SeqOf(Hashes, MaxLength) :
        \E read \in NextBlock([Idle EXCEPT !.todo = todo])
                      \cup {Pushed([Idle EXCEPT !.stage = "own", !.todo = todo])} :
          Stepped(rd, r, read)
  BY DEF Start
<1>2. PICK read \in NextBlock([Idle EXCEPT !.todo = todo])
                      \cup {Pushed([Idle EXCEPT !.stage = "own", !.todo = todo])} :
          Stepped(rd, r, read)
  BY <1>1
<1>3. todo \in Seq(Hashes)
  BY FetchConstants DEF SeqOf
<1> DEFINE y == [Idle EXCEPT !.todo = todo]
           z == [Idle EXCEPT !.stage = "own", !.todo = todo]
<1>4. y \in ReadType /\ ~y.wrong /\ y.cell = Nobody
  BY <1>3 DEF Idle, ReadType, Stages
<1>5. z \in ReadType /\ z.stage = "own"
  BY <1>3 DEF Idle, ReadType, Stages
<1> HIDE DEF y, z
<1>6. Calm(read, FALSE)
  <2>1. CASE read \in NextBlock(y)
    BY <2>1, <1>4, NextCalm
  <2>2. CASE read = Pushed(z)
    BY <2>2, <1>5, PushedIs DEF Calm
  <2> QED BY <2>1, <2>2 DEF y, z
<1>7. UNCHANGED <<gate, used>> /\ ~image[Of(r)].failed
  BY DEF Start, Serving
<1> QED BY <1>2, <1>6, <1>7, StepCalm

\* The cache, the registry and the second look at the cache.
LEMMA TurnCalm ==
  ASSUME FetchInv, FetchInv', ContainInv, NEW r \in Reads,
         Get(r) \/ Copy(r) \/ Lookup(r) \/ Peek(r)
  PROVE  ContainInv'
<1>1. /\ rd \in [Reads -> ReadType] /\ rd' \in [Reads -> ReadType] /\ rd[r] \in ReadType
      /\ Good(rd[r]) /\ UNCHANGED <<gate, used>> /\ rd[r].stage \in Atomic
  BY DEF FetchInv, TypeInv, ReadInv, Get, Copy, Lookup, Peek, Atomic
<1>2. CASE Get(r)
  <2>1. /\ \A q \in Reads : q # r => rd'[q] = rd[q]
        /\ rd'[r].stage = "copy" \/ rd'[r].stage = "lookup"
    <3>1. \/ \E b, g : rd' = [rd EXCEPT ![r].stage = "copy", ![r].buffer = b, ![r].got = g]
          \/ rd' = [rd EXCEPT ![r].stage = "lookup"]
      BY <1>2 DEF Get
    <3>2. ASSUME NEW b, NEW g,
                 rd' = [rd EXCEPT ![r].stage = "copy", ![r].buffer = b, ![r].got = g]
          PROVE  (\A q \in Reads : q # r => rd'[q] = rd[q]) /\ rd'[r].stage = "copy"
      BY <1>1, <3>2 DEF ReadType
    <3>3. ASSUME rd' = [rd EXCEPT ![r].stage = "lookup"]
          PROVE  (\A q \in Reads : q # r => rd'[q] = rd[q]) /\ rd'[r].stage = "lookup"
      BY <1>1, <3>3 DEF ReadType
    <3> QED BY <3>1, <3>2, <3>3
  <2>2. UNCHANGED image
    BY <1>2 DEF Get
  <2>3. Calm(rd'[r], FALSE)
    BY <2>1 DEF Calm
  <2> QED BY <1>1, <2>1, <2>2, <2>3, ReadCalm
<1>3. CASE Copy(r)
  <2>1. rd[r].stage = "copy"
    BY <1>3 DEF Copy
  <2>2. /\ Taken(rd[r], rd[r].got) \in ReadType /\ ~Taken(rd[r], rd[r].got).wrong
        /\ Taken(rd[r], rd[r].got).cell = Nobody
    BY <1>1, <2>1, TakenIs DEF Good
  <2>3. PICK read \in NextBlock(Taken(rd[r], rd[r].got)) : Stepped(rd, r, read)
    BY <1>3 DEF Copy
  <2> QED BY <1>1, <2>2, <2>3, NextCalm, StepCalm
<1>4. CASE Lookup(r)
  <2>1. rd[r].stage = "lookup" /\ rd[r].got = "none" /\ UNCHANGED image
    BY <1>1, <1>4 DEF Lookup, Good
  <2>2. CASE reg[Hash(r)] # Nobody
    <3> DEFINE y == [rd[r] EXCEPT !.stage = "waiting", !.cell = reg[Hash(r)]]
    <3>1. rd' = [rd EXCEPT ![r] = Pushed(y)]
      BY <1>1, <1>4, <2>2 DEF Lookup
    <3>2. y.stage = "waiting" /\ y.got = "none"
      BY <1>1, <2>1 DEF ReadType
    <3>3. y \in ReadType
      <4>1. rd[r].todo # <<>> /\ Hash(r) \in Hashes
        BY <1>1, <2>1 DEF Good, ReadType, Hash
      <4>2. reg[Hash(r)] \in Reads \cup {Nobody}
        BY <4>1 DEF FetchInv, TypeInv
      <4> QED BY <1>1, <4>2 DEF ReadType, Stages
    <3> HIDE DEF y
    <3>4. Calm(Pushed(y), FALSE)
      BY <3>2, <3>3, PushedIs DEF Calm
    <3>5. rd'[r] = Pushed(y) /\ \A q \in Reads : q # r => rd'[q] = rd[q]
      BY <1>1, <3>1
    <3> QED BY <1>1, <2>1, <3>4, <3>5, ReadCalm
  <2>3. CASE reg[Hash(r)] = Nobody
    <3>1. rd' = [rd EXCEPT ![r].stage = "peek"]
      BY <1>4, <2>3 DEF Lookup
    <3>2. rd'[r].stage = "peek" /\ \A q \in Reads : q # r => rd'[q] = rd[q]
      BY <1>1, <3>1 DEF ReadType
    <3> QED BY <1>1, <2>1, <3>2, ReadCalm DEF Calm
  <2> QED BY <2>2, <2>3
<1>5. CASE Peek(r)
  <2>1. PICK x : Stepped(rd, r, x) /\ x.stage \in {"publish", "header"}
    <3>1. \/ \E g : Stepped(rd, r, [rd[r] EXCEPT !.stage = "publish", !.got = g])
          \/ Stepped(rd, r, Pushed([rd[r] EXCEPT !.stage = "header"]))
      BY <1>5 DEF Peek
    <3>2. \A g : [rd[r] EXCEPT !.stage = "publish", !.got = g].stage = "publish"
      BY <1>1 DEF ReadType
    <3> DEFINE y == [rd[r] EXCEPT !.stage = "header"]
    <3>3. y \in ReadType /\ y.stage = "header"
      BY <1>1 DEF ReadType, Stages
    <3> HIDE DEF y
    <3>4. Pushed(y).stage = "header"
      BY <3>3, PushedIs
    <3> QED BY <3>1, <3>2, <3>4 DEF y
  <2> QED BY <1>1, <2>1, StepCalm DEF Calm
<1> QED BY <1>2, <1>3, <1>4, <1>5

\* A leader that was not dropped tells its waiters the bytes.
LEMMA PublishCalm ==
  ASSUME FetchInv, FetchInv', ContainInv, NEW r \in Reads, Publish(r)
  PROVE  ContainInv'
<1>1. /\ rd \in [Reads -> ReadType] /\ rd' \in [Reads -> ReadType] /\ rd[r] \in ReadType
      /\ Good(rd[r]) /\ UNCHANGED <<gate, used>> /\ Of(r) \in Images
  BY Constants DEF FetchInv, TypeInv, ReadInv, Publish
<1>2. PICK got, x :
        /\ Stepped(Told(r, got), r, x)
        /\ \/ rd[r].stage = "drop" /\ got = "failed"
           \/ /\ rd[r].stage = "publish" /\ got = rd[r].got
              /\ x \in NextBlock(Taken(rd[r], rd[r].got))
  BY DEF Publish
<1>3. /\ \A q \in Reads : q # r => rd'[q] = Told(r, got)[q]
      /\ \A i \in Images : image'[i].failed = image[i].failed
      /\ rd'[r] = x
  <2>1. \A h : Owes(rd[r], h) => got = h \/ got = "failed"
    BY <1>1, <1>2 DEF Owes, Good
  <2>2. got \in Hashes \cup {"failed"}
    <3>1. rd[r].stage = "publish" => rd[r].todo # <<>> /\ rd[r].got = Head(rd[r].todo)
      BY <1>1 DEF Good
    <3> QED BY <1>1, <1>2, <3>1 DEF ReadType
  <2>3. Told(r, got) \in [Reads -> ReadType]
    BY <2>1, <2>2, ToldIs
  <2>4. rd' = [Told(r, got) EXCEPT ![r] = x]
    BY <1>2 DEF Stepped
  <2>5. rd'[r] = x /\ x \in ReadType
    BY <1>1, <2>3, <2>4
  <2> QED BY <1>2, <2>3, <2>5, SteppedIs
<1>4. ASSUME used.fault \in Quiet, NEW q \in Reads
      PROVE  Calm(rd'[q], image[Of(q)].failed)
  <2>1. Calm(rd[q], image[Of(q)].failed) /\ Calm(rd[r], image[Of(r)].failed)
    BY <1>4 DEF ContainInv
  <2>2. /\ rd[r].stage = "publish" /\ got = rd[r].got
        /\ x \in NextBlock(Taken(rd[r], rd[r].got))
    BY <1>2, <2>1 DEF Calm
  <2>3. got \in Hashes /\ got # "failed" /\ rd[r].todo # <<>> /\ got = Head(rd[r].todo)
    <3>1. rd[r].todo # <<>> /\ got = Head(rd[r].todo)
      BY <1>1, <2>2 DEF Good
    <3>2. got \in Hashes
      BY <1>1, <3>1 DEF ReadType
    <3> QED BY <3>1, <3>2, FetchConstants
  <2>4. CASE q = r
    <3>1. ~image[Of(r)].failed
      BY <2>1, <2>2 DEF Calm, Atomic
    <3>2. /\ Taken(rd[r], rd[r].got) \in ReadType /\ ~Taken(rd[r], rd[r].got).wrong
          /\ Taken(rd[r], rd[r].got).cell = Nobody
      BY <1>1, <2>2, <2>3, TakenIs DEF Good
    <3>3. Calm(x, FALSE)
      BY <2>2, <3>2, NextCalm
    <3> QED BY <1>3, <2>4, <3>1, <3>3 DEF Calm
  <2>5. CASE q # r /\ rd[q].cell # r
    BY <1>3, <2>1, <2>5 DEF Told
  <2>6. CASE q # r /\ rd[q].cell = r
    <3>1. rd'[q] = [rd[q] EXCEPT !.cell = Nobody, !.got = got]
      BY <1>3, <2>6 DEF Told
    <3>2. rd'[q].stage = rd[q].stage /\ rd'[q].got = got
      BY <1>1, <3>1 DEF ReadType
    <3>3. Good(rd[q]) /\ r # Nobody
      BY Constants DEF FetchInv, ReadInv, Nobody
    <3>4. rd[q].stage = "waiting"
      BY <2>6, <3>3 DEF Good
    <3> QED BY <2>1, <2>3, <3>2, <3>4 DEF Calm
  <2> QED BY <2>4, <2>5, <2>6
<1> QED BY <1>1, <1>3, <1>4, CalmKept DEF ContainInv

\* A CQE: without a corrupt payload, the bytes asked for.
LEMMA CompleteCalm ==
  ASSUME FetchInv, FetchInv', ContainInv, NEW r \in Reads, Complete(r)
  PROVE  ContainInv'
<1>1. PICK bytes \in IF rd[r].stage # "payload" THEN {rd[r].got}
                      ELSE {Hash(r)} \cup {b \in {"bad"} : "corrupt" \in Faults
                                                 /\ used.fault = "none"} :
        /\ rd' = [rd EXCEPT ![r].io = "ready", ![r].got = bytes]
        /\ used' = IF bytes = "bad" THEN [used EXCEPT !.fault = "corrupt"] ELSE used
  BY DEF Complete
<1>2. rd \in [Reads -> ReadType] /\ UNCHANGED <<gate, image>>
  BY DEF FetchInv, TypeInv, Complete
<1>3. /\ \A q \in Reads : q # r => rd'[q] = rd[q]
      /\ rd'[r].stage = rd[r].stage /\ rd'[r].todo = rd[r].todo /\ rd'[r].got = bytes
  BY <1>1, <1>2 DEF ReadType
<1>4. CASE bytes = "bad"
  <2>1. used' = [jobs |-> used.jobs, fault |-> "corrupt"]
    BY <1>1, <1>4 DEF ContainInv
  <2> QED BY <2>1 DEF ContainInv, Quiet
<1>5. CASE bytes # "bad"
  <2>1. UNCHANGED used
    BY <1>1, <1>5
  <2>2. bytes = IF rd[r].stage = "payload" THEN Hash(r) ELSE rd[r].got
    BY <1>1, <1>5
  <2>3. ASSUME used.fault \in Quiet, NEW q \in Reads
        PROVE  Calm(rd'[q], image[Of(q)].failed)
    <3>1. Calm(rd[q], image[Of(q)].failed)
      BY <2>3 DEF ContainInv
    <3> QED BY <1>3, <2>2, <3>1 DEF Calm, Hash
  <2> QED BY <1>2, <2>1, <2>3, CalmKept DEF ContainInv
<1> QED BY <1>4, <1>5

\* Read::advance of an image that serves.
LEMMA AdvanceCalm ==
  ASSUME FetchInv, FetchInv', ContainInv, NEW r \in Reads, Advance(r)
  PROVE  ContainInv'
<1>1. /\ rd[r] \in ReadType /\ Good(rd[r]) /\ UNCHANGED <<gate, used>>
      /\ ~image[Of(r)].failed
  BY DEF FetchInv, TypeInv, ReadInv, Advance, Serving
<1>2. PICK x : Stepped(rd, r, x) /\ Calm(x, FALSE)
  <2>1. CASE rd[r].stage = "own"
    <3> DEFINE s == IF rd[r].todo = <<>> THEN "done" ELSE "get"
               x == [rd[r] EXCEPT !.io = "none", !.stage = s]
    <3>1. Stepped(rd, r, x)
      BY <2>1 DEF Advance
    <3>2. x.stage = s /\ s \in {"done", "get"}
      BY <1>1 DEF ReadType
    <3> HIDE DEF x
    <3>3. Calm(x, FALSE)
      BY <3>2 DEF Calm
    <3> QED BY <3>1, <3>3
  <2>2. CASE rd[r].stage = "header"
    <3> DEFINE y == [rd[r] EXCEPT !.stage = "payload"]
    <3>1. Stepped(rd, r, Pushed(y))
      BY <2>2 DEF Advance
    <3>2. y \in ReadType /\ y.stage = "payload"
      BY <1>1 DEF ReadType, Stages
    <3> HIDE DEF y
    <3>3. Calm(Pushed(y), FALSE)
      BY <3>2, PushedIs DEF Calm
    <3> QED BY <3>1, <3>3
  <2>3. CASE rd[r].stage = "payload"
    <3> DEFINE x == [rd[r] EXCEPT !.stage = "publish", !.io = "none"]
    <3>1. Stepped(rd, r, x)
      BY <2>3 DEF Advance
    <3>2. x.stage = "publish"
      BY <1>1 DEF ReadType
    <3> HIDE DEF x
    <3>3. Calm(x, FALSE)
      BY <3>2 DEF Calm
    <3> QED BY <3>1, <3>3
  <2>4. CASE rd[r].stage = "waiting"
    <3>1. PICK x \in NextBlock(Taken(rd[r], rd[r].got)) : Stepped(rd, r, x)
      BY <2>4 DEF Advance
    <3>2. rd[r].got # "failed" /\ rd[r].io = "ready"
      BY <2>4 DEF Advance
    <3>3. rd[r].got # "none"
      BY <1>1, <2>4, <3>2 DEF FetchInv, ReadInv, Starved
    <3>4. rd[r].todo # <<>> /\ rd[r].got = Head(rd[r].todo)
      BY <1>1, <2>4, <3>2, <3>3 DEF Good
    <3>5. rd[r].cell = Nobody
      BY <1>1, <3>3 DEF Good
    <3>6. /\ Taken(rd[r], rd[r].got) \in ReadType /\ ~Taken(rd[r], rd[r].got).wrong
          /\ Taken(rd[r], rd[r].got).cell = Nobody
      BY <1>1, <3>4, <3>5, TakenIs
    <3> QED BY <3>1, <3>6, NextCalm
  <2> QED BY <2>1, <2>2, <2>3, <2>4 DEF Advance
<1> QED BY <1>1, <1>2, StepCalm

\* In calm no wait was interrupted and no payload is wrong, so no read fails.
LEMMA FailReadCalm ==
  ASSUME FetchInv, ContainInv, NEW r \in Reads, FailRead(r)
  PROVE  ContainInv'
<1>1. UNCHANGED used /\ rd[r].io = "ready"
      /\ \/ rd[r].stage = "payload" /\ rd[r].got # Hash(r)
         \/ rd[r].stage = "waiting" /\ rd[r].got = "failed"
  BY DEF FailRead, Verified
<1>2. ~Calm(rd[r], image[Of(r)].failed)
  BY <1>1 DEF Calm, Hash
<1>3. used.fault \notin Quiet
  BY <1>2 DEF ContainInv
<1> QED BY <1>1, <1>3 DEF ContainInv

\* A read without a fetch of its own is rejected without a trace.
LEMMA RejectCalm ==
  ASSUME FetchInv, ContainInv, NEW r \in Reads, Reject(r)
  PROVE  ContainInv'
<1>1. /\ rd \in [Reads -> ReadType] /\ rd' = [rd EXCEPT ![r] = Dropped(r)]
      /\ UNCHANGED <<gate, used, image>> /\ image[Of(r)].failed
  BY DEF FetchInv, TypeInv, Reject
<1>2. ASSUME used.fault \in Quiet, NEW q \in Reads
      PROVE  Calm(rd'[q], image[Of(q)].failed)
  <2>1. Calm(rd[q], image[Of(q)].failed) /\ Calm(rd[r], image[Of(r)].failed)
    BY <1>2 DEF ContainInv
  <2>2. ~Leads(rd[r])
    BY <1>1, <2>1 DEF Calm, Leads, Atomic
  <2>3. \A h \in Hashes : reg[h] # r
    BY <2>2, Constants DEF FetchInv, WaitInv, Leading, Nobody
  <2>4. Dropped(r).stage = "failed"
    BY <2>3 DEF Dropped, Idle
  <2>5. CASE q = r
    BY <1>1, <2>4, <2>5 DEF Calm, Atomic
  <2>6. CASE q # r
    BY <1>1, <2>1, <2>6
  <2> QED BY <2>5, <2>6
<1> QED BY <1>1, <1>2, CalmKept DEF ContainInv

\* An image fails alone: it has no read in a turn and leads no fetch, or the fault
\* is another one.
LEMMA FailImageCalm ==
  ASSUME FetchInv, ContainInv, NEW i \in Images, FailImage(i)
  PROVE  ContainInv'
<1>1. /\ ~image[i].failed /\ Turning(i) /\ UNCHANGED gate
      /\ image' = [image EXCEPT ![i].failed = TRUE, ![i].bulk = <<>>]
      /\ rd' = Unqueued(i)
  BY DEF FailImage, Failing, Serving
<1>2. CASE gate /\ UNCHANGED used
  BY <1>1, <1>2 DEF ContainInv
<1>3. CASE /\ used.fault = "none"
           /\ used' = [used EXCEPT !.fault = IF LeadsFetch(i) THEN "leader" ELSE "image"]
  <2>1. used' = [jobs |-> used.jobs,
                 fault |-> IF LeadsFetch(i) THEN "leader" ELSE "image"]
    BY <1>3 DEF ContainInv
  <2>2. CASE LeadsFetch(i)
    BY <2>1, <2>2 DEF ContainInv, Quiet
  <2>3. CASE ~LeadsFetch(i)
    <3>1. used'.fault = "image" /\ used' = [jobs |-> used'.jobs, fault |-> used'.fault]
      BY <2>1, <2>3
    <3>2. /\ ~gate /\ (\A j \in Images : ~image[j].failed)
          /\ \A q \in Reads : Calm(rd[q], image[Of(q)].failed)
      BY <1>3 DEF ContainInv, Quiet
    <3>3. image \in [Images -> ImageType]
      BY DEF FetchInv, TypeInv
    <3>4. \A j \in Images : image'[j].failed => j = i
      BY <1>1, <3>2, <3>3
    <3>5. ASSUME NEW q \in Reads PROVE Calm(rd'[q], image'[Of(q)].failed)
      <4>1. /\ SameRead(rd[q], rd'[q]) /\ (Of(q) # i => rd'[q] = rd[q])
            /\ Of(q) \in Images /\ Calm(rd[q], image[Of(q)].failed)
        BY <1>1, <3>2, UnqueuedIs, Constants
      <4>2. CASE Of(q) # i
        BY <3>4, <4>1, <4>2 DEF Calm
      <4>3. CASE Of(q) = i
        <5>1. rd[q].stage \notin Atomic
          BY <1>1, <4>3 DEF Turning
        <5>2. rd[q].stage \notin {"header", "payload"}
          <6>1. SUFFICES ASSUME rd[q].stage \in {"header", "payload"} PROVE FALSE
            OBVIOUS
          <6>2. rd[q] \in ReadType /\ ReadInv(q) /\ Good(rd[q])
            BY DEF FetchInv, TypeInv, ReadInv
          <6>3. reg[Hash(q)] = q /\ rd[q].todo # <<>>
            BY <6>1, <6>2 DEF ReadInv, Leads, Good
          <6>4. Hash(q) \in Hashes
            BY <6>2, <6>3 DEF ReadType, Hash
          <6> QED BY <2>3, <4>3, <6>3, <6>4 DEF LeadsFetch
        <5> QED BY <4>1, <5>1, <5>2 DEF Calm, SameRead
      <4> QED BY <4>2, <4>3
    <3> QED BY <1>1, <3>1, <3>2, <3>4, <3>5 DEF ContainInv, Of
  <2> QED BY <2>2, <2>3
<1> QED BY <1>2, <1>3 DEF FailImage

\* Submissions and the background owner: its deadline is a fault of its own.
LEMMA OtherCalm ==
  ASSUME FetchInv, FetchInv', ContainInv,
         (\E i \in Images : Submit(i)) \/ Ask \/ Wakes \/ Expire
  PROVE  ContainInv'
<1>1. ASSUME NEW i \in Images, Submit(i) PROVE ContainInv'
  <2>1. /\ image[i].bulk # <<>> /\ UNCHANGED <<gate, used>>
        /\ rd' = [rd EXCEPT ![Head(image[i].bulk)].io = "kernel"]
        /\ image' = [image EXCEPT ![i].bulk = Tail(@)]
    BY <1>1 DEF Submit
  <2>2. rd \in [Reads -> ReadType] /\ image \in [Images -> ImageType]
    BY DEF FetchInv, TypeInv
  <2>3. Head(image[i].bulk) \in Reads
    BY <2>1, <2>2 DEF ImageType
  <2>4. PICK r \in Reads : r = Head(image[i].bulk)
    BY <2>3
  <2>5. \A j \in Images : image'[j].failed = image[j].failed
    BY <2>1, <2>2 DEF ImageType
  <2>6. \A q \in Reads :
          /\ rd'[q].stage = rd[q].stage /\ rd'[q].got = rd[q].got
          /\ rd'[q].todo = rd[q].todo /\ rd'[q].io \in {rd[q].io, "kernel"}
    BY <2>1, <2>2, <2>4 DEF ReadType
  <2>7. ASSUME used.fault \in Quiet, NEW q \in Reads
        PROVE  Calm(rd'[q], image[Of(q)].failed)
    BY <2>6, <2>7 DEF ContainInv, Calm
  <2> QED BY <2>1, <2>5, <2>7, CalmKept DEF ContainInv
<1>2. CASE Ask \/ Wakes
  <2>1. UNCHANGED <<rd, image, gate>>
    BY <1>2 DEF Ask, Wakes
  <2>2. used' = [jobs |-> used'.jobs, fault |-> used'.fault] /\ used'.fault = used.fault
    <3>1. CASE Wakes
      BY <3>1 DEF Wakes, ContainInv
    <3>2. CASE Ask
      <4>1. used' = [jobs |-> used.jobs + 1, fault |-> used.fault]
        BY <3>2 DEF Ask, ContainInv
      <4> QED BY <4>1
    <3> QED BY <1>2, <3>1, <3>2
  <2> QED BY <2>1, <2>2, CalmKept DEF ContainInv
<1>3. CASE Expire
  <2>1. used' = [jobs |-> used.jobs, fault |-> "deadline"]
    BY <1>3 DEF Expire, ContainInv
  <2> QED BY <2>1 DEF ContainInv, Quiet
<1> QED BY <1>1, <1>2, <1>3

\* Failures that stay where they are: an image that leads no fetch and fails takes
\* neither the host nor another image with it, for every number of images, reads
\* and blocks (Reactor::reject, Leader::drop).
THEOREM FailuresContained == Spec => []FailureContained
<1>1. Init => ContainInv
  BY Constants DEF Init, ContainInv, Calm, Idle, Quiet
<1>2. ASSUME FetchInv, ContainInv, [Next]_vars PROVE ContainInv'
  <2>1. FetchInv'
    BY <1>2, NextInv
  <2>2. CASE UNCHANGED vars
    BY <1>2, <2>2, CalmKept DEF vars, ContainInv
  <2>3. ASSUME NEW r \in Reads, Start(r) \/ Step(r) PROVE ContainInv'
    BY <1>2, <2>1, <2>3, StartCalm, TurnCalm, PublishCalm, CompleteCalm, AdvanceCalm,
       FailReadCalm, RejectCalm DEF Step
  <2>4. ASSUME NEW i \in Images, Submit(i) \/ FailImage(i) PROVE ContainInv'
    BY <1>2, <2>1, <2>4, OtherCalm, FailImageCalm
  <2> QED BY <1>2, <2>1, <2>2, <2>3, <2>4, OtherCalm DEF Next
<1>3. ContainInv => FailureContained
  BY DEF ContainInv, FailureContained, Quiet
<1> QED BY <1>1, <1>2, <1>3, FetchInvariant, PTL DEF Spec

=============================================================================
