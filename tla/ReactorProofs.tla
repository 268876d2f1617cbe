--------------------------- MODULE ReactorProofs ---------------------------
(***************************************************************************)
(* What one image's IO path promises for any number of requests, slots and *)
(* barriers: the kernel touches only owned buffers, a request is answered  *)
(* at most once and a success tells the truth.                             *)
(***************************************************************************)
EXTENDS Reactor, SequenceTheorems, FiniteSetTheorems, WellFoundedInduction, TLAPS

-----------------------------------------------------------------------------
(* Types                                                                   *)

CommandT ==
  [op : {"append", "read", "flush", "pause", "attach", "resume"},
   ids : Seq(Nat), boundary : Nat, rotated : BOOLEAN]
WorkT ==
  [op : {"append", "fence", "read"}, ids : Seq(Nat), last : Nat,
   syncing : BOOLEAN, left : Nat, dependency : BOOLEAN, ready : BOOLEAN,
   cancelled : BOOLEAN]
RequestT == [kind : {"write", "zero", "read", "flush"}, boundary : Nat]
FrontT ==
  [packing : Seq(Nat), admitted : Nat, open : BOOLEAN, paused : BOOLEAN,
   barrier : {"none", "pause", "attach", "failed", "abandoned"}, barriers : Nat]
LogT ==
  [seg : Nat, end : Nat, issued : Nat, published : Nat, durable : Nat,
   fenced : BOOLEAN, cohort : Nat \cup {NoCohort}, rotating : BOOLEAN,
   compacted : Nat]
PortT ==
  [rotation : {"none", "roll", "fresh"}, active : BOOLEAN,
   job : {"idle", "rotate", "compact", "prepared", "selected"} \cup Events,
   through : Nat, quiescence : {"none", "asked", "acked"},
   hold : {"open", "paused", "asked", "resuming"}, holds : Nat]
PendingT == UNION {[D -> WorkT] : D \in SUBSET (Nat \ {0})}
Phases ==
  {"wait", "receive", "reap", "poll", "publish", "finish", "dispatch", "reads",
   "submit", "reject", "stop", "close", "drop", "gone"}
ReactorT ==
  [pc : Phases, commands : Seq(CommandT), reads : Seq(CommandT),
   pending : PendingT, appends : Seq(Nat), bulk : Seq(Nat), todo : SUBSET Nat,
   token : Nat \ {0}, cohort : Nat, failed : BOOLEAN, closed : BOOLEAN,
   held : BOOLEAN, timed : BOOLEAN]

TypeOK ==
  /\ front \in FrontT /\ reqs \in Seq(RequestT)
  /\ answer \in [Ids -> Seq({"ok", "err"})] /\ mailbox \in Seq(CommandT)
  /\ log \in LogT /\ port \in PortT /\ health \in BOOLEAN
  /\ re \in ReactorT /\ kernel \subseteq Nat
  /\ cqes \subseteq [token : Nat, ok : BOOLEAN]

-----------------------------------------------------------------------------
(* The reactor's record                                                    *)

\* The fields that only the owners of requests and transfers change.
Same(q, r) ==
  /\ r.commands = q.commands /\ r.reads = q.reads /\ r.pending = q.pending
  /\ r.appends = q.appends /\ r.bulk = q.bulk /\ r.token = q.token
  /\ r.cohort = q.cohort /\ r.failed = q.failed

LEMMA PendingElem ==
  ASSUME NEW p \in PendingT
  PROVE  /\ DOMAIN p \subseteq Nat \ {0} /\ p = [t \in DOMAIN p |-> p[t]]
         /\ \A t \in DOMAIN p : p[t] \in WorkT
<1>1. PICK D \in SUBSET (Nat \ {0}) : p \in [D -> WorkT]
  BY DEF PendingT
<1> QED BY <1>1

LEMMA PendingIntro ==
  ASSUME NEW D \in SUBSET (Nat \ {0}), NEW f \in [D -> WorkT]
  PROVE  f \in PendingT
BY DEF PendingT

LEMMA EmptyPending ==
  <<>> \in PendingT /\ DOMAIN <<>> = {}
<1>1. <<>> \in [{} -> WorkT]
  OBVIOUS
<1> QED BY <1>1, PendingIntro

LEMMA FailingIs ==
  ASSUME NEW q \in ReactorT
  PROVE  /\ Failing(q) \in ReactorT
         /\ Failing(q).failed = TRUE /\ Failing(q).appends = <<>>
         /\ Failing(q).pc = q.pc /\ Failing(q).commands = q.commands
         /\ Failing(q).reads = q.reads /\ Failing(q).pending = q.pending
         /\ Failing(q).bulk = q.bulk /\ Failing(q).todo = q.todo
         /\ Failing(q).token = q.token /\ Failing(q).cohort = q.cohort
         /\ Failing(q).closed = q.closed /\ Failing(q).held = q.held
<1>1. Failing(q) = [q EXCEPT !.failed = TRUE, !.appends = <<>>]
  BY DEF Failing
<1>2. <<>> \in Seq(Nat)
  OBVIOUS
<1> QED BY <1>1, <1>2 DEF ReactorT

LEMMA AfterFinishIs ==
  ASSUME NEW q \in ReactorT
  PROVE  /\ AfterFinish(q) \in ReactorT /\ Same(q, AfterFinish(q))
         /\ AfterFinish(q).pc = IF q.failed THEN "reject" ELSE "dispatch"
         /\ AfterFinish(q).closed = q.closed
BY DEF AfterFinish, ReactorT, Same, Phases

LEMMA BreakIs ==
  ASSUME NEW q \in ReactorT
  PROVE  /\ Break(q) \in ReactorT /\ Same(q, Break(q))
         /\ Break(q).pc = IF q.failed THEN "reject" ELSE "reads"
BY DEF Break, AfterBreak, ReactorT, Same, Phases

LEMMA EnterFinishIs ==
  ASSUME NEW q \in ReactorT
  PROVE  /\ EnterFinish(q) \in ReactorT /\ Same(q, EnterFinish(q))
         /\ \/ EnterFinish(q).pc = IF q.failed THEN "reject" ELSE "dispatch"
            \/ /\ EnterFinish(q).pc = "finish"
               /\ EnterFinish(q).todo =
                    {t \in DOMAIN q.pending : q.pending[t].ready}
<1> DEFINE done == {t \in DOMAIN q.pending : q.pending[t].ready}
<1>1. CASE done = {}
  BY <1>1, AfterFinishIs DEF EnterFinish
<1>2. CASE done # {}
  <2>1. EnterFinish(q) = [q EXCEPT !.pc = "finish", !.todo = done]
    BY <1>2 DEF EnterFinish
  <2>2. q.pending \in PendingT
    BY DEF ReactorT
  <2>3. done \subseteq Nat
    BY <2>2, PendingElem
  <2> HIDE DEF done
  <2>4. EnterFinish(q) \in ReactorT /\ Same(q, EnterFinish(q))
        /\ EnterFinish(q).pc = "finish" /\ EnterFinish(q).todo = done
    BY <2>1, <2>3 DEF ReactorT, Same, Phases
  <2> QED BY <2>4 DEF done
<1> QED BY <1>1, <1>2

LEMMA StoppingIs ==
  ASSUME NEW q \in ReactorT
  PROVE  /\ Stopping(q) \in ReactorT /\ Same(q, Stopping(q))
         /\ Stopping(q).pc = "stop"
BY DEF Stopping, ReactorT, Same, Phases

LEMMA PoppedIs ==
  ASSUME re \in ReactorT, re.commands # <<>>
  PROVE  /\ Popped \in ReactorT
         /\ Popped.commands = Tail(re.commands) /\ Popped.reads = re.reads
         /\ Popped.pending = re.pending /\ Popped.appends = re.appends
         /\ Popped.bulk = re.bulk /\ Popped.token = re.token
         /\ Popped.cohort = re.cohort /\ Popped.failed = re.failed
         /\ Popped.pc = re.pc /\ Popped.todo = re.todo
<1>1. re.commands \in Seq(CommandT)
  BY DEF ReactorT
<1>2. Tail(re.commands) \in Seq(CommandT)
  BY <1>1
<1> QED BY <1>2 DEF Popped, ReactorT

LEMMA EndPassIs ==
  ASSUME NEW q \in ReactorT, NEW p
  PROVE  /\ EndPass(q, p) \in ReactorT /\ Same(q, EndPass(q, p))
         /\ \/ EndPass(q, p).pc = "wait"
            \/ /\ EndPass(q, p).pc = "gone" /\ q.pending = <<>>
               /\ q.commands = <<>> /\ q.reads = <<>>
<1> DEFINE b == Active(q, p)
           c == IF /\ q.closed /\ q.pending = <<>> /\ q.commands = <<>>
                   /\ q.reads = <<>> /\ ~p.active /\ p.rotation = "none"
                  THEN "gone" ELSE "wait"
<1>1. b \in BOOLEAN
  BY DEF Active
<1>2. EndPass(q, p) = [q EXCEPT !.pc = c, !.timed = b]
  BY DEF EndPass
<1>3. c \in Phases /\ (c = "wait" \/ (c = "gone" /\ q.pending = <<>>
        /\ q.commands = <<>> /\ q.reads = <<>>))
  BY DEF Phases
<1> HIDE DEF b, c
<1> QED BY <1>1, <1>2, <1>3 DEF ReactorT, Same

LEMMA ToSubmitIs ==
  ASSUME NEW q \in ReactorT, NEW p
  PROVE  /\ ToSubmit(q, p) \in ReactorT /\ Same(q, ToSubmit(q, p))
         /\ \/ ToSubmit(q, p).pc \in {"wait", "submit"}
            \/ /\ ToSubmit(q, p).pc = "gone" /\ q.pending = <<>>
               /\ q.commands = <<>> /\ q.reads = <<>>
<1>1. [q EXCEPT !.pc = "submit"] \in ReactorT
      /\ Same(q, [q EXCEPT !.pc = "submit"])
      /\ [q EXCEPT !.pc = "submit"].pc = "submit"
  BY DEF ReactorT, Same, Phases
<1> QED BY <1>1, EndPassIs DEF ToSubmit

-----------------------------------------------------------------------------
(* Owning work                                                             *)

\* A nonempty set of naturals has a least element.
LEMMA LeastExists ==
  ASSUME NEW S \in SUBSET Nat, S # {}
  PROVE  \E n \in S : \A m \in S : n <= m
<1> DEFINE R == OpToRel(<, Nat)
<1>1. IsWellFoundedOn(R, Nat)
  BY NatLessThanWellFounded
<1>2. \E y \in S : \A z \in S : ~(<<z, y>> \in R)
  <2> HIDE DEF R
  <2> QED BY <1>1, WFMin
<1>3. \A a, b \in Nat : <<a, b>> \in R <=> a < b
  BY DEF OpToRel
<1>4. PICK y \in S : \A z \in S : ~(<<z, y>> \in R)
  BY <1>2
<1>5. \A z \in S : ~(z < y)
  <2> HIDE DEF R
  <2> QED BY <1>3, <1>4
<1> QED BY <1>5

\* The requests of a sequence of ids are finitely many.
LEMMA ToSetFinite ==
  ASSUME NEW S, NEW s \in Seq(S)
  PROVE  /\ IsFiniteSet(ToSet(s)) /\ ToSet(s) \subseteq S
         /\ \A x : x \in ToSet(s) <=> \E i \in 1..Len(s) : s[i] = x
<1>1. DOMAIN s = 1..Len(s) /\ Len(s) \in Nat
  OBVIOUS
<1>2. IsFiniteSet(DOMAIN s)
  BY <1>1, FS_Interval
<1>3. ToSet(s) = {s[i] : i \in DOMAIN s}
  BY DEF ToSet
<1>4. IsFiniteSet({s[i] : i \in DOMAIN s})
  <2> DEFINE D == DOMAIN s
             T == {s[i] : i \in DOMAIN s}
             g == [i \in D |-> s[i]]
  <2>1. g \in Surjection(D, T)
    BY DEF Surjection
  <2> HIDE DEF T, g
  <2>2. IsFiniteSet(T)
    BY <1>2, <2>1, FS_Surjection
  <2> QED BY <2>2 DEF T
<1>5. \A i \in 1..Len(s) : s[i] \in S
  OBVIOUS
<1> QED BY <1>1, <1>3, <1>4, <1>5

LEMMA BatchBlocksNat ==
  ASSUME NEW ids \in Seq(Nat)
  PROVE  BatchBlocks(ToSet(ids)) \in Nat
<1>1. IsFiniteSet(ToSet(ids))
  BY ToSetFinite
<1>2. IsFiniteSet({i \in ToSet(ids) : reqs[i].kind = "write"})
  BY <1>1, FS_Subset
<1>3. Cardinality({i \in ToSet(ids) : reqs[i].kind = "write"}) \in Nat
  BY <1>2, FS_CardinalityType
<1> QED BY <1>3 DEF BatchBlocks, Payloads

\* What Reactor::enqueue leaves when a slot is free: the work is owned under a
\* token of its own, queued or in the kernel.
OwnedAs(q, work, t) ==
  /\ t \notin DOMAIN q.pending
  /\ re'.pending = [k \in DOMAIN q.pending \cup {t} |->
                      IF k = t THEN work ELSE q.pending[k]]
  /\ re'.bulk = IF Bulk(work) THEN Append(q.bulk, t) ELSE q.bulk
  /\ re'.appends = IF work.op = "append" THEN Append(q.appends, t) ELSE q.appends
  /\ re'.cohort = IF work.op = "fence" THEN t ELSE q.cohort
  /\ re'.commands = q.commands /\ re'.reads = q.reads /\ re'.failed = q.failed
  /\ re'.pc = q.pc /\ re'.todo = q.todo
  /\ kernel' = IF Bulk(work) THEN kernel ELSE kernel \cup {t}
  /\ answer' = answer /\ health' = health
\* And when none is.
NotOwned(q, work) ==
  /\ re' = Failing(q) /\ health' = TRUE /\ kernel' = kernel
  /\ answer' = Answer(answer, ToSet(work.ids), "err")

LEMMA OwnIs ==
  ASSUME TypeOK, NEW q \in ReactorT, q.pending = re.pending,
         NEW work \in WorkT, Own(q, work)
  PROVE  /\ re' \in ReactorT
         /\ NotOwned(q, work) \/ \E t \in Nat \ {0} : OwnedAs(q, work, t)
<1>1. CASE FreeTokens = {}
  BY <1>1, FailingIs DEF Own, NotOwned
<1>2. CASE FreeTokens # {}
  <2> DEFINE t == CHOOSE k \in FreeTokens : \A j \in FreeTokens : k <= j
  <2>1. re \in ReactorT /\ re.token \in Nat \ {0} /\ Slots \in Nat \ {0}
    BY ReactorConstants DEF TypeOK, ReactorT
  <2>2. FreeTokens \subseteq Nat \ {0}
    BY <2>1 DEF FreeTokens
  <2>3. \E k \in FreeTokens : \A j \in FreeTokens : k <= j
    BY <1>2, <2>2, LeastExists
  <2>4. t \in FreeTokens
    BY <2>3
  <2>5. t \in Nat \ {0} /\ t \notin DOMAIN re.pending
    <3>1. \A k \in DOMAIN re.pending : k % Slots # t % Slots
      BY <2>4 DEF FreeTokens
    <3> QED BY <2>2, <2>4, <3>1
  <2> DEFINE p == [k \in DOMAIN q.pending \cup {t} |->
                     IF k = t THEN work ELSE q.pending[k]]
  <2>6. /\ re' = [q EXCEPT
             !.token = t + 1,
             !.pending = p,
             !.bulk = IF Bulk(work) THEN Append(@, t) ELSE @,
             !.appends = IF work.op = "append" THEN Append(@, t) ELSE @,
             !.cohort = IF work.op = "fence" THEN t ELSE @]
        /\ kernel' = (IF Bulk(work) THEN kernel ELSE kernel \cup {t})
        /\ answer' = answer /\ health' = health
    BY <1>2 DEF Own
  <2>7. p \in PendingT
    <3>1. q.pending \in PendingT
      BY DEF ReactorT
    <3>2. DOMAIN q.pending \cup {t} \in SUBSET (Nat \ {0})
      BY <2>5, <3>1, PendingElem
    <3>3. p \in [DOMAIN q.pending \cup {t} -> WorkT]
      BY <3>1, PendingElem
    <3> QED BY <3>2, <3>3, PendingIntro
  <2> HIDE DEF t, p
  <2>8. q.bulk \in Seq(Nat) /\ q.appends \in Seq(Nat)
    BY DEF ReactorT
  <2>9. Append(q.bulk, t) \in Seq(Nat) /\ Append(q.appends, t) \in Seq(Nat)
        /\ t + 1 \in Nat \ {0}
    BY <2>5, <2>8
  <2>10. re' \in ReactorT
    BY <2>5, <2>6, <2>7, <2>9 DEF ReactorT
  <2>11. OwnedAs(q, work, t)
    <3>1. re'.pending = p /\ re'.commands = q.commands /\ re'.reads = q.reads
          /\ re'.failed = q.failed /\ re'.pc = q.pc /\ re'.todo = q.todo
      BY <2>6 DEF ReactorT
    <3>2. /\ re'.bulk = IF Bulk(work) THEN Append(q.bulk, t) ELSE q.bulk
          /\ re'.appends = IF work.op = "append" THEN Append(q.appends, t)
                           ELSE q.appends
          /\ re'.cohort = IF work.op = "fence" THEN t ELSE q.cohort
      BY <2>6 DEF ReactorT
    <3> QED BY <2>5, <2>6, <3>1, <3>2 DEF OwnedAs, p
  <2> QED BY <2>5, <2>10, <2>11
<1> QED BY <1>1, <1>2

\* What start_fence leaves: a stopped reactor, the waiters back in the queue
\* before a rotation, or a fence over the issued prefix.
FencedLog ==
  log.cohort = NoCohort /\ log' = [log EXCEPT !.end = @ + 1, !.cohort = log.issued]
Requeued(q, waiters) ==
  /\ re'.commands = [i \in DOMAIN waiters |->
                       Command("flush", <<waiters[i]>>,
                               reqs[waiters[i]].boundary)] \o q.commands
  /\ re'.reads = q.reads /\ re'.pending = q.pending /\ re'.appends = q.appends
  /\ re'.bulk = q.bulk /\ re'.token = q.token /\ re'.cohort = q.cohort
  /\ re'.failed = q.failed /\ re'.pc = q.pc /\ re'.todo = q.todo
StoppedFence(q) ==
  Same(q, re') /\ re'.pc = "stop" /\ UNCHANGED <<answer, health, kernel>>

FenceOutcome(q, waiters) ==
  \/ StoppedFence(q) /\ log' = log
  \/ StoppedFence(q) /\ FencedLog
  \/ Requeued(q, waiters) /\ UNCHANGED <<answer, health, kernel, log>>
  \/ /\ FencedLog
     /\ \/ NotOwned(q, Work("fence", waiters, log.issued))
        \/ \E t \in Nat \ {0} : OwnedAs(q, Work("fence", waiters, log.issued), t)

LEMMA RotatingType ==
  ASSUME port \in PortT, NEW kind \in {"roll", "fresh"}
  PROVE  Rotating(port, kind) \in PortT
<1>1. Rotating(port, kind) =
        [port EXCEPT !.rotation = kind,
           !.active = @ \/ port.hold = "open",
           !.job = IF ~port.active /\ port.hold = "open" THEN "rotate" ELSE @]
  BY DEF Rotating
<1>2. (port.active \/ port.hold = "open") \in BOOLEAN
  OBVIOUS
<1> QED BY <1>1, <1>2 DEF PortT

LEMMA StartFenceIs ==
  ASSUME TypeOK, NEW q \in ReactorT, q.pending = re.pending,
         NEW waiters \in Seq(Nat),
         \A i \in DOMAIN waiters : waiters[i] \in DOMAIN reqs,
         StartFence(q, waiters)
  PROVE  /\ re' \in ReactorT /\ log' \in LogT /\ port' \in PortT
         /\ FenceOutcome(q, waiters)
<1> USE DEF FenceOutcome
<1>0. log \in LogT /\ port \in PortT /\ reqs \in Seq(RequestT)
  BY DEF TypeOK
<1>1. CASE log.cohort # NoCohort \/ log.rotating \/ ~AtPoint(win)
  <2>1. re' = Stopping(q) /\ UNCHANGED <<answer, health, kernel, log, win, port>>
    BY <1>1 DEF StartFence, Stopping
  <2> QED BY <1>0, <2>1, StoppingIs DEF StoppedFence
<1>2. CASE ~(log.cohort # NoCohort \/ log.rotating \/ ~AtPoint(win))
           /\ log.end + 1 > Capacity
  <2> DEFINE w == [i \in DOMAIN waiters |->
                     Command("flush", <<waiters[i]>>, reqs[waiters[i]].boundary)]
  <2>1. /\ re' = [q EXCEPT !.commands = w \o @]
        /\ port' = Rotating(port, "roll")
        /\ UNCHANGED <<answer, health, kernel, log, lost>>
    BY <1>2 DEF StartFence
  <2>2. w \in Seq(CommandT)
    <3>1. \A i \in 1..Len(waiters) :
            /\ waiters[i] \in Nat /\ reqs[waiters[i]].boundary \in Nat
            /\ <<waiters[i]>> \in Seq(Nat)
      <4>1. \A i \in 1..Len(waiters) :
              waiters[i] \in Nat /\ waiters[i] \in DOMAIN reqs
        OBVIOUS
      <4>2. \A k \in DOMAIN reqs : reqs[k] \in RequestT
        BY <1>0
      <4>3. \A k \in DOMAIN reqs : reqs[k].boundary \in Nat
        BY <4>2 DEF RequestT
      <4> QED BY <4>1, <4>3
    <3>2. \A i \in 1..Len(waiters) :
            Command("flush", <<waiters[i]>>, reqs[waiters[i]].boundary) \in CommandT
      BY <3>1 DEF Command, CommandT
    <3>3. w = [i \in 1..Len(waiters) |->
                 Command("flush", <<waiters[i]>>, reqs[waiters[i]].boundary)]
      OBVIOUS
    <3> QED BY <3>2, <3>3, IsASeq
  <2>3. q.commands \in Seq(CommandT)
    BY DEF ReactorT
  <2> HIDE DEF w
  <2>4. w \o q.commands \in Seq(CommandT)
    BY <2>2, <2>3
  <2>5. re' \in ReactorT
    BY <2>1, <2>4 DEF ReactorT
  <2>6. re'.commands = w \o q.commands /\ re'.reads = q.reads
        /\ re'.pending = q.pending /\ re'.appends = q.appends
        /\ re'.bulk = q.bulk /\ re'.token = q.token /\ re'.cohort = q.cohort
        /\ re'.failed = q.failed /\ re'.pc = q.pc /\ re'.todo = q.todo
    BY <2>1 DEF ReactorT
  <2>7. Requeued(q, waiters)
    BY <2>6 DEF Requeued, w
  <2>8. port' \in PortT
    BY <1>0, <2>1, RotatingType
  <2> QED BY <1>0, <2>1, <2>5, <2>7, <2>8
<1>3. CASE ~(log.cohort # NoCohort \/ log.rotating \/ ~AtPoint(win))
           /\ ~(log.end + 1 > Capacity)
  <2>1. FencedLog /\ UNCHANGED port
    BY <1>3 DEF StartFence, FencedLog
  <2>2. log' \in LogT
    <3>1. log.end + 1 \in Nat /\ log.issued \in Nat
      BY <1>0 DEF LogT
    <3> QED BY <1>0, <2>1, <3>1 DEF FencedLog, LogT
  <2>3. \/ re' = Stopping(q) /\ UNCHANGED <<answer, health, kernel>>
        \/ Own(q, Work("fence", waiters, log.issued))
    BY <1>3 DEF StartFence, Stopping
  <2>4. Work("fence", waiters, log.issued) \in WorkT
    BY <1>0 DEF Work, WorkT, LogT
  <2>5. CASE re' = Stopping(q) /\ UNCHANGED <<answer, health, kernel>>
    BY <1>0, <2>1, <2>2, <2>5, StoppingIs DEF StoppedFence
  <2>6. CASE Own(q, Work("fence", waiters, log.issued))
    BY <1>0, <2>1, <2>2, <2>4, <2>6, OwnIs
  <2> QED BY <2>3, <2>5, <2>6
<1> QED BY <1>1, <1>2, <1>3

-----------------------------------------------------------------------------
(* Type correctness of the queue thread, kernel, worker and collector      *)

LEMMA AnswerType ==
  ASSUME TypeOK, NEW X, NEW r \in {"ok", "err"}
  PROVE  Answer(answer, X, r) \in [Ids -> Seq({"ok", "err"})]
<1>1. answer \in [Ids -> Seq({"ok", "err"})]
  BY DEF TypeOK
<1>2. \A i \in Ids : answer[i] \in Seq({"ok", "err"})
                     /\ Append(answer[i], r) \in Seq({"ok", "err"})
  BY <1>1
<1> QED BY <1>2 DEF Answer

LEMMA SendType ==
  ASSUME TypeOK, NEW commands \in Seq(CommandT), NEW w, Send(commands, w)
  PROVE  mailbox' \in Seq(CommandT) /\ answer' \in [Ids -> Seq({"ok", "err"})]
<1>1. mailbox \in Seq(CommandT) /\ answer \in [Ids -> Seq({"ok", "err"})]
  BY DEF TypeOK
<1>2. CASE Closed
  <2>1. answer' = Answer(answer, IdsOf(commands), "err") /\ mailbox' = mailbox
    BY <1>2 DEF Send
  <2> QED BY <1>1, <2>1, AnswerType
<1>3. CASE ~Closed
  <2>1. mailbox' = mailbox \o commands /\ answer' = answer
    BY <1>3 DEF Send
  <2> QED BY <1>1, <2>1
<1> QED BY <1>2, <1>3

LEMMA CommandType ==
  ASSUME NEW op \in {"append", "read", "flush", "pause", "attach", "resume"},
         NEW ids \in Seq(Nat), NEW b \in Nat
  PROVE  Command(op, ids, b) \in CommandT
BY DEF Command, CommandT

LEMMA SealedType ==
  ASSUME NEW batch \in Seq(Nat)
  PROVE  Sealed(batch) \in Seq(CommandT)
<1>1. Command("append", batch, 0) \in CommandT
  BY CommandType
<1> QED BY <1>1 DEF Sealed

LEMMA MutateType ==
  ASSUME TypeOK, NEW kind \in {"write", "zero"}, Mutate(kind)
  PROVE  TypeOK'
<1>0. /\ front \in FrontT /\ reqs \in Seq(RequestT) /\ front.packing \in Seq(Nat)
      /\ front.admitted \in Nat
  BY DEF TypeOK, FrontT
<1>1. <<>> \in Seq(Nat) /\ <<>> \in Seq(CommandT)
  OBVIOUS
<1>2. Sealed(front.packing) \in Seq(CommandT)
  BY <1>0, SealedType
<1>3. UNCHANGED <<log, port, health, re, kernel, cqes>>
  BY DEF Mutate
<1>4. CASE Refused(win, kind)
  <2>1. /\ Send(Sealed(front.packing), Refusal(win))
        /\ front' = [front EXCEPT !.packing = <<>>] /\ UNCHANGED reqs
    BY <1>4 DEF Mutate
  <2>2. front' \in FrontT
    BY <1>0, <1>1, <2>1 DEF FrontT
  <2> QED BY <1>2, <1>3, <2>1, <2>2, SendType DEF TypeOK
<1>5. CASE ~Refused(win, kind)
  <2> DEFINE id == Len(reqs) + 1
             full == Len(front.packing) = PackLimit
  <2>1. /\ reqs' = Append(reqs, [kind |-> kind, boundary |-> front.admitted + 1])
        /\ front' = [front EXCEPT
             !.admitted = @ + 1,
             !.packing = IF full THEN <<id>> ELSE Append(@, id)]
        /\ Send(IF full THEN Sealed(front.packing) ELSE <<>>,
                Reservation(win, kind))
    BY <1>5 DEF Mutate
  <2>2. id \in Nat /\ <<id>> \in Seq(Nat) /\ Append(front.packing, id) \in Seq(Nat)
    BY <1>0
  <2>3. front' \in FrontT
    <3> DEFINE p == IF full THEN <<id>> ELSE Append(front.packing, id)
    <3>1. p \in Seq(Nat) /\ front.admitted + 1 \in Nat
      BY <1>0, <2>2
    <3>2. front' = [front EXCEPT !.admitted = front.admitted + 1, !.packing = p]
      BY <2>1
    <3> HIDE DEF p
    <3> QED BY <1>0, <3>1, <3>2 DEF FrontT
  <2>4. [kind |-> kind, boundary |-> front.admitted + 1] \in RequestT
    BY <1>0 DEF RequestT
  <2>5. reqs' \in Seq(RequestT)
    BY <1>0, <2>1, <2>4
  <2>6. (IF full THEN Sealed(front.packing) ELSE <<>>) \in Seq(CommandT)
    BY <1>1, <1>2
  <2> HIDE DEF full, id
  <2> QED BY <1>3, <2>1, <2>3, <2>5, <2>6, SendType DEF TypeOK
<1> QED BY <1>4, <1>5

LEMMA EnqueueType ==
  ASSUME TypeOK, NEW kind \in {"read", "flush"}, Enqueue(kind)
  PROVE  TypeOK'
<1>0. /\ front \in FrontT /\ reqs \in Seq(RequestT) /\ front.packing \in Seq(Nat)
      /\ front.admitted \in Nat
  BY DEF TypeOK, FrontT
<1>1. <<>> \in Seq(Nat) /\ <<Len(reqs) + 1>> \in Seq(Nat)
  BY <1>0
<1>2. Sealed(front.packing) \in Seq(CommandT)
  BY <1>0, SealedType
<1>3. UNCHANGED <<log, port, health, re, kernel, cqes>>
  BY DEF Enqueue
<1> DEFINE c == Command(kind, <<Len(reqs) + 1>>, front.admitted)
<1>4. c \in CommandT
  BY <1>0, <1>1, CommandType
<1>5. /\ reqs' = Append(reqs, [kind |-> kind, boundary |-> front.admitted])
      /\ front' = [front EXCEPT !.packing = <<>>]
      /\ Send(Append(Sealed(front.packing), c), win)
  BY DEF Enqueue
<1> HIDE DEF c
<1>6. Append(Sealed(front.packing), c) \in Seq(CommandT)
  BY <1>2, <1>4
<1>7. front' \in FrontT
  BY <1>0, <1>1, <1>5 DEF FrontT
<1>8. [kind |-> kind, boundary |-> front.admitted] \in RequestT
  BY <1>0 DEF RequestT
<1>9. reqs' \in Seq(RequestT)
  BY <1>0, <1>5, <1>8
<1> QED BY <1>3, <1>5, <1>6, <1>7, <1>9, SendType DEF TypeOK

LEMMA SealType ==
  ASSUME TypeOK, Seal \/ Close
  PROVE  TypeOK'
<1>0. front \in FrontT /\ front.packing \in Seq(Nat) /\ <<>> \in Seq(Nat)
  BY DEF TypeOK, FrontT
<1>1. /\ front' = [front EXCEPT !.packing = <<>>]
         \/ front' = [front EXCEPT !.open = FALSE, !.packing = <<>>]
      /\ Send(Sealed(front.packing), win)
      /\ UNCHANGED <<reqs, log, port, health, re, kernel, cqes>>
  BY DEF Seal, Close
<1>2. front' \in FrontT
  BY <1>0, <1>1 DEF FrontT
<1> QED BY <1>0, <1>1, <1>2, SealedType, SendType DEF TypeOK

LEMMA BarrierType ==
  ASSUME TypeOK, NEW op \in {"pause", "attach"}, Barrier(op)
  PROVE  TypeOK'
<1>0. front \in FrontT /\ front.packing \in Seq(Nat) /\ <<>> \in Seq(Nat)
      /\ front.barriers + 1 \in Nat
  BY DEF TypeOK, FrontT
<1> DEFINE b == IF Closed THEN "failed" ELSE op
           c == Command(op, <<>>, 0)
<1>1. /\ front' = [front EXCEPT !.packing = <<>>, !.barriers = @ + 1,
                                !.barrier = b]
      /\ Send(Append(Sealed(front.packing), c), win)
      /\ UNCHANGED <<reqs, log, port, health, re, kernel, cqes>>
  BY DEF Barrier
<1>2. b \in {"failed", "pause", "attach"} /\ c \in CommandT
  BY <1>0, CommandType
<1> HIDE DEF b, c
<1>3. front' \in FrontT
  BY <1>0, <1>1, <1>2 DEF FrontT
<1>4. Append(Sealed(front.packing), c) \in Seq(CommandT)
  BY <1>0, <1>2, SealedType
<1> QED BY <1>1, <1>3, <1>4, SendType DEF TypeOK

LEMMA ResumeType ==
  ASSUME TypeOK, Resume
  PROVE  TypeOK'
<1>0. front \in FrontT /\ <<>> \in Seq(Nat)
  BY DEF TypeOK
<1>1. /\ front' = [front EXCEPT !.paused = FALSE]
      /\ Send(<<Command("resume", <<>>, 0)>>, win)
      /\ UNCHANGED <<reqs, log, port, health, re, kernel, cqes>>
  BY DEF Resume
<1>2. Command("resume", <<>>, 0) \in CommandT
  BY <1>0, CommandType
<1>3. <<Command("resume", <<>>, 0)>> \in Seq(CommandT)
  BY <1>2
<1>4. front' \in FrontT
  BY <1>0, <1>1 DEF FrontT
<1> QED BY <1>1, <1>3, <1>4, SendType DEF TypeOK

LEMMA AroundType ==
  ASSUME TypeOK, BarrierTimeout \/ FailGate \/ Grant \/ WorkerIO \/ Hold
  PROVE  /\ TypeOK' /\ UNCHANGED <<reqs, answer, mailbox, log, re, kernel, cqes>>
         /\ front'.packing = front.packing /\ front'.admitted = front.admitted
         /\ front.barrier # "none" => front'.barrier # "none"
         /\ front'.barrier # "none" => front.barrier # "none"
         /\ health => health'
<1>0. front \in FrontT /\ port \in PortT /\ port.holds + 1 \in Nat
  BY DEF TypeOK, PortT
<1>1. CASE BarrierTimeout
  <2>1. /\ front' = [front EXCEPT !.barrier = "abandoned"]
        /\ front.barrier \in {"pause", "attach"}
        /\ UNCHANGED <<reqs, answer, mailbox, log, port, health, re, kernel, cqes>>
    BY <1>1 DEF BarrierTimeout
  <2> QED BY <1>0, <2>1 DEF TypeOK, FrontT
<1>2. CASE FailGate
  BY <1>2 DEF FailGate, TypeOK
<1>3. CASE Grant
  <2>1. /\ port' = [port EXCEPT !.job = IF @ = "rotate" THEN "allocate" ELSE "select"]
        /\ UNCHANGED <<front, reqs, answer, mailbox, log, health, re, kernel, cqes>>
    BY <1>3 DEF Grant
  <2>2. port' \in PortT
    BY <1>0, <2>1 DEF PortT, Events
  <2> QED BY <2>1, <2>2 DEF TypeOK
<1>4. CASE WorkerIO
  <2>1. /\ \/ port' = [port EXCEPT !.job = IF @ = "prepared" THEN "rotated"
                                           ELSE "published"]
           \/ port' = [port EXCEPT !.job = "deferred", !.holds = @ + 1]
        /\ UNCHANGED <<front, reqs, answer, mailbox, log, health, re, kernel, cqes>>
    BY <1>4 DEF WorkerIO
  <2>2. port' \in PortT
    BY <1>0, <2>1 DEF PortT, Events
  <2> QED BY <2>1, <2>2 DEF TypeOK
<1>5. CASE Hold
  <2>1. UNCHANGED <<front, reqs, answer, mailbox, log, health, re, kernel, cqes>>
    BY <1>5 DEF Hold
  <2>2. \/ port' = [port EXCEPT !.hold = "paused", !.holds = @ + 1]
        \/ port' = [port EXCEPT !.job = "deferred"]
        \/ port' = [port EXCEPT !.hold = "open"]
        \/ port' = [port EXCEPT !.hold = "asked", !.job = "quiesce"]
        \/ port' = [port EXCEPT !.hold = "resuming", !.job = "resume"]
    BY <1>5 DEF Hold
  <2>3. port' \in PortT
    BY <1>0, <2>2 DEF PortT, Events
  <2> QED BY <2>1, <2>3 DEF TypeOK
<1> QED BY <1>1, <1>2, <1>3, <1>4, <1>5

LEMMA CompleteType ==
  ASSUME TypeOK, NEW t \in kernel, NEW ok \in BOOLEAN, Complete(t, ok)
  PROVE  TypeOK'
<1>1. /\ kernel' = kernel \ {t} /\ cqes' = cqes \cup {[token |-> t, ok |-> ok]}
      /\ UNCHANGED <<front, reqs, answer, mailbox, log, port, health, re>>
  BY DEF Complete
<1>2. t \in Nat /\ kernel \subseteq Nat /\ cqes \subseteq [token : Nat, ok : BOOLEAN]
  BY DEF TypeOK
<1>3. cqes' \subseteq [token : Nat, ok : BOOLEAN] /\ kernel' \subseteq Nat
  BY <1>1, <1>2
<1> QED BY <1>1, <1>3 DEF TypeOK

-----------------------------------------------------------------------------
(* The head of a pass                                                      *)

\* What receiving one command leaves.
Took(c) ==
  /\ c = Head(mailbox) /\ mailbox # <<>> /\ mailbox' = Tail(mailbox)
  /\ re'.commands = IF c.op = "read" THEN re.commands ELSE Append(re.commands, c)
  /\ re'.reads = IF c.op = "read" THEN Append(re.reads, c) ELSE re.reads
  /\ re'.pending = re.pending /\ re'.appends = re.appends /\ re'.bulk = re.bulk
  /\ re'.cohort = re.cohort /\ re'.failed = re.failed
  /\ re'.pc \in {"receive", "reap", "close"}
  /\ re.pc \in {"wait", "receive", "close"}
  /\ re'.pc = "close" <=> re.pc = "close"

LEMMA TakeIs ==
  ASSUME TypeOK, TakeCommand
  PROVE  TypeOK' /\ \E c \in CommandT : Took(c)
<1> DEFINE c == Head(mailbox)
           x == IF re.pc = "close" THEN "close"
                ELSE IF c.op = "pause" /\ ~re.failed THEN "reap" ELSE "receive"
           cs == IF c.op = "read" THEN re.commands ELSE Append(re.commands, c)
           rs == IF c.op = "read" THEN Append(re.reads, c) ELSE re.reads
<1>0. mailbox \in Seq(CommandT) /\ re \in ReactorT /\ mailbox # <<>>
  BY DEF TypeOK, TakeCommand
<1>1. c \in CommandT /\ Tail(mailbox) \in Seq(CommandT)
  BY <1>0
<1>2. re.commands \in Seq(CommandT) /\ re.reads \in Seq(CommandT)
  BY <1>0 DEF ReactorT
<1>3. cs \in Seq(CommandT) /\ rs \in Seq(CommandT) /\ x \in {"receive", "reap", "close"}
      /\ (x = "close" <=> re.pc = "close")
  BY <1>1, <1>2
<1>4. re' = [re EXCEPT !.pc = x, !.commands = cs, !.reads = rs]
  <2>1. CASE c.op = "read"
    <3>1. re' = [[re EXCEPT !.pc = x] EXCEPT !.reads = Append(@, c)]
      BY <2>1 DEF TakeCommand
    <3> QED BY <1>0, <2>1, <3>1 DEF ReactorT
  <2>2. CASE c.op # "read"
    <3>1. re' = [[re EXCEPT !.pc = x] EXCEPT !.commands = Append(@, c)]
      BY <2>2 DEF TakeCommand
    <3> QED BY <1>0, <2>2, <3>1 DEF ReactorT
  <2> QED BY <2>1, <2>2
<1>5. /\ mailbox' = Tail(mailbox) /\ re.pc \in {"wait", "receive", "close"}
      /\ UNCHANGED <<front, reqs, answer, log, port, health, kernel, cqes>>
  BY DEF TakeCommand, Awake, At
<1> HIDE DEF x, cs, rs
<1>6. re' \in ReactorT
  BY <1>0, <1>3, <1>4 DEF ReactorT, Phases
<1>7. Took(c)
  <2>1. /\ re'.commands = cs /\ re'.reads = rs /\ re'.pc = x
        /\ re'.pending = re.pending /\ re'.appends = re.appends
        /\ re'.bulk = re.bulk /\ re'.cohort = re.cohort /\ re'.failed = re.failed
    BY <1>0, <1>4 DEF ReactorT
  <2> QED BY <1>0, <1>3, <1>5, <2>1 DEF Took, cs, rs
<1> QED BY <1>1, <1>5, <1>6, <1>7 DEF TypeOK

\* Every owner whose completion was posted is ready.
ReapedPending ==
  [t \in DOMAIN re.pending |->
     [re.pending[t] EXCEPT !.ready = @ \/ \E c \in cqes : c.token = t]]

LEMMA ReapedIs ==
  ASSUME TypeOK
  PROVE  /\ Reaped(Received) \in ReactorT
         /\ Reaped(Received).pending = ReapedPending
         /\ Reaped(Received).commands = re.commands
         /\ Reaped(Received).reads = re.reads
         /\ Reaped(Received).appends = re.appends
         /\ Reaped(Received).bulk = re.bulk /\ Reaped(Received).token = re.token
         /\ Reaped(Received).cohort = re.cohort
         /\ Reaped(Received).failed = re.failed
<1>0. re \in ReactorT /\ front.open \in BOOLEAN
  BY DEF TypeOK, FrontT
<1>1. /\ Received \in ReactorT /\ Same(re, Received)
  <2>1. (re.closed \/ ~front.open) \in BOOLEAN
    OBVIOUS
  <2>2. Received = re \/ Received = [re EXCEPT !.closed = re.closed \/ ~front.open]
    BY DEF Received
  <2> QED BY <1>0, <2>1, <2>2 DEF ReactorT, Same
<1>2. ReapedPending \in PendingT
  <2>1. re.pending \in PendingT
    BY <1>0 DEF ReactorT
  <2>2. DOMAIN re.pending \in SUBSET (Nat \ {0})
        /\ \A t \in DOMAIN re.pending : re.pending[t] \in WorkT
    BY <2>1, PendingElem
  <2>3. \A t \in DOMAIN re.pending :
          [re.pending[t] EXCEPT !.ready = @ \/ \E c \in cqes : c.token = t] \in WorkT
    <3> TAKE t \in DOMAIN re.pending
    <3> DEFINE b == re.pending[t].ready \/ \E c \in cqes : c.token = t
    <3>1. b \in BOOLEAN
      OBVIOUS
    <3> HIDE DEF b
    <3>2. [re.pending[t] EXCEPT !.ready = b] \in WorkT
      BY <2>2, <3>1 DEF WorkT
    <3> QED BY <3>2 DEF b
  <2>4. ReapedPending \in [DOMAIN re.pending -> WorkT]
    BY <2>3 DEF ReapedPending
  <2> QED BY <2>2, <2>4, PendingIntro
<1>3. Reaped(Received) = [Received EXCEPT !.pending = ReapedPending]
  <2>1. Received.pending = re.pending
    BY <1>1 DEF Same
  <2>2. Reaped(Received) =
          [Received EXCEPT !.pending =
             [t \in DOMAIN Received.pending |->
                [Received.pending[t] EXCEPT
                   !.ready = @ \/ \E c \in cqes : c.token = t]]]
    BY DEF Reaped
  <2> QED BY <2>1, <2>2, Zenon DEF ReapedPending
<1> QED BY <1>1, <1>2, <1>3 DEF ReactorT, Same

\* What the rest of the head leaves.
Reaping ==
  /\ re'.pending = ReapedPending /\ re'.commands = re.commands
  /\ re'.reads = re.reads /\ re'.bulk = re.bulk /\ re'.cohort = re.cohort
  /\ \/ re'.failed = re.failed /\ re'.appends = re.appends
     \/ re'.failed /\ re'.appends = <<>>
  /\ re'.failed => health'
  /\ health => health'
  /\ re.failed => re'.failed
  /\ re'.pc \in {"stop", "reject", "poll", "finish"}
  /\ re'.pc = "reject" => re'.failed
  /\ re'.pc = "finish" =>
       re'.todo = {t \in DOMAIN ReapedPending : ReapedPending[t].ready}
  /\ re.pc \in {"wait", "receive", "reap"}

LEMMA ReceiveIs ==
  ASSUME TypeOK, Receive
  PROVE  TypeOK' /\ Reaping /\ cqes' = {}
         /\ UNCHANGED <<front, reqs, answer, mailbox, log, kernel>>
<1> DEFINE q == Reaped(Received)
<1>0. re \in ReactorT /\ port \in PortT /\ health \in BOOLEAN
  BY DEF TypeOK
<1>1. /\ cqes' = {} /\ UNCHANGED <<front, reqs, answer, mailbox, log, kernel>>
      /\ re.pc \in {"wait", "receive", "reap"}
  BY DEF Receive, At, Awake
<1>2. PICK late \in BOOLEAN :
        /\ re' = IF UnknownCqe THEN Stopping(q)
                 ELSE IF re.failed \/ FailedCqe \/ health \/ late
                   THEN EnterFinish(Failing(q))
                 ELSE [q EXCEPT !.pc = "poll"]
        /\ health' = (re.failed \/ FailedCqe \/ health \/ late)
        /\ port' = IF re.failed \/ FailedCqe \/ health \/ late
                     THEN Aborted(port) ELSE port
  BY DEF Receive
<1>3. port' \in PortT
  BY <1>0, <1>2 DEF Aborted, PortT
<1>4. q \in ReactorT /\ q.pending = ReapedPending /\ q.commands = re.commands
      /\ q.reads = re.reads /\ q.appends = re.appends /\ q.bulk = re.bulk
      /\ q.cohort = re.cohort /\ q.failed = re.failed
  BY ReapedIs
<1>5. health' \in BOOLEAN
  BY <1>2
<1> HIDE DEF q
<1>6. CASE UnknownCqe
  <2>1. re' = Stopping(q)
    BY <1>2, <1>6
  <2>2. re' \in ReactorT /\ Same(q, re') /\ re'.pc = "stop"
    BY <1>4, <2>1, StoppingIs
  <2>3. Reaping
    BY <1>1, <1>2, <1>4, <2>2 DEF Reaping, Same
  <2> QED BY <1>1, <1>3, <1>5, <2>2, <2>3 DEF TypeOK
<1>7. CASE ~UnknownCqe /\ (re.failed \/ FailedCqe \/ health \/ late)
  <2>1. re' = EnterFinish(Failing(q)) /\ health'
    BY <1>2, <1>7
  <2>2. Failing(q) \in ReactorT /\ Failing(q).failed = TRUE
        /\ Failing(q).appends = <<>> /\ Failing(q).pending = q.pending
        /\ Failing(q).commands = q.commands /\ Failing(q).reads = q.reads
        /\ Failing(q).bulk = q.bulk /\ Failing(q).cohort = q.cohort
    BY <1>4, FailingIs
  <2>3. /\ re' \in ReactorT /\ Same(Failing(q), re')
        /\ \/ re'.pc = "reject"
           \/ /\ re'.pc = "finish"
              /\ re'.todo = {t \in DOMAIN q.pending : q.pending[t].ready}
    BY <2>1, <2>2, EnterFinishIs
  <2>4. Reaping
    BY <1>1, <1>4, <2>1, <2>2, <2>3 DEF Reaping, Same
  <2> QED BY <1>1, <1>3, <1>5, <2>3, <2>4 DEF TypeOK
<1>8. CASE ~UnknownCqe /\ ~(re.failed \/ FailedCqe \/ health \/ late)
  <2>1. re' = [q EXCEPT !.pc = "poll"] /\ ~re.failed
    BY <1>2, <1>8
  <2>2. re' \in ReactorT /\ Same(q, re') /\ re'.pc = "poll"
    BY <1>4, <2>1 DEF ReactorT, Same, Phases
  <2>3. Reaping
    BY <1>1, <1>2, <1>4, <1>8, <2>1, <2>2 DEF Reaping, Same
  <2> QED BY <1>1, <1>3, <1>5, <2>2, <2>3 DEF TypeOK
<1> QED BY <1>6, <1>7, <1>8

-----------------------------------------------------------------------------
(* Steps that change no owner                                              *)

\* Only the phase of the loop, the port, the window and the log's segment
\* change.
Steady ==
  /\ Same(re, re') /\ UNCHANGED <<front, reqs, answer, mailbox, kernel, cqes>>
  /\ log'.issued = log.issued /\ log'.published = log.published
  /\ log'.durable = log.durable /\ log'.cohort = log.cohort
  /\ health' = health
  /\ re.pc \notin {"stop", "close", "drop", "gone"}
  /\ re'.pc \notin {"close", "drop"}
  /\ re'.pc = "reject" => re.failed
  /\ re'.pc = "finish" =>
       re'.todo = {t \in DOMAIN re.pending : re.pending[t].ready}

LEMMA SameRefl == Same(re, re)
BY DEF Same

LEMMA PollEventIs ==
  ASSUME TypeOK, PollEvent
  PROVE  TypeOK' /\ Steady
<1>0. re \in ReactorT /\ port \in PortT /\ log \in LogT /\ re.pc = "poll"
      /\ port.holds + 1 \in Nat /\ port.through \in Nat /\ log.durable \in Nat
      /\ log.seg + 1 \in Nat
  BY DEF TypeOK, PollEvent, At, PortT, LogT
<1>1. UNCHANGED <<front, reqs, answer, mailbox, health, kernel, cqes>>
  BY DEF PollEvent
<1>2. re' = re \/ re' = Stopping(re)
  BY DEF PollEvent
<1>3. /\ re' \in ReactorT /\ Same(re, re')
      /\ re'.pc = "poll" \/ re'.pc = "stop"
  BY <1>0, <1>2, StoppingIs, SameRefl
<1>4. \/ log' = log \/ log' = [log EXCEPT !.rotating = TRUE]
      \/ log' = [log EXCEPT !.rotating = FALSE]
      \/ log' = [log EXCEPT !.compacted = port.through]
      \/ log' = [log EXCEPT !.seg = @ + 1, !.end = 1, !.fenced = FALSE,
                            !.rotating = FALSE]
  BY DEF PollEvent
<1>5. /\ log' \in LogT /\ log'.issued = log.issued
      /\ log'.published = log.published /\ log'.durable = log.durable
      /\ log'.cohort = log.cohort
  <2>1. CASE log' = [log EXCEPT !.seg = @ + 1, !.end = 1, !.fenced = FALSE,
                                !.rotating = FALSE]
    BY <1>0, <2>1 DEF LogT
  <2>2. CASE log' = [log EXCEPT !.compacted = port.through]
    BY <1>0, <2>2 DEF LogT
  <2>3. CASE \/ log' = log \/ log' = [log EXCEPT !.rotating = TRUE]
             \/ log' = [log EXCEPT !.rotating = FALSE]
    BY <1>0, <2>3 DEF LogT
  <2> QED BY <1>4, <2>1, <2>2, <2>3
<1>6. port' \in PortT
  <2> DEFINE idle == [port EXCEPT !.job = "idle", !.active = FALSE]
  <2>1. idle \in PortT /\ idle.holds = port.holds
    BY <1>0 DEF PortT
  <2>2. CancelRollover(idle) \in PortT
    BY <2>1 DEF CancelRollover, PortT
  <2>3. \/ port' = port
        \/ port' = [port EXCEPT !.active = FALSE]
        \/ port' = idle
        \/ port' = [idle EXCEPT !.holds = @ + 1]
        \/ port' = [port EXCEPT !.job = "prepared"]
        \/ port' = [port EXCEPT !.job = "selected", !.through = log.durable]
        \/ port' = [idle EXCEPT !.rotation = "none"]
        \/ port' = [port EXCEPT !.hold = "open", !.job = "idle"]
        \/ port' = [CancelRollover(idle) EXCEPT !.quiescence = "asked"]
        \/ port' = [port EXCEPT !.quiescence = "none", !.hold = "open",
                                !.job = "idle"]
    BY DEF PollEvent
  <2> HIDE DEF idle
  <2>4. CASE port' = [idle EXCEPT !.holds = @ + 1]
    BY <1>0, <2>1, <2>4 DEF PortT
  <2>5. CASE port' = [CancelRollover(idle) EXCEPT !.quiescence = "asked"]
    BY <2>2, <2>5 DEF PortT
  <2>6. CASE port' = [idle EXCEPT !.rotation = "none"]
    BY <2>1, <2>6 DEF PortT
  <2>7. CASE port' = [port EXCEPT !.job = "selected", !.through = log.durable]
    BY <1>0, <2>7 DEF PortT
  <2>8. CASE \/ port' = port \/ port' = [port EXCEPT !.active = FALSE]
             \/ port' = [port EXCEPT !.job = "prepared"]
             \/ port' = [port EXCEPT !.hold = "open", !.job = "idle"]
             \/ port' = [port EXCEPT !.quiescence = "none", !.hold = "open",
                                     !.job = "idle"]
    BY <1>0, <2>8 DEF PortT
  <2> QED BY <2>1, <2>3, <2>4, <2>5, <2>6, <2>7, <2>8
<1>7. TypeOK'
  BY <1>1, <1>3, <1>5, <1>6 DEF TypeOK
<1> QED BY <1>0, <1>1, <1>3, <1>5, <1>7 DEF Steady

LEMMA PollTurnIs ==
  ASSUME TypeOK, PollTurn
  PROVE  TypeOK' /\ Steady
<1>0. re \in ReactorT /\ port \in PortT /\ re.pc = "poll"
  BY DEF TypeOK, PollTurn, At
<1>1. UNCHANGED <<front, reqs, answer, mailbox, log, health, kernel, cqes>>
  BY DEF PollTurn
<1>2. re' = [re EXCEPT !.pc = IF win'.failed THEN "stop" ELSE "publish"]
  BY DEF PollTurn
<1>3. re' \in ReactorT /\ Same(re, re') /\ re'.pc \in {"stop", "publish"}
  BY <1>0, <1>2 DEF ReactorT, Same, Phases
<1>4. PICK turn \in {"none", "rotate", "compact"}, p \in {port, CancelRollover(port)} :
        port' = IF turn = "none" THEN p ELSE [p EXCEPT !.job = turn, !.active = TRUE]
  BY DEF PollTurn
<1>5. p \in PortT
  BY <1>0 DEF CancelRollover, PortT
<1>6. port' \in PortT
  BY <1>4, <1>5 DEF PortT
<1>7. TypeOK'
  BY <1>1, <1>3, <1>6 DEF TypeOK
<1> QED BY <1>0, <1>1, <1>3, <1>7 DEF Steady

LEMMA PublishedIs ==
  ASSUME TypeOK, Published
  PROVE  TypeOK' /\ Steady
<1>0. re \in ReactorT /\ re.pc = "publish"
  BY DEF TypeOK, Published, At
<1>1. UNCHANGED <<front, reqs, answer, mailbox, log, port, health, kernel, cqes>>
  BY DEF Published
<1>2. re' = Stopping(re) \/ re' = EnterFinish(re)
  BY DEF Published
<1>3. /\ re' \in ReactorT /\ Same(re, re')
      /\ \/ re'.pc = "stop"
         \/ re'.pc = IF re.failed THEN "reject" ELSE "dispatch"
         \/ /\ re'.pc = "finish"
            /\ re'.todo = {t \in DOMAIN re.pending : re.pending[t].ready}
  BY <1>0, <1>2, StoppingIs, EnterFinishIs
<1>4. TypeOK'
  BY <1>1, <1>3 DEF TypeOK
<1> QED BY <1>0, <1>1, <1>3, <1>4 DEF Steady

LEMMA DispatchNoneIs ==
  ASSUME TypeOK, DispatchNone
  PROVE  TypeOK' /\ Steady
<1>0. re \in ReactorT /\ re.pc = "dispatch" /\ re' = Break(re)
      /\ UNCHANGED <<front, reqs, answer, mailbox, log, port, health, kernel, cqes>>
  BY DEF TypeOK, DispatchNone, At
<1>1. /\ re' \in ReactorT /\ Same(re, re')
      /\ re'.pc = IF re.failed THEN "reject" ELSE "reads"
  BY <1>0, BreakIs
<1>2. TypeOK'
  BY <1>0, <1>1 DEF TypeOK
<1> QED BY <1>0, <1>1, <1>2 DEF Steady

LEMMA SubmittedIs ==
  ASSUME TypeOK, Submitted
  PROVE  TypeOK' /\ Steady
<1>0. re \in ReactorT /\ re.pc = "submit"
      /\ UNCHANGED <<front, reqs, answer, mailbox, log, port, health, kernel, cqes>>
  BY DEF TypeOK, Submitted, At
<1>1. CASE re.failed
  <2>1. re' = [re EXCEPT !.pc = "reject"]
    BY <1>1 DEF Submitted
  <2>2. re' \in ReactorT /\ Same(re, re') /\ re'.pc = "reject"
    BY <1>0, <2>1 DEF ReactorT, Same, Phases
  <2>3. TypeOK'
    BY <1>0, <2>2 DEF TypeOK
  <2> QED BY <1>0, <1>1, <2>2, <2>3 DEF Steady
<1>2. CASE ~re.failed
  <2>1. re' = EndPass(re, port)
    BY <1>2 DEF Submitted
  <2>2. re' \in ReactorT /\ Same(re, re') /\ re'.pc \in {"wait", "gone"}
    BY <1>0, <2>1, EndPassIs
  <2>3. TypeOK'
    BY <1>0, <2>2 DEF TypeOK
  <2> QED BY <1>0, <2>2, <2>3 DEF Steady
<1> QED BY <1>1, <1>2

-----------------------------------------------------------------------------
(* Owners and the kernel                                                   *)

\* A transfer the kernel holds, or has completed and not yet reported, and one
\* the scheduler still queues, each has its owner, not completed; no token is
\* in two of these places.
InKernel ==
  /\ \A t \in kernel : t \in DOMAIN re.pending /\ ~re.pending[t].ready
  /\ \A c \in cqes : /\ c.token \in DOMAIN re.pending
                     /\ ~re.pending[c.token].ready
                     /\ c.token \notin kernel
Queued ==
  /\ \A i \in DOMAIN re.bulk :
       /\ re.bulk[i] \in DOMAIN re.pending /\ ~re.pending[re.bulk[i]].ready
       /\ re.pending[re.bulk[i]].op # "fence"
       /\ re.bulk[i] \notin kernel
       /\ \A c \in cqes : c.token # re.bulk[i]
  /\ \A i, j \in DOMAIN re.bulk : re.bulk[i] = re.bulk[j] => i = j

\* finish_ready works on completed owners; the ordered appends are owned
\* until the image fails, and then the gate has failed.
Completed ==
  re.pc = "finish" =>
    \A t \in re.todo : t \in DOMAIN re.pending /\ re.pending[t].ready
OrderedAppends ==
  ~re.failed => \A i \in DOMAIN re.appends :
                  /\ re.appends[i] \in DOMAIN re.pending
                  /\ re.pending[re.appends[i]].op = "append"
AppendsApart ==
  ~re.failed => \A i, j \in DOMAIN re.appends : re.appends[i] = re.appends[j] => i = j
Failure ==
  /\ re.failed => health
  /\ re.pc \in {"reject", "close", "drop"} => re.failed
  /\ re.pc = "drop" => re.bulk = <<>>

KernelInv ==
  InKernel /\ Queued /\ Completed /\ OrderedAppends /\ AppendsApart /\ Failure

-----------------------------------------------------------------------------
(* Published appends and finished transfers                                *)

LEMMA WithoutIs ==
  ASSUME NEW p \in PendingT, NEW t
  PROVE  /\ Without(p, t) \in PendingT /\ DOMAIN Without(p, t) = DOMAIN p \ {t}
         /\ \A k \in DOMAIN p \ {t} : Without(p, t)[k] = p[k]
<1>1. DOMAIN p \ {t} \in SUBSET (Nat \ {0})
  BY PendingElem
<1>2. Without(p, t) \in [DOMAIN p \ {t} -> WorkT]
  BY PendingElem DEF Without
<1>3. Without(p, t) \in PendingT
  BY <1>1, <1>2, PendingIntro
<1> QED BY <1>3 DEF Without

LEMMA PublishAppendIs ==
  ASSUME TypeOK, KernelInv, PublishAppend
  PROVE  /\ TypeOK'
         /\ re.appends # <<>> /\ ~health /\ ~re.failed
         /\ Head(re.appends) \in DOMAIN re.pending
         /\ re.pending[Head(re.appends)].ready
         /\ re.pending[Head(re.appends)].op = "append"
         /\ log' = [log EXCEPT !.published = re.pending[Head(re.appends)].last]
         /\ answer' = Answer(answer, ToSet(re.pending[Head(re.appends)].ids), "ok")
         /\ re'.appends = Tail(re.appends)
         /\ re'.pending = Without(re.pending, Head(re.appends))
         /\ re'.commands = re.commands /\ re'.reads = re.reads
         /\ re'.bulk = re.bulk /\ re'.cohort = re.cohort
         /\ re'.failed = re.failed /\ re'.pc = "publish"
         /\ re.pc = "publish"
         /\ UNCHANGED <<front, reqs, mailbox, health, kernel, cqes>>
<1> DEFINE t == Head(re.appends)
<1>0. re \in ReactorT /\ log \in LogT /\ re.pc = "publish"
  BY DEF TypeOK, PublishAppend, At
<1>1. re.appends \in Seq(Nat) /\ re.pending \in PendingT /\ re.appends # <<>>
      /\ ~health /\ re.pending[t].ready
  BY <1>0 DEF ReactorT, PublishAppend, Publishable
<1>2. t = re.appends[1] /\ 1 \in DOMAIN re.appends /\ ~re.failed
  BY <1>1 DEF KernelInv, Failure
<1>3. t \in DOMAIN re.pending /\ re.pending[t].op = "append"
  BY <1>2 DEF KernelInv, OrderedAppends
<1>4. re.pending[t].last \in Nat
  BY <1>1, <1>3, PendingElem DEF WorkT
<1>5. /\ log' = [log EXCEPT !.published = re.pending[t].last]
      /\ answer' = Answer(answer, ToSet(re.pending[t].ids), "ok")
      /\ re' = [re EXCEPT !.appends = Tail(@), !.pending = Without(@, t)]
      /\ UNCHANGED <<front, reqs, mailbox, port, health, kernel, cqes>>
  BY DEF PublishAppend
<1> HIDE DEF t
<1>6. log' \in LogT
  BY <1>0, <1>4, <1>5 DEF LogT
<1>7. Tail(re.appends) \in Seq(Nat) /\ Without(re.pending, t) \in PendingT
  <2>1. Tail(re.appends) \in Seq(Nat)
    BY <1>1
  <2> QED BY <1>1, <2>1, WithoutIs
<1>8. re' \in ReactorT
  BY <1>0, <1>5, <1>7 DEF ReactorT
<1>9. /\ re'.appends = Tail(re.appends) /\ re'.pending = Without(re.pending, t)
      /\ re'.commands = re.commands /\ re'.reads = re.reads
      /\ re'.bulk = re.bulk /\ re'.cohort = re.cohort
      /\ re'.failed = re.failed /\ re'.pc = "publish"
  BY <1>0, <1>5 DEF ReactorT
<1>10. answer' \in [Ids -> Seq({"ok", "err"})]
  BY <1>5, AnswerType
<1>11. TypeOK'
  BY <1>5, <1>6, <1>8, <1>10 DEF TypeOK
<1> QED BY <1>0, <1>1, <1>2, <1>3, <1>5, <1>9, <1>11 DEF t

\* What finish_ready does with one completed owner, of token t: leave it, give
\* it up with an answer or none, or submit its next transfer.
Skip(t) ==
  IF re.todo = {t} THEN AfterFinish([re EXCEPT !.todo = {}])
  ELSE [re EXCEPT !.todo = @ \ {t}]
Finishing(t) ==
  /\ re'.commands = re.commands /\ re'.reads = re.reads
  /\ re'.pc \in {"finish", "dispatch", "reject", "stop"}
  /\ re'.pc = "reject" => re'.failed
  /\ re'.pc = "finish" => re'.todo = re.todo \ {t}
  /\ \/ re'.failed = re.failed /\ re'.appends = re.appends /\ health' = health
     \/ re'.failed /\ re'.appends = <<>> /\ health'
Left(t) == Same(re, re') /\ UNCHANGED <<answer, log, kernel, health>>
GivenUp(t) ==
  /\ re'.pending = Without(re.pending, t)
  /\ re'.bulk = re.bulk /\ kernel' = kernel
  /\ re'.failed \/ re.pending[t].op # "append"
  /\ \/ re'.cohort = re.cohort /\ re.pending[t].op # "fence"
     \/ re'.cohort = 0
     \/ re'.pc = "stop"
  /\ \/ answer' = Answer(answer, ToSet(re.pending[t].ids), "err") /\ log' = log
     \/ answer' = answer /\ log' = log
     \/ /\ ~re.failed /\ re.pending[t].op = "read" /\ log' = log
        /\ answer' = Answer(answer, ToSet(re.pending[t].ids), "ok")
     \/ /\ ~re.failed /\ re.pending[t].op = "fence" /\ ~health
        /\ log' = [log EXCEPT !.durable = re.pending[t].last, !.fenced = TRUE,
                              !.cohort = NoCohort]
        /\ answer' = Answer(answer, ToSet(re.pending[t].ids), "ok")
Resubmitted(t) ==
  /\ UNCHANGED <<answer, log, health>> /\ re'.failed = re.failed
  /\ re'.appends = re.appends /\ re'.cohort = re.cohort
  /\ \/ /\ re.pending[t].op = "read"
        /\ re'.pending = [re.pending EXCEPT ![t] =
                            [re.pending[t] EXCEPT !.left = @ - 1, !.ready = FALSE]]
        /\ re'.bulk = Append(re.bulk, t) /\ kernel' = kernel
     \/ /\ re.pending[t].op = "fence"
        /\ re'.pending = [re.pending EXCEPT ![t] =
                            [re.pending[t] EXCEPT !.syncing = TRUE, !.ready = FALSE]]
        /\ re'.bulk = re.bulk /\ kernel' = kernel \cup {t}

LEMMA SkipIs ==
  ASSUME TypeOK, re.pc = "finish", NEW t \in re.todo
  PROVE  /\ Skip(t) \in ReactorT /\ Same(re, Skip(t))
         /\ Skip(t).pc \in {"finish", "dispatch", "reject"}
         /\ Skip(t).pc = "reject" => re.failed
         /\ Skip(t).pc = "dispatch" => ~re.failed
         /\ Skip(t).pc = "finish" => Skip(t).todo = re.todo \ {t}
<1>0. re \in ReactorT /\ re.todo \subseteq Nat
  BY DEF TypeOK, ReactorT
<1>1. CASE re.todo = {t}
  <2> DEFINE q == [re EXCEPT !.todo = {}]
  <2>1. q \in ReactorT /\ Same(re, q)
    BY <1>0 DEF ReactorT, Same
  <2> HIDE DEF q
  <2>2. /\ AfterFinish(q) \in ReactorT /\ Same(q, AfterFinish(q))
        /\ AfterFinish(q).pc = IF q.failed THEN "reject" ELSE "dispatch"
    BY <2>1, AfterFinishIs
  <2>3. Skip(t) = AfterFinish(q)
    BY <1>1 DEF Skip, q
  <2> QED BY <2>1, <2>2, <2>3 DEF Same
<1>2. CASE re.todo # {t}
  <2>1. Skip(t) = [re EXCEPT !.todo = @ \ {t}]
    BY <1>2 DEF Skip
  <2> QED BY <1>0, <2>1 DEF ReactorT, Same
<1> QED BY <1>1, <1>2

LEMMA FailReadIs ==
  ASSUME TypeOK, NEW q \in ReactorT, NEW ids, FailRead(q, ids)
  PROVE  /\ re' = Failing(q) /\ re' \in ReactorT /\ health' = TRUE
         /\ port' \in PortT /\ answer' = Answer(answer, ToSet(ids), "err")
<1>1. re' = Failing(q) /\ health' = TRUE /\ port' = Aborted(port)
      /\ answer' = Answer(answer, ToSet(ids), "err")
  BY DEF FailRead
<1>2. port' \in PortT
  BY <1>1 DEF TypeOK, Aborted, PortT
<1> QED BY <1>1, <1>2, FailingIs

LEMMA FinishIs ==
  ASSUME TypeOK, KernelInv, Finish
  PROVE  /\ TypeOK' /\ re.pc = "finish"
         /\ UNCHANGED <<front, reqs, mailbox, cqes>>
         /\ \E t \in re.todo : /\ t \in DOMAIN re.pending /\ re.pending[t].ready
                               /\ Finishing(t)
                               /\ Left(t) \/ GivenUp(t) \/ Resubmitted(t)
<1> DEFINE t == CHOOSE k \in re.todo : \A j \in re.todo : k <= j
           w == re.pending[t]
           skip == Skip(t)
           gone == [skip EXCEPT !.pending = Without(@, t)]
           Again(v) == [skip EXCEPT !.pending[t] = v]
<1>0. re \in ReactorT /\ re.pc = "finish" /\ re.todo # {} /\ log \in LogT
      /\ re.todo \subseteq Nat /\ re.pending \in PendingT /\ port \in PortT
      /\ health \in BOOLEAN /\ kernel \subseteq Nat
  BY DEF TypeOK, ReactorT, Finish, At
<1>1. t \in re.todo
  <2>1. \E k \in re.todo : \A j \in re.todo : k <= j
    BY <1>0, LeastExists
  <2> QED BY <2>1
<1>2. t \in DOMAIN re.pending /\ w.ready
  BY <1>0, <1>1 DEF KernelInv, Completed
<1>3. UNCHANGED <<front, reqs, mailbox, cqes>>
  BY DEF Finish
<1>4. \/ /\ re.failed
         /\ re' = [gone EXCEPT !.cohort = IF w.op = "fence" THEN 0 ELSE @]
         /\ answer' = Answer(answer, ToSet(w.ids), "err")
         /\ UNCHANGED <<log, kernel, port, health>>
      \/ /\ ~re.failed
         /\ re' = skip
         /\ UNCHANGED <<answer, log, kernel, port, health>>
      \/ /\ ~re.failed /\ w.op = "read"
         /\ FailRead([gone EXCEPT !.pc = IF @ = "dispatch" THEN "reject" ELSE @],
                     w.ids)
         /\ UNCHANGED <<log, kernel>>
      \/ /\ ~re.failed /\ w.op = "read"
         /\ re' = gone /\ answer' = Answer(answer, ToSet(w.ids), "ok")
         /\ UNCHANGED <<log, kernel, port, health>>
      \/ /\ ~re.failed /\ w.op = "read" /\ w.left > 0
         /\ re' = [Again([w EXCEPT !.left = @ - 1, !.ready = FALSE]) EXCEPT
                     !.bulk = Append(@, t)]
         /\ UNCHANGED <<answer, log, kernel, port, health>>
      \/ /\ ~re.failed /\ w.op = "fence"
         /\ re' = [gone EXCEPT !.pc = "stop"]
         /\ UNCHANGED <<answer, log, kernel, port, health>>
      \/ /\ ~re.failed /\ w.op = "fence" /\ ~health
         /\ log' = [log EXCEPT !.durable = w.last, !.fenced = TRUE,
                               !.cohort = NoCohort]
         /\ re' = [gone EXCEPT !.cohort = 0]
         /\ answer' = Answer(answer, ToSet(w.ids), "ok")
         /\ UNCHANGED <<kernel, port, health>>
      \/ /\ ~re.failed /\ w.op = "fence"
         /\ re' = Again([w EXCEPT !.syncing = TRUE, !.ready = FALSE])
         /\ kernel' = kernel \cup {t}
         /\ UNCHANGED <<answer, log, port, health>>
  <2> HIDE DEF t
  <2> QED BY DEF Finish, Skip, t
<1>5. /\ skip \in ReactorT /\ Same(re, skip)
      /\ skip.pc \in {"finish", "dispatch", "reject"}
      /\ skip.pc = "reject" => re.failed
      /\ skip.pc = "dispatch" => ~re.failed
      /\ skip.pc = "finish" => skip.todo = re.todo \ {t}
  BY <1>0, <1>1, SkipIs
<1>6. w \in WorkT /\ Without(re.pending, t) \in PendingT
  BY <1>0, <1>2, PendingElem, WithoutIs
<1> HIDE DEF skip, t
<1>7. /\ gone \in ReactorT /\ gone.commands = re.commands /\ gone.reads = re.reads
      /\ gone.pending = Without(re.pending, t) /\ gone.appends = re.appends
      /\ gone.bulk = re.bulk /\ gone.cohort = re.cohort
      /\ gone.failed = re.failed /\ gone.pc = skip.pc /\ gone.todo = skip.todo
  <2>1. skip.pending = re.pending
    BY <1>5 DEF Same
  <2> QED BY <1>5, <1>6, <2>1 DEF ReactorT, Same
<1>8. \A v \in WorkT :
        /\ Again(v) \in ReactorT /\ Again(v).commands = re.commands
        /\ Again(v).reads = re.reads /\ Again(v).appends = re.appends
        /\ Again(v).pending = [re.pending EXCEPT ![t] = v]
        /\ Again(v).bulk = re.bulk /\ Again(v).cohort = re.cohort
        /\ Again(v).failed = re.failed /\ Again(v).pc = skip.pc
        /\ Again(v).todo = skip.todo
  <2> TAKE v \in WorkT
  <2>1. skip.pending = re.pending
    BY <1>5 DEF Same
  <2>2. Again(v) = [skip EXCEPT !.pending = [re.pending EXCEPT ![t] = v]]
    BY <2>1
  <2>3. [re.pending EXCEPT ![t] = v] \in PendingT
    <3>1. [re.pending EXCEPT ![t] = v] \in [DOMAIN re.pending -> WorkT]
      BY <1>0, PendingElem
    <3>2. DOMAIN re.pending \in SUBSET (Nat \ {0})
      BY <1>0, PendingElem
    <3> QED BY <3>1, <3>2, PendingIntro
  <2> HIDE DEF Again
  <2> QED BY <1>5, <2>2, <2>3 DEF ReactorT, Same
<1> HIDE DEF gone, Again, w
<1>9. CASE /\ re.failed
           /\ re' = [gone EXCEPT !.cohort = IF w.op = "fence" THEN 0 ELSE @]
           /\ answer' = Answer(answer, ToSet(w.ids), "err")
           /\ UNCHANGED <<log, kernel, port, health>>
  <2> DEFINE c == IF w.op = "fence" THEN 0 ELSE gone.cohort
  <2>1. c \in Nat /\ (c = 0 \/ (c = re.cohort /\ w.op # "fence"))
    BY <1>7 DEF ReactorT
  <2>2. re' = [gone EXCEPT !.cohort = c]
    BY <1>9
  <2> HIDE DEF c
  <2>3. /\ re' \in ReactorT /\ re'.commands = gone.commands
        /\ re'.reads = gone.reads /\ re'.pending = gone.pending
        /\ re'.appends = gone.appends /\ re'.bulk = gone.bulk
        /\ re'.cohort = c /\ re'.failed = gone.failed /\ re'.pc = gone.pc
        /\ re'.todo = gone.todo
    BY <1>7, <2>1, <2>2 DEF ReactorT
  <2>4. Finishing(t)
    BY <1>5, <1>7, <1>9, <2>3 DEF Finishing
  <2>5. GivenUp(t)
    BY <1>7, <1>9, <2>1, <2>3 DEF GivenUp, w
  <2>6. TypeOK'
    BY <1>3, <1>9, <2>3, AnswerType DEF TypeOK
  <2> QED BY <1>0, <1>1, <1>2, <1>3, <2>4, <2>5, <2>6 DEF w
<1>10. CASE /\ ~re.failed /\ re' = skip
            /\ UNCHANGED <<answer, log, kernel, port, health>>
  <2>1. Finishing(t)
    BY <1>5, <1>10 DEF Finishing, Same
  <2>2. Left(t)
    BY <1>5, <1>10 DEF Left
  <2>3. TypeOK'
    BY <1>3, <1>5, <1>10 DEF TypeOK
  <2> QED BY <1>0, <1>1, <1>2, <1>3, <2>1, <2>2, <2>3 DEF w
<1>11. CASE /\ ~re.failed /\ w.op = "read"
            /\ FailRead([gone EXCEPT !.pc = IF @ = "dispatch" THEN "reject" ELSE @],
                        w.ids)
            /\ UNCHANGED <<log, kernel>>
  <2> DEFINE x == IF gone.pc = "dispatch" THEN "reject" ELSE gone.pc
             q == [gone EXCEPT !.pc = x]
  <2>1. x \in {"finish", "reject"}
    BY <1>5, <1>7, <1>11
  <2> HIDE DEF x
  <2>2. /\ q \in ReactorT /\ q.commands = gone.commands
        /\ q.reads = gone.reads /\ q.pending = gone.pending
        /\ q.bulk = gone.bulk /\ q.cohort = gone.cohort /\ q.pc = x
        /\ q.todo = gone.todo
    BY <1>7, <2>1 DEF ReactorT, Phases
  <2>3. FailRead(q, w.ids)
    BY <1>11 DEF x
  <2> HIDE DEF q
  <2>4. /\ re' = Failing(q) /\ re' \in ReactorT /\ health' = TRUE
        /\ port' \in PortT /\ answer' = Answer(answer, ToSet(w.ids), "err")
    BY <2>2, <2>3, FailReadIs
  <2>5. re'.failed = TRUE /\ re'.appends = <<>> /\ re'.pc = x
        /\ re'.commands = re.commands /\ re'.reads = re.reads
        /\ re'.pending = Without(re.pending, t) /\ re'.bulk = re.bulk
        /\ re'.cohort = re.cohort /\ re'.todo = gone.todo
    BY <1>7, <2>2, <2>4, FailingIs
  <2>6. x = "finish" => gone.todo = re.todo \ {t}
    BY <1>5, <1>7 DEF x
  <2>7. Finishing(t)
    BY <2>1, <2>4, <2>5, <2>6 DEF Finishing
  <2>8. GivenUp(t)
    BY <1>11, <2>4, <2>5 DEF GivenUp, w
  <2>9. TypeOK'
    BY <1>3, <1>11, <2>4, AnswerType DEF TypeOK
  <2> QED BY <1>0, <1>1, <1>2, <1>3, <2>7, <2>8, <2>9 DEF w
<1>12. CASE /\ ~re.failed /\ w.op = "read"
            /\ re' = gone /\ answer' = Answer(answer, ToSet(w.ids), "ok")
            /\ UNCHANGED <<log, kernel, port, health>>
  <2>1. Finishing(t)
    BY <1>5, <1>7, <1>12 DEF Finishing
  <2>2. GivenUp(t)
    BY <1>7, <1>12 DEF GivenUp, w
  <2>3. TypeOK'
    BY <1>3, <1>7, <1>12, AnswerType DEF TypeOK
  <2> QED BY <1>0, <1>1, <1>2, <1>3, <2>1, <2>2, <2>3 DEF w
<1>13. CASE /\ ~re.failed /\ w.op = "read" /\ w.left > 0
            /\ re' = [Again([w EXCEPT !.left = @ - 1, !.ready = FALSE]) EXCEPT
                        !.bulk = Append(@, t)]
            /\ UNCHANGED <<answer, log, kernel, port, health>>
  <2> DEFINE v == [w EXCEPT !.left = @ - 1, !.ready = FALSE]
  <2>1. w.left - 1 \in Nat
    BY <1>6, <1>13 DEF WorkT
  <2>2. v \in WorkT
    BY <1>6, <2>1 DEF WorkT
  <2>3. re' = [Again(v) EXCEPT !.bulk = Append(@, t)]
    BY <1>13
  <2>4. v = [re.pending[t] EXCEPT !.left = @ - 1, !.ready = FALSE]
    BY DEF w
  <2> HIDE DEF v
  <2>5. re.bulk \in Seq(Nat) /\ Append(re.bulk, t) \in Seq(Nat)
    BY <1>0, <1>1 DEF ReactorT
  <2>6. /\ re' \in ReactorT /\ re'.commands = re.commands
        /\ re'.reads = re.reads /\ re'.appends = re.appends
        /\ re'.pending = [re.pending EXCEPT ![t] = v]
        /\ re'.bulk = Append(re.bulk, t) /\ re'.cohort = re.cohort
        /\ re'.failed = re.failed /\ re'.pc = skip.pc
        /\ re'.todo = skip.todo
    BY <1>8, <2>2, <2>3, <2>5 DEF ReactorT
  <2>7. Finishing(t)
    BY <1>5, <1>13, <2>6 DEF Finishing
  <2>8. Resubmitted(t)
    BY <1>13, <2>4, <2>6 DEF Resubmitted, w
  <2>9. TypeOK'
    BY <1>3, <1>13, <2>6 DEF TypeOK
  <2> QED BY <1>0, <1>1, <1>2, <1>3, <2>7, <2>8, <2>9 DEF w
<1>14. CASE /\ ~re.failed /\ w.op = "fence"
            /\ re' = [gone EXCEPT !.pc = "stop"]
            /\ UNCHANGED <<answer, log, kernel, port, health>>
  <2>1. /\ re' \in ReactorT /\ re'.commands = gone.commands
        /\ re'.reads = gone.reads /\ re'.pending = gone.pending
        /\ re'.appends = gone.appends /\ re'.bulk = gone.bulk
        /\ re'.failed = gone.failed /\ re'.pc = "stop"
    BY <1>7, <1>14 DEF ReactorT, Phases
  <2>2. Finishing(t)
    BY <1>7, <1>14, <2>1 DEF Finishing
  <2>3. GivenUp(t)
    BY <1>7, <1>14, <2>1 DEF GivenUp, w
  <2>4. TypeOK'
    BY <1>3, <1>14, <2>1 DEF TypeOK
  <2> QED BY <1>0, <1>1, <1>2, <1>3, <2>2, <2>3, <2>4 DEF w
<1>15. CASE /\ ~re.failed /\ w.op = "fence" /\ ~health
            /\ log' = [log EXCEPT !.durable = w.last, !.fenced = TRUE,
                                  !.cohort = NoCohort]
            /\ re' = [gone EXCEPT !.cohort = 0]
            /\ answer' = Answer(answer, ToSet(w.ids), "ok")
            /\ UNCHANGED <<kernel, port, health>>
  <2>1. /\ re' \in ReactorT /\ re'.commands = gone.commands
        /\ re'.reads = gone.reads /\ re'.pending = gone.pending
        /\ re'.appends = gone.appends /\ re'.bulk = gone.bulk
        /\ re'.failed = gone.failed /\ re'.pc = gone.pc /\ re'.cohort = 0
        /\ re'.todo = gone.todo
    BY <1>7, <1>15 DEF ReactorT
  <2>2. w.last \in Nat
    BY <1>6 DEF WorkT
  <2>3. log' \in LogT
    BY <1>0, <1>15, <2>2 DEF LogT
  <2>4. Finishing(t)
    BY <1>5, <1>7, <1>15, <2>1 DEF Finishing
  <2>5. GivenUp(t)
    BY <1>7, <1>15, <2>1 DEF GivenUp, w
  <2>6. TypeOK'
    BY <1>3, <1>15, <2>1, <2>3, AnswerType DEF TypeOK
  <2> QED BY <1>0, <1>1, <1>2, <1>3, <2>4, <2>5, <2>6 DEF w
<1>16. CASE /\ ~re.failed /\ w.op = "fence"
            /\ re' = Again([w EXCEPT !.syncing = TRUE, !.ready = FALSE])
            /\ kernel' = kernel \cup {t}
            /\ UNCHANGED <<answer, log, port, health>>
  <2> DEFINE v == [w EXCEPT !.syncing = TRUE, !.ready = FALSE]
  <2>1. v \in WorkT
    BY <1>6 DEF WorkT
  <2>2. re' = Again(v)
    BY <1>16
  <2>3. v = [re.pending[t] EXCEPT !.syncing = TRUE, !.ready = FALSE]
    BY DEF w
  <2> HIDE DEF v
  <2>4. /\ re' \in ReactorT /\ re'.commands = re.commands
        /\ re'.reads = re.reads /\ re'.appends = re.appends
        /\ re'.pending = [re.pending EXCEPT ![t] = v]
        /\ re'.bulk = re.bulk /\ re'.cohort = re.cohort
        /\ re'.failed = re.failed /\ re'.pc = skip.pc
        /\ re'.todo = skip.todo
    BY <1>8, <2>1, <2>2
  <2>5. Finishing(t)
    BY <1>5, <1>16, <2>4 DEF Finishing
  <2>6. Resubmitted(t)
    BY <1>16, <2>3, <2>4 DEF Resubmitted, w
  <2>7. kernel' \subseteq Nat
    BY <1>0, <1>1, <1>16
  <2>8. TypeOK'
    BY <1>3, <1>16, <2>4, <2>7 DEF TypeOK
  <2> QED BY <1>0, <1>1, <1>2, <1>3, <2>5, <2>6, <2>8 DEF w
<1> QED BY <1>4, <1>9, <1>10, <1>11, <1>12, <1>13, <1>14, <1>15, <1>16

-----------------------------------------------------------------------------
(* Owners of requests                                                      *)

\* Two owners of a family hold no request in common.
Apart(owners) ==
  \A i, j \in DOMAIN owners :
    i # j => ToSet(owners[i].ids) \cap ToSet(owners[j].ids) = {}

\* The open batch, the mailbox, the queued commands, the queued reads and the
\* pending owners: a request has one owner, and none once it is answered.
Packed == ToSet(front.packing)
Separate(K, M, C, R, P) ==
  /\ K \cap M = {} /\ K \cap C = {} /\ K \cap R = {} /\ K \cap P = {}
  /\ M \cap C = {} /\ M \cap R = {} /\ M \cap P = {}
  /\ C \cap R = {} /\ C \cap P = {} /\ R \cap P = {}
OwnedOnce ==
  /\ Apart(mailbox) /\ Apart(re.commands) /\ Apart(re.reads) /\ Apart(re.pending)
  /\ Separate(Packed, IdsOf(mailbox), IdsOf(re.commands), IdsOf(re.reads),
              IdsOf(re.pending))
Unanswered == {i \in DOMAIN reqs : answer[i] = <<>>}
OwnedUnanswered ==
  /\ Packed \subseteq Unanswered /\ IdsOf(mailbox) \subseteq Unanswered
  /\ IdsOf(re.commands) \subseteq Unanswered /\ IdsOf(re.reads) \subseteq Unanswered
  /\ IdsOf(re.pending) \subseteq Unanswered
Fresh ==
  /\ Len(reqs) <= MaxRequests
  /\ \A i \in Ids : i \notin DOMAIN reqs => answer[i] = <<>>

\* A batch holds mutations of consecutive ordinals, the open one up to the last
\* admitted; a READ or FLUSH command holds the request it was made for, and a
\* barrier's command none.
Batch(r, ids) ==
  /\ ids # <<>>
  /\ \A j \in DOMAIN ids : /\ r[ids[j]].kind \in {"write", "zero"}
                           /\ r[ids[j]].boundary = r[ids[1]].boundary + j - 1
Carries(r, c) ==
  /\ c.op = "append" => Batch(r, c.ids)
  /\ c.op \in {"read", "flush"} =>
       Len(c.ids) = 1 /\ r[c.ids[1]] = [kind |-> c.op, boundary |-> c.boundary]
  /\ c.op \in {"pause", "attach", "resume"} => c.ids = <<>>
Carried ==
  /\ front.packing # <<>> =>
       /\ Batch(reqs, front.packing)
       /\ front.admitted = reqs[front.packing[1]].boundary + Len(front.packing) - 1
  /\ \A i \in DOMAIN mailbox : Carries(reqs, mailbox[i])
  /\ \A i \in DOMAIN re.commands :
       Carries(reqs, re.commands[i]) /\ re.commands[i].op # "read"
  /\ \A i \in DOMAIN re.reads :
       Carries(reqs, re.reads[i]) /\ re.reads[i].op = "read"

\* The mutations a command comes after, and the last one a batch brings: while
\* the image lives, the former are issued or in an earlier batch of the queue.
Needs(r, c) ==
  IF c.op = "append" THEN r[c.ids[1]].boundary - 1
  ELSE IF c.op = "flush" THEN c.boundary ELSE 0
Brings(r, c) == r[c.ids[1]].boundary + Len(c.ids) - 1
Supports(r, s, k, b) ==
  \E j \in DOMAIN s : j < k /\ s[j].op = "append" /\ b <= Brings(r, s[j])
InCommands(r, n, C, k, b) == b <= n \/ Supports(r, C, k, b)
InMailbox(r, n, C, M, k, b) ==
  InCommands(r, n, C, Len(C) + 1, b) \/ Supports(r, M, k, b)
InOrder(r, n, C, M, K, a) ==
  /\ \A k \in DOMAIN C : InCommands(r, n, C, k, Needs(r, C[k]))
  /\ \A k \in DOMAIN M : InMailbox(r, n, C, M, k, Needs(r, M[k]))
  /\ InMailbox(r, n, C, M, Len(M) + 1,
               IF K = <<>> THEN a ELSE r[K[1]].boundary - 1)
  /\ K # <<>> => a = r[K[1]].boundary + Len(K) - 1
Live == ~re.failed /\ re.pc # "gone"
Supported ==
  Live => InOrder(reqs, log.issued, re.commands, mailbox, front.packing,
                  front.admitted)

\* What completing an owner would tell the guest is true once its "last" is
\* published, or synced for a fence.
Truthful(r, w, failed, published) ==
  \A i \in ToSet(w.ids) :
    /\ w.op = "append" => /\ r[i].kind \in {"write", "zero"}
                          /\ failed \/ r[i].boundary <= w.last
    /\ w.op = "fence" => /\ r[i].kind = "flush"
                         /\ failed \/ r[i].boundary <= w.last
    /\ w.op = "read" => r[i].kind = "read" /\ r[i].boundary <= published
PendingTrue ==
  \A t \in DOMAIN re.pending :
    Truthful(reqs, re.pending[t], re.failed, log.published)

\* The appends are published in the order they were issued, and the one fence
\* pending is the log's cohort.
Ascending(l, p, a) ==
  /\ \A i \in DOMAIN a : l.published <= p[a[i]].last /\ p[a[i]].last <= l.issued
  /\ \A i, j \in DOMAIN a : i < j => p[a[i]].last <= p[a[j]].last
OneFence(l, p) ==
  \A t \in DOMAIN p : p[t].op = "fence" =>
    /\ l.cohort = p[t].last /\ l.durable <= p[t].last /\ p[t].last <= l.issued
    /\ \A u \in DOMAIN p : p[u].op = "fence" => u = t
Frontier ==
  /\ log.published <= log.issued /\ log.durable <= log.issued
  /\ ~re.failed => Ascending(log, re.pending, re.appends)
  /\ OneFence(log, re.pending)
CohortOwned ==
  re.pc \notin {"stop", "close", "drop", "gone"} /\ re.cohort # 0 =>
    re.cohort \in DOMAIN re.pending /\ re.pending[re.cohort].op = "fence"

\* At most one barrier is under way, and the batch is empty while it is.
IsBarrier(c) == c.op \in {"pause", "attach"}
Barriers(M, C) ==
  /\ \A i \in DOMAIN M : IsBarrier(M[i]) =>
       /\ \A j \in DOMAIN M : IsBarrier(M[j]) => i = j
       /\ \A j \in DOMAIN C : ~IsBarrier(C[j])
  /\ \A i, j \in DOMAIN C : IsBarrier(C[i]) /\ IsBarrier(C[j]) => i = j
NoBarriers(M, C) ==
  /\ \A i \in DOMAIN M : ~IsBarrier(M[i])
  /\ \A i \in DOMAIN C : ~IsBarrier(C[i])
OneBarrier ==
  /\ front.barrier # "none" => front.packing = <<>>
  /\ front.barrier = "none" => NoBarriers(mailbox, re.commands)
  /\ Barriers(mailbox, re.commands)

AnswersInv ==
  /\ OwnedOnce /\ OwnedUnanswered /\ Fresh /\ Carried /\ Supported /\ PendingTrue
  /\ Frontier /\ CohortOwned /\ OneBarrier /\ AnswersHonest

-----------------------------------------------------------------------------
(* Dispatched commands                                                     *)

\* The command at the head leaves the queue.
Pops ==
  /\ re.commands # <<>> /\ re'.commands = Tail(re.commands)
  /\ re'.reads = re.reads /\ re'.pending = re.pending
  /\ re'.appends = re.appends /\ re'.bulk = re.bulk /\ re'.cohort = re.cohort
  /\ re'.failed = re.failed /\ re.pc = "dispatch"
  /\ re'.pc \in {"dispatch", "reads", "reject", "stop"}
  /\ re'.pc = "reject" => re.failed
  /\ UNCHANGED <<reqs, mailbox, kernel, cqes, health, log>>

\* A phase of the loop starts a fence nobody waits for.
Phase(q) ==
  /\ Same(re, q) /\ q.pc \in {"submit", "reads", "reject"}
  /\ q.pc = "reject" => re.failed
FencesAlone ==
  /\ re.pc \in {"dispatch", "reads"}
  /\ UNCHANGED <<front, reqs, mailbox, cqes>>
  /\ \E q \in ReactorT : Phase(q) /\ FenceOutcome(q, <<>>)

LEMMA FenceType ==
  ASSUME TypeOK, re' \in ReactorT, log' \in LogT, port' \in PortT,
         NEW q \in ReactorT, q.pending = re.pending, NEW waiters,
         FenceOutcome(q, waiters), UNCHANGED <<front, reqs, mailbox, cqes>>
  PROVE  TypeOK'
<1>1. kernel \subseteq Nat /\ health \in BOOLEAN
      /\ answer \in [Ids -> Seq({"ok", "err"})]
  BY DEF TypeOK
<1>2. /\ kernel' \subseteq Nat /\ health' \in BOOLEAN
      /\ answer' \in [Ids -> Seq({"ok", "err"})]
  <2> DEFINE w == Work("fence", waiters, log.issued)
  <2>1. CASE UNCHANGED <<answer, health, kernel>>
    BY <1>1, <2>1
  <2>2. CASE NotOwned(q, w)
    BY <1>1, <2>2, AnswerType DEF NotOwned
  <2>3. CASE \E t \in Nat \ {0} : OwnedAs(q, w, t)
    BY <1>1, <2>3 DEF OwnedAs
  <2> QED BY <2>1, <2>2, <2>3 DEF FenceOutcome, StoppedFence
<1> QED BY <1>2 DEF TypeOK

LEMMA FenceAloneIs ==
  ASSUME TypeOK, NEW q \in ReactorT, Phase(q), re.pc \in {"dispatch", "reads"},
         StartFence(q, <<>>), UNCHANGED <<front, reqs, mailbox, cqes>>
  PROVE  TypeOK' /\ FencesAlone
<1>1. q.pending = re.pending
  BY DEF Phase, Same
<1>2. <<>> \in Seq(Nat) /\ \A i \in DOMAIN <<>> : <<>>[i] \in DOMAIN reqs
  OBVIOUS
<1>3. re' \in ReactorT /\ log' \in LogT /\ port' \in PortT /\ FenceOutcome(q, <<>>)
  BY <1>1, <1>2, StartFenceIs
<1> QED BY <1>1, <1>3, FenceType DEF FencesAlone

LEMMA QuiescingIs ==
  ASSUME TypeOK, Quiescing
  PROVE  TypeOK' /\ (Steady \/ FencesAlone)
<1>0. re \in ReactorT /\ port \in PortT /\ re.pc = "dispatch"
      /\ UNCHANGED <<front, reqs, mailbox, cqes>>
  BY DEF TypeOK, Quiescing, At
<1>1. \/ /\ re' = ToSubmit(re, port) /\ UNCHANGED <<answer, health, kernel, log>>
         /\ port' = port \/ port' = [port EXCEPT !.quiescence = "acked"]
      \/ StartFence([re EXCEPT !.pc = "submit"], <<>>)
  BY DEF Quiescing
<1>2. CASE /\ re' = ToSubmit(re, port) /\ UNCHANGED <<answer, health, kernel, log>>
           /\ port' = port \/ port' = [port EXCEPT !.quiescence = "acked"]
  <2>1. re' \in ReactorT /\ Same(re, re') /\ re'.pc \in {"wait", "submit", "gone"}
    BY <1>0, <1>2, ToSubmitIs
  <2>2. port' \in PortT
    BY <1>0, <1>2 DEF PortT
  <2>3. TypeOK'
    BY <1>0, <1>2, <2>1, <2>2 DEF TypeOK
  <2> QED BY <1>0, <1>2, <2>1, <2>3 DEF Steady
<1>3. CASE StartFence([re EXCEPT !.pc = "submit"], <<>>)
  <2> DEFINE q == [re EXCEPT !.pc = "submit"]
  <2>1. q \in ReactorT /\ Phase(q)
    BY <1>0 DEF ReactorT, Phase, Same, Phases
  <2> QED BY <1>0, <1>3, <2>1, FenceAloneIs
<1> QED BY <1>1, <1>2, <1>3

LEMMA DispatchTailIs ==
  ASSUME TypeOK, DispatchTail
  PROVE  TypeOK' /\ (Steady \/ FencesAlone)
<1>0. re \in ReactorT /\ port \in PortT /\ re.pc = "reads"
      /\ UNCHANGED <<front, reqs, mailbox, cqes>>
  BY DEF TypeOK, DispatchTail, At
<1> DEFINE q == [re EXCEPT !.pc = "submit"]
<1>1. \/ /\ re' = ToSubmit(re, port) /\ UNCHANGED <<answer, health, kernel, log, port>>
      \/ /\ re' = q /\ UNCHANGED <<answer, health, kernel, log>>
         /\ port' = Rotating(port, "roll")
      \/ StartFence(q, <<>>)
  BY DEF DispatchTail
<1>2. q \in ReactorT /\ Phase(q) /\ q.pc = "submit"
  BY <1>0 DEF ReactorT, Phase, Same, Phases
<1> HIDE DEF q
<1>3. CASE re' = ToSubmit(re, port) /\ UNCHANGED <<answer, health, kernel, log, port>>
  <2>1. re' \in ReactorT /\ Same(re, re') /\ re'.pc \in {"wait", "submit", "gone"}
    BY <1>0, <1>3, ToSubmitIs
  <2>2. TypeOK'
    BY <1>0, <1>3, <2>1 DEF TypeOK
  <2> QED BY <1>0, <1>3, <2>1, <2>2 DEF Steady
<1>4. CASE /\ re' = q /\ UNCHANGED <<answer, health, kernel, log>>
           /\ port' = Rotating(port, "roll")
  <2>1. port' \in PortT
    BY <1>0, <1>4, RotatingType
  <2>2. TypeOK'
    BY <1>0, <1>2, <1>4, <2>1 DEF TypeOK
  <2> QED BY <1>0, <1>2, <1>4, <2>2 DEF Steady, Phase
<1>5. CASE StartFence(q, <<>>)
  BY <1>0, <1>2, <1>5, FenceAloneIs
<1> QED BY <1>1, <1>3, <1>4, <1>5

\* A FLUSH that joins the open cohort.
Joins ==
  /\ re.commands # <<>> /\ re'.commands = Tail(re.commands)
  /\ re.cohort # 0 /\ Head(re.commands).boundary <= re.pending[re.cohort].last
  /\ re'.pending = [re.pending EXCEPT ![re.cohort].ids = @ \o Head(re.commands).ids]
  /\ re'.reads = re.reads /\ re'.appends = re.appends /\ re'.bulk = re.bulk
  /\ re'.cohort = re.cohort /\ re'.failed = re.failed
  /\ re.pc = "dispatch" /\ re'.pc = "dispatch"
  /\ UNCHANGED <<answer, front, reqs, mailbox, kernel, cqes, health, log>>

LEMMA HeadType ==
  ASSUME TypeOK, re.commands # <<>>
  PROVE  /\ re.commands \in Seq(CommandT) /\ Head(re.commands) \in CommandT
         /\ Head(re.commands) = re.commands[1] /\ 1 \in DOMAIN re.commands
         /\ Head(re.commands).ids \in Seq(Nat)
         /\ Head(re.commands).boundary \in Nat
<1>1. re.commands \in Seq(CommandT)
  BY DEF TypeOK, ReactorT
<1>2. /\ Head(re.commands) \in CommandT
      /\ Head(re.commands) = re.commands[1] /\ 1 \in DOMAIN re.commands
  BY <1>1
<1> QED BY <1>1, <1>2 DEF CommandT

\* The waiters of a command are requests.
LEMMA HeadIds ==
  ASSUME TypeOK, OwnedUnanswered, re.commands # <<>>
  PROVE  /\ \A i \in DOMAIN Head(re.commands).ids :
              Head(re.commands).ids[i] \in DOMAIN reqs
         /\ ToSet(Head(re.commands).ids) \subseteq IdsOf(re.commands)
<1>1. Head(re.commands) = re.commands[1] /\ 1 \in DOMAIN re.commands
  BY HeadType
<1>2. ToSet(Head(re.commands).ids) \subseteq IdsOf(re.commands)
  BY <1>1 DEF IdsOf
<1>3. IdsOf(re.commands) \subseteq DOMAIN reqs
  BY DEF OwnedUnanswered, Unanswered
<1> QED BY <1>2, <1>3 DEF ToSet

LEMMA DispatchFlushIs ==
  ASSUME TypeOK, OwnedUnanswered, CohortOwned, DispatchFlush
  PROVE  /\ TypeOK'
         /\ re.commands # <<>> /\ Head(re.commands).op = "flush"
         /\ \/ Steady
            \/ /\ Pops /\ front' = front
               /\ answer' = Answer(answer, ToSet(Head(re.commands).ids), "ok")
               /\ log.durable >= Head(re.commands).boundary
            \/ Joins
            \/ /\ FenceOutcome(Popped, Head(re.commands).ids)
               /\ re.pc = "dispatch" /\ UNCHANGED <<front, reqs, mailbox, cqes>>
<1> DEFINE c == Head(re.commands)
<1>0. re \in ReactorT /\ re.pc = "dispatch" /\ re.commands # <<>> /\ c.op = "flush"
      /\ UNCHANGED <<front, reqs, mailbox, cqes>>
  BY DEF TypeOK, DispatchFlush, Dispatching, At
<1>1. c.ids \in Seq(Nat) /\ \A i \in DOMAIN c.ids : c.ids[i] \in DOMAIN reqs
  BY <1>0, HeadType, HeadIds
<1>2. \/ /\ log.durable >= c.boundary
         /\ re' = Popped /\ answer' = Answer(answer, ToSet(c.ids), "ok")
         /\ UNCHANGED <<health, kernel, log, port>>
      \/ /\ re' = Break(re) \/ re' = Stopping(re)
         /\ UNCHANGED <<answer, health, kernel, log, port>>
      \/ /\ re.cohort # 0 /\ c.boundary <= re.pending[re.cohort].last
         /\ re' = [Popped EXCEPT !.pending[re.cohort].ids = @ \o c.ids]
         /\ UNCHANGED <<answer, health, kernel, log, port>>
      \/ StartFence(Popped, c.ids)
  BY DEF DispatchFlush, CoversFlush
<1>3. /\ Popped \in ReactorT /\ Popped.commands = Tail(re.commands)
      /\ Popped.reads = re.reads /\ Popped.pending = re.pending
      /\ Popped.appends = re.appends /\ Popped.bulk = re.bulk
      /\ Popped.cohort = re.cohort /\ Popped.failed = re.failed
      /\ Popped.pc = re.pc
  BY <1>0, PoppedIs
<1> HIDE DEF c
<1>4. CASE /\ log.durable >= c.boundary
           /\ re' = Popped /\ answer' = Answer(answer, ToSet(c.ids), "ok")
           /\ UNCHANGED <<health, kernel, log, port>>
  <2>1. TypeOK'
    BY <1>0, <1>3, <1>4, AnswerType DEF TypeOK
  <2>2. Pops
    BY <1>0, <1>3, <1>4 DEF Pops
  <2> QED BY <1>0, <1>4, <2>1, <2>2 DEF c
<1>5. CASE /\ re' = Break(re) \/ re' = Stopping(re)
           /\ UNCHANGED <<answer, health, kernel, log, port>>
  <2>1. re' \in ReactorT /\ Same(re, re') /\ re'.pc \in {"reads", "reject", "stop"}
        /\ (re'.pc = "reject" => re.failed)
    BY <1>0, <1>5, BreakIs, StoppingIs
  <2>2. TypeOK'
    BY <1>0, <1>5, <2>1 DEF TypeOK
  <2>3. Steady
    BY <1>0, <1>5, <2>1 DEF Steady
  <2> QED BY <1>0, <2>2, <2>3 DEF c
<1>6. CASE /\ re.cohort # 0 /\ c.boundary <= re.pending[re.cohort].last
           /\ re' = [Popped EXCEPT !.pending[re.cohort].ids = @ \o c.ids]
           /\ UNCHANGED <<answer, health, kernel, log, port>>
  <2> DEFINE p == [re.pending EXCEPT ![re.cohort].ids = @ \o c.ids]
  <2>1. re.pending \in PendingT /\ re.cohort \in DOMAIN re.pending
    BY <1>0, <1>6 DEF ReactorT, CohortOwned
  <2>2. re.pending[re.cohort] \in WorkT /\ re.pending[re.cohort].ids \in Seq(Nat)
    BY <2>1, PendingElem DEF WorkT
  <2>3. re.pending[re.cohort].ids \o c.ids \in Seq(Nat)
    BY <1>1, <2>2
  <2>4. [re.pending[re.cohort] EXCEPT !.ids = @ \o c.ids] \in WorkT
    BY <2>2, <2>3 DEF WorkT
  <2>5. p = [re.pending EXCEPT ![re.cohort] =
               [re.pending[re.cohort] EXCEPT !.ids = @ \o c.ids]]
    OBVIOUS
  <2>6. p \in [DOMAIN re.pending -> WorkT] /\ DOMAIN re.pending \in SUBSET (Nat \ {0})
    BY <2>1, <2>4, <2>5, PendingElem
  <2>7. p \in PendingT
    BY <2>6, PendingIntro
  <2>8. re' = [Popped EXCEPT !.pending = p]
    BY <1>3, <1>6
  <2> HIDE DEF p
  <2>9. /\ re' \in ReactorT /\ re'.commands = Popped.commands
        /\ re'.reads = Popped.reads /\ re'.pending = p
        /\ re'.appends = Popped.appends /\ re'.bulk = Popped.bulk
        /\ re'.cohort = Popped.cohort /\ re'.failed = Popped.failed
        /\ re'.pc = Popped.pc
    BY <1>3, <2>7, <2>8 DEF ReactorT
  <2>10. TypeOK'
    BY <1>0, <1>6, <2>9 DEF TypeOK
  <2>11. Joins
    BY <1>0, <1>3, <1>6, <2>9 DEF Joins, p, c
  <2> QED BY <1>0, <2>10, <2>11 DEF c
<1>7. CASE StartFence(Popped, c.ids)
  <2>1. re' \in ReactorT /\ log' \in LogT /\ port' \in PortT
        /\ FenceOutcome(Popped, c.ids)
    BY <1>1, <1>3, <1>7, StartFenceIs
  <2>2. TypeOK'
    BY <1>0, <1>3, <2>1, FenceType
  <2> QED BY <1>0, <2>1, <2>2 DEF c
<1> QED BY <1>2, <1>4, <1>5, <1>6, <1>7

\* A batch handed to the kernel path.
AppendWork ==
  Work("append", Head(re.commands).ids, log.issued + Len(Head(re.commands).ids))
Issues ==
  /\ re.commands # <<>> /\ Head(re.commands).op = "append"
  /\ log'.issued = log.issued + Len(Head(re.commands).ids)
  /\ log'.published = log.published /\ log'.durable = log.durable
  /\ log'.cohort = log.cohort /\ re.pc = "dispatch"
  /\ UNCHANGED <<front, reqs, mailbox, cqes>>
  /\ NotOwned(Popped, AppendWork) \/ \E t \in Nat \ {0} : OwnedAs(Popped, AppendWork, t)

LEMMA DispatchAppendIs ==
  ASSUME TypeOK, DispatchAppend
  PROVE  TypeOK' /\ (Steady \/ Issues)
<1> DEFINE c == Head(re.commands)
           n == Len(c.ids)
<1>0. re \in ReactorT /\ re.pc = "dispatch" /\ re.commands # <<>> /\ c.op = "append"
      /\ UNCHANGED <<front, reqs, mailbox, port, cqes>> /\ log \in LogT
  BY DEF TypeOK, DispatchAppend, Dispatching, At
<1>1. c.ids \in Seq(Nat) /\ n \in Nat /\ BatchBlocks(ToSet(c.ids)) \in Nat
  BY <1>0, HeadType, BatchBlocksNat
<1>2. \/ /\ re' = Break(re) \/ re' = Stopping(re)
         /\ UNCHANGED <<answer, health, kernel, log>>
      \/ /\ log' = [log EXCEPT !.issued = @ + n,
                               !.end = @ + BatchBlocks(ToSet(c.ids))]
         /\ Own(Popped, Work("append", c.ids,
                  [log EXCEPT !.issued = @ + n,
                              !.end = @ + BatchBlocks(ToSet(c.ids))].issued))
  BY DEF DispatchAppend
<1>3. CASE /\ re' = Break(re) \/ re' = Stopping(re)
           /\ UNCHANGED <<answer, health, kernel, log>>
  <2>1. re' \in ReactorT /\ Same(re, re') /\ re'.pc \in {"reads", "reject", "stop"}
        /\ (re'.pc = "reject" => re.failed)
    BY <1>0, <1>3, BreakIs, StoppingIs
  <2>2. TypeOK'
    BY <1>0, <1>3, <2>1 DEF TypeOK
  <2>3. Steady
    BY <1>0, <1>3, <2>1 DEF Steady
  <2> QED BY <2>2, <2>3
<1>4. CASE /\ log' = [log EXCEPT !.issued = @ + n,
                                 !.end = @ + BatchBlocks(ToSet(c.ids))]
           /\ Own(Popped, Work("append", c.ids,
                    [log EXCEPT !.issued = @ + n,
                                !.end = @ + BatchBlocks(ToSet(c.ids))].issued))
  <2> DEFINE m == log.issued + n
             e == log.end + BatchBlocks(ToSet(c.ids))
  <2>1. m \in Nat /\ e \in Nat
    <3>1. log.issued \in Nat /\ log.end \in Nat
      BY <1>0 DEF LogT
    <3> HIDE DEF n, c
    <3> QED BY <1>1, <3>1
  <2>2. log' = [log EXCEPT !.issued = m, !.end = e]
    BY <1>4
  <2>3. [log EXCEPT !.issued = @ + n,
                    !.end = @ + BatchBlocks(ToSet(c.ids))].issued = m
    BY <1>0 DEF LogT
  <2>4. Own(Popped, Work("append", c.ids, m))
    BY <1>4, <2>3
  <2> HIDE DEF m, e, n, c
  <2>5. /\ log' \in LogT /\ log'.issued = m /\ log'.published = log.published
        /\ log'.durable = log.durable /\ log'.cohort = log.cohort
    BY <1>0, <2>1, <2>2 DEF LogT
  <2>6. Work("append", c.ids, m) \in WorkT
    BY <1>1, <2>1 DEF Work, WorkT
  <2>7. Popped \in ReactorT /\ Popped.pending = re.pending
    BY <1>0, PoppedIs
  <2>8. /\ re' \in ReactorT
        /\ \/ NotOwned(Popped, Work("append", c.ids, m))
           \/ \E t \in Nat \ {0} : OwnedAs(Popped, Work("append", c.ids, m), t)
    BY <2>4, <2>6, <2>7, OwnIs
  <2>9. Work("append", c.ids, m) = AppendWork
    BY DEF AppendWork, m, n, c
  <2>10. Issues
    BY <1>0, <2>5, <2>8, <2>9 DEF Issues, m, n, c
  <2>11. kernel' \subseteq Nat /\ health' \in BOOLEAN
         /\ answer' \in [Ids -> Seq({"ok", "err"})]
    <3>1. kernel \subseteq Nat /\ health \in BOOLEAN
          /\ answer \in [Ids -> Seq({"ok", "err"})]
      BY DEF TypeOK
    <3>2. CASE NotOwned(Popped, Work("append", c.ids, m))
      BY <3>1, <3>2, AnswerType DEF NotOwned
    <3>3. CASE \E t \in Nat \ {0} : OwnedAs(Popped, Work("append", c.ids, m), t)
      BY <3>1, <3>3 DEF OwnedAs
    <3> QED BY <2>8, <3>2, <3>3
  <2>12. TypeOK'
    BY <1>0, <2>5, <2>8, <2>11 DEF TypeOK
  <2> QED BY <2>10, <2>12
<1> QED BY <1>2, <1>3, <1>4

\* A barrier's command is answered: the frontend's ordinals stay, or restart
\* at the published prefix.
Passes ==
  /\ Pops /\ Head(re.commands).op \in {"pause", "attach"} /\ answer' = answer
  /\ front'.packing = front.packing
  /\ front'.admitted \in {front.admitted, log.published}

LEMMA HeldIs ==
  ASSUME TypeOK, re.commands # <<>>
  PROVE  /\ [Popped EXCEPT !.held = TRUE] \in ReactorT
         /\ [Popped EXCEPT !.held = FALSE] \in ReactorT
         /\ Same(Popped, [Popped EXCEPT !.held = TRUE])
         /\ Same(Popped, [Popped EXCEPT !.held = FALSE])
         /\ [Popped EXCEPT !.held = FALSE].pc = re.pc
<1>1. Popped \in ReactorT /\ Popped.pc = re.pc
  BY PoppedIs DEF TypeOK
<1> QED BY <1>1 DEF ReactorT, Same

LEMMA PopsIntro ==
  ASSUME TypeOK, re.commands # <<>>, re.pc = "dispatch", Same(Popped, re'),
         re'.pc \in {"dispatch", "reads", "reject", "stop"},
         re'.pc = "reject" => re.failed,
         UNCHANGED <<reqs, mailbox, kernel, cqes, health, log>>
  PROVE  Pops
<1>1. re \in ReactorT
  BY DEF TypeOK
<1> QED BY <1>1, PoppedIs DEF Pops, Same

LEMMA DispatchPauseIs ==
  ASSUME TypeOK, DispatchPause
  PROVE  TypeOK' /\ (Steady \/ Passes)
<1>0. re \in ReactorT /\ port \in PortT /\ front \in FrontT /\ health \in BOOLEAN
      /\ re.pc = "dispatch" /\ re.commands # <<>> /\ Head(re.commands).op = "pause"
      /\ UNCHANGED <<reqs, answer, mailbox, log, health, kernel, cqes>>
      /\ port' = CancelRollover(port)
  BY DEF TypeOK, DispatchPause, Dispatching, At
<1>1. port' \in PortT
  BY <1>0 DEF CancelRollover, PortT
<1> DEFINE q == [Popped EXCEPT !.held = TRUE]
<1>2. \/ re' = Break(re) /\ UNCHANGED front
      \/ re' = Stopping(q) /\ UNCHANGED front
      \/ /\ re' = Break(q)
         /\ front' = [front EXCEPT !.barrier = IF health THEN "failed" ELSE "none",
                                   !.paused = ~health]
  BY DEF DispatchPause
<1>3. q \in ReactorT /\ Same(Popped, q) /\ q.failed = re.failed
  <2>1. q \in ReactorT /\ Same(Popped, q) /\ Popped.failed = re.failed
    BY <1>0, HeldIs, PoppedIs
  <2> HIDE DEF q
  <2> QED BY <2>1 DEF Same
<1> HIDE DEF q
<1>4. CASE re' = Break(re) /\ UNCHANGED front
  <2>1. re' \in ReactorT /\ Same(re, re') /\ re'.pc \in {"reads", "reject"}
        /\ (re'.pc = "reject" => re.failed)
    BY <1>0, <1>4, BreakIs
  <2>2. TypeOK'
    BY <1>0, <1>1, <1>4, <2>1 DEF TypeOK
  <2>3. Steady
    BY <1>0, <1>4, <2>1 DEF Steady
  <2> QED BY <2>2, <2>3
<1>5. CASE re' = Stopping(q) /\ UNCHANGED front
  <2>1. re' \in ReactorT /\ Same(q, re') /\ re'.pc = "stop"
    BY <1>3, <1>5, StoppingIs
  <2>2. Same(Popped, re')
    BY <1>3, <2>1 DEF Same
  <2>3. Pops
    BY <1>0, <2>1, <2>2, PopsIntro
  <2>4. TypeOK'
    BY <1>0, <1>1, <1>5, <2>1 DEF TypeOK
  <2> QED BY <1>0, <1>5, <2>3, <2>4 DEF Passes
<1>6. CASE /\ re' = Break(q)
           /\ front' = [front EXCEPT !.barrier = IF health THEN "failed" ELSE "none",
                                     !.paused = ~health]
  <2>1. re' \in ReactorT /\ Same(q, re') /\ re'.pc \in {"reads", "reject"}
        /\ (re'.pc = "reject" => re.failed)
    BY <1>3, <1>6, BreakIs
  <2>2. Same(Popped, re')
    BY <1>3, <2>1 DEF Same
  <2>3. Pops
    BY <1>0, <2>1, <2>2, PopsIntro
  <2>4. (~health) \in BOOLEAN
    OBVIOUS
  <2>5. front' \in FrontT /\ front'.packing = front.packing
        /\ front'.admitted = front.admitted
    BY <1>0, <1>6, <2>4 DEF FrontT
  <2>6. TypeOK'
    BY <1>0, <1>1, <2>1, <2>5 DEF TypeOK
  <2> QED BY <1>0, <2>3, <2>5, <2>6 DEF Passes
<1> QED BY <1>2, <1>4, <1>5, <1>6

LEMMA DispatchResumeIs ==
  ASSUME TypeOK, DispatchResume
  PROVE  /\ TypeOK'
         /\ Steady \/ (Pops /\ Head(re.commands).op = "resume"
                            /\ UNCHANGED <<front, answer>>)
<1>0. re \in ReactorT /\ re.pc = "dispatch" /\ re.commands # <<>>
      /\ Head(re.commands).op = "resume"
      /\ UNCHANGED <<front, reqs, answer, mailbox, log, port, health, kernel, cqes>>
  BY DEF TypeOK, DispatchResume, Dispatching, At
<1>1. re' = Break(re) \/ re' = [Popped EXCEPT !.held = FALSE]
  BY DEF DispatchResume
<1>2. CASE re' = Break(re)
  <2>1. re' \in ReactorT /\ Same(re, re') /\ re'.pc \in {"reads", "reject"}
        /\ (re'.pc = "reject" => re.failed)
    BY <1>0, <1>2, BreakIs
  <2>2. TypeOK'
    BY <1>0, <2>1 DEF TypeOK
  <2>3. Steady
    BY <1>0, <2>1 DEF Steady
  <2> QED BY <2>2, <2>3
<1>3. CASE re' = [Popped EXCEPT !.held = FALSE]
  <2>1. re' \in ReactorT /\ Same(Popped, re') /\ re'.pc = "dispatch"
    BY <1>0, <1>3, HeldIs
  <2>2. Pops
    BY <1>0, <2>1, PopsIntro
  <2>3. TypeOK'
    BY <1>0, <2>1 DEF TypeOK
  <2> QED BY <1>0, <2>2, <2>3
<1> QED BY <1>1, <1>2, <1>3

\* An attachment's command has asked for its rotation.
Marks ==
  /\ re.commands # <<>> /\ Head(re.commands).op = "attach"
  /\ re'.commands = [re.commands EXCEPT ![1] = [re.commands[1] EXCEPT !.rotated = TRUE]]
  /\ re'.reads = re.reads /\ re'.pending = re.pending
  /\ re'.appends = re.appends /\ re'.bulk = re.bulk /\ re'.cohort = re.cohort
  /\ re'.failed = re.failed /\ re.pc = "dispatch"
  /\ re'.pc \in {"reads", "reject"} /\ (re'.pc = "reject" => re.failed)
  /\ UNCHANGED <<front, reqs, answer, mailbox, kernel, cqes, health, log>>

LEMMA DispatchAttachIs ==
  ASSUME TypeOK, DispatchAttach
  PROVE  TypeOK' /\ (Steady \/ FencesAlone \/ Marks \/ Passes)
<1>0. re \in ReactorT /\ port \in PortT /\ front \in FrontT /\ log \in LogT
      /\ re.pc = "dispatch" /\ re.commands # <<>> /\ Head(re.commands).op = "attach"
      /\ UNCHANGED <<reqs, mailbox, cqes>>
  BY DEF TypeOK, DispatchAttach, Dispatching, At
<1>1. \/ /\ re' = Break(re) \/ re' = Stopping(re)
         /\ UNCHANGED <<front, answer, health, kernel, log, port>>
      \/ StartFence(Break(re), <<>>) /\ UNCHANGED front
      \/ /\ re' = [Break(re) EXCEPT !.commands[1].rotated = TRUE]
         /\ port' = Rotating(port, "fresh")
         /\ UNCHANGED <<front, answer, health, kernel, log>>
      \/ /\ re' = Stopping(Popped)
         /\ UNCHANGED <<front, answer, health, kernel, log, port>>
      \/ /\ re' = Popped
         /\ front' = [front EXCEPT
              !.barrier = IF health THEN "failed" ELSE "none",
              !.admitted = IF health THEN @ ELSE log.published]
         /\ UNCHANGED <<answer, health, kernel, log, port>>
  BY DEF DispatchAttach
<1>2. /\ Break(re) \in ReactorT /\ Same(re, Break(re))
      /\ Break(re).pc \in {"reads", "reject"} /\ (Break(re).pc = "reject" => re.failed)
  BY <1>0, BreakIs
<1>3. CASE /\ re' = Break(re) \/ re' = Stopping(re)
           /\ UNCHANGED <<front, answer, health, kernel, log, port>>
  <2>1. re' \in ReactorT /\ Same(re, re') /\ re'.pc \in {"reads", "reject", "stop"}
        /\ (re'.pc = "reject" => re.failed)
    BY <1>0, <1>2, <1>3, StoppingIs
  <2>2. TypeOK'
    BY <1>0, <1>3, <2>1 DEF TypeOK
  <2>3. Steady
    BY <1>0, <1>3, <2>1 DEF Steady
  <2> QED BY <2>2, <2>3
<1>4. CASE StartFence(Break(re), <<>>) /\ UNCHANGED front
  <2>1. Phase(Break(re))
    BY <1>2 DEF Phase
  <2> QED BY <1>0, <1>2, <1>4, <2>1, FenceAloneIs
<1>5. CASE /\ re' = [Break(re) EXCEPT !.commands[1].rotated = TRUE]
           /\ port' = Rotating(port, "fresh")
           /\ UNCHANGED <<front, answer, health, kernel, log>>
  <2> DEFINE b == Break(re)
             cs == [re.commands EXCEPT ![1] = [re.commands[1] EXCEPT !.rotated = TRUE]]
  <2>1. b.commands = re.commands
    BY <1>2 DEF Same
  <2>2. re.commands \in Seq(CommandT) /\ re.commands[1] \in CommandT
        /\ 1 \in DOMAIN re.commands
    BY <1>0, HeadType
  <2>3. [re.commands[1] EXCEPT !.rotated = TRUE] \in CommandT
    BY <2>2 DEF CommandT
  <2>4. cs \in Seq(CommandT)
    BY <2>2, <2>3, ExceptSeq
  <2>5. re' = [b EXCEPT !.commands = cs]
    BY <1>5, <2>1
  <2>6. b \in ReactorT /\ Same(re, b) /\ b.pc \in {"reads", "reject"}
        /\ (b.pc = "reject" => re.failed)
    BY <1>2
  <2> HIDE DEF b, cs
  <2>7. /\ re' \in ReactorT /\ re'.commands = cs /\ re'.reads = b.reads
        /\ re'.pending = b.pending /\ re'.appends = b.appends
        /\ re'.bulk = b.bulk /\ re'.cohort = b.cohort
        /\ re'.failed = b.failed /\ re'.pc = b.pc
    BY <2>4, <2>5, <2>6 DEF ReactorT
  <2>8. Marks
    BY <1>0, <1>5, <2>6, <2>7 DEF Marks, Same, cs
  <2>9. port' \in PortT
    BY <1>0, <1>5, RotatingType
  <2>10. TypeOK'
    BY <1>0, <1>5, <2>7, <2>9 DEF TypeOK
  <2> QED BY <2>8, <2>10
<1>6. CASE /\ re' = Stopping(Popped)
           /\ UNCHANGED <<front, answer, health, kernel, log, port>>
  <2>1. re' \in ReactorT /\ Same(Popped, re') /\ re'.pc = "stop"
    BY <1>0, <1>6, PoppedIs, StoppingIs
  <2>2. Pops
    BY <1>0, <1>6, <2>1, PopsIntro
  <2>3. TypeOK'
    BY <1>0, <1>6, <2>1 DEF TypeOK
  <2> QED BY <1>0, <1>6, <2>2, <2>3 DEF Passes
<1>7. CASE /\ re' = Popped
           /\ front' = [front EXCEPT
                !.barrier = IF health THEN "failed" ELSE "none",
                !.admitted = IF health THEN @ ELSE log.published]
           /\ UNCHANGED <<answer, health, kernel, log, port>>
  <2>1. re' \in ReactorT /\ re'.pc = "dispatch"
    BY <1>0, <1>7, PoppedIs
  <2>2. Same(Popped, re')
    BY <1>7 DEF Same
  <2>3. Pops
    BY <1>0, <1>7, <2>1, <2>2, PopsIntro
  <2> DEFINE a == IF health THEN front.admitted ELSE log.published
             x == IF health THEN "failed" ELSE "none"
  <2>4. a \in Nat /\ a \in {front.admitted, log.published} /\ x \in {"failed", "none"}
    BY <1>0 DEF FrontT, LogT
  <2>5. front' = [front EXCEPT !.barrier = x, !.admitted = a]
    BY <1>7
  <2> HIDE DEF a, x
  <2>6. front' \in FrontT /\ front'.packing = front.packing /\ front'.admitted = a
    BY <1>0, <2>4, <2>5 DEF FrontT
  <2>7. TypeOK'
    BY <1>0, <1>7, <2>1, <2>6 DEF TypeOK
  <2> QED BY <1>0, <1>7, <2>3, <2>4, <2>6, <2>7 DEF Passes
<1> QED BY <1>1, <1>3, <1>4, <1>5, <1>6, <1>7

-----------------------------------------------------------------------------
(* Reads, submission and the end of the loop                               *)

RestOf == [re EXCEPT !.reads = Tail(@)]

\* A READ leaves the queue once its boundary is published: answered, failed,
\* or owned.
Reads ==
  /\ re.reads # <<>> /\ ~re.failed /\ Head(re.reads).boundary <= log.published
  /\ re.pc = "reads" /\ UNCHANGED <<front, reqs, mailbox, log, cqes>>
  /\ \/ /\ Same(RestOf, re') /\ re'.pc = "reads"
        /\ answer' = Answer(answer, ToSet(Head(re.reads).ids), "ok")
        /\ UNCHANGED <<health, kernel>>
     \/ /\ re'.reads = RestOf.reads /\ re'.commands = re.commands
        /\ re'.pending = re.pending /\ re'.bulk = re.bulk
        /\ re'.cohort = re.cohort /\ re'.failed /\ re'.appends = <<>>
        /\ re'.pc = "reject" /\ health' /\ kernel' = kernel
        /\ answer' = Answer(answer, ToSet(Head(re.reads).ids), "err")
     \/ \E w \in WorkT :
          /\ w.op = "read" /\ w.ids = Head(re.reads).ids /\ ~w.ready
          /\ NotOwned(RestOf, w) \/ \E t \in Nat \ {0} : OwnedAs(RestOf, w, t)

LEMMA RestIs ==
  ASSUME TypeOK, re.reads # <<>>
  PROVE  /\ RestOf \in ReactorT /\ RestOf.reads = Tail(re.reads)
         /\ RestOf.commands = re.commands /\ RestOf.pending = re.pending
         /\ RestOf.appends = re.appends /\ RestOf.bulk = re.bulk
         /\ RestOf.cohort = re.cohort /\ RestOf.failed = re.failed
         /\ RestOf.pc = re.pc /\ RestOf.todo = re.todo /\ RestOf.token = re.token
<1>1. re \in ReactorT /\ re.reads \in Seq(CommandT)
  BY DEF TypeOK, ReactorT
<1>2. Tail(re.reads) \in Seq(CommandT)
  BY <1>1
<1> QED BY <1>1, <1>2 DEF RestOf, ReactorT

LEMMA StartReadIs ==
  ASSUME TypeOK, StartRead
  PROVE  TypeOK' /\ Reads
<1> DEFINE c == Head(re.reads)
<1>0. re \in ReactorT /\ re.reads \in Seq(CommandT) /\ re.pc = "reads"
      /\ re.reads # <<>> /\ c.boundary <= log.published /\ ~re.failed
      /\ UNCHANGED <<front, reqs, mailbox, log, cqes>>
  BY DEF TypeOK, ReactorT, StartRead, At, ReadReady
<1>1. c \in CommandT /\ c.ids \in Seq(Nat) /\ c.boundary \in Nat
  <2>1. c \in CommandT
    BY <1>0
  <2> QED BY <2>1 DEF CommandT
<1>2. \/ /\ re' = RestOf /\ answer' = Answer(answer, ToSet(c.ids), "ok")
         /\ UNCHANGED <<health, kernel, port>>
      \/ FailRead([RestOf EXCEPT !.pc = "reject"], c.ids) /\ UNCHANGED kernel
      \/ /\ \E dep \in BOOLEAN :
              Own(RestOf, [Work("read", c.ids, c.boundary) EXCEPT
                             !.left = IF dep THEN 0 ELSE 1, !.dependency = dep])
         /\ UNCHANGED port
  BY DEF StartRead, RestOf
<1>3. /\ RestOf \in ReactorT /\ RestOf.reads = Tail(re.reads)
      /\ RestOf.commands = re.commands /\ RestOf.pending = re.pending
      /\ RestOf.appends = re.appends /\ RestOf.bulk = re.bulk
      /\ RestOf.cohort = re.cohort /\ RestOf.failed = re.failed
      /\ RestOf.pc = re.pc
  BY <1>0, RestIs
<1>4. CASE /\ re' = RestOf /\ answer' = Answer(answer, ToSet(c.ids), "ok")
           /\ UNCHANGED <<health, kernel, port>>
  <2>1. TypeOK'
    BY <1>0, <1>3, <1>4, AnswerType DEF TypeOK
  <2>2. Same(RestOf, re')
    BY <1>4 DEF Same
  <2> QED BY <1>0, <1>3, <1>4, <2>1, <2>2 DEF Reads
<1>5. CASE FailRead([RestOf EXCEPT !.pc = "reject"], c.ids) /\ UNCHANGED kernel
  <2> DEFINE q == [RestOf EXCEPT !.pc = "reject"]
  <2>1. /\ q \in ReactorT /\ q.reads = RestOf.reads /\ q.commands = re.commands
        /\ q.pending = re.pending /\ q.bulk = re.bulk /\ q.cohort = re.cohort
        /\ q.pc = "reject"
    BY <1>3 DEF ReactorT, Phases
  <2>2. FailRead(q, c.ids)
    BY <1>5
  <2> HIDE DEF q, c
  <2>3. /\ re' = Failing(q) /\ re' \in ReactorT /\ health' = TRUE
        /\ port' \in PortT /\ answer' = Answer(answer, ToSet(c.ids), "err")
    BY <2>1, <2>2, FailReadIs
  <2>4. re'.failed = TRUE /\ re'.appends = <<>> /\ re'.pc = "reject"
        /\ re'.commands = re.commands /\ re'.reads = RestOf.reads
        /\ re'.pending = re.pending /\ re'.bulk = re.bulk
        /\ re'.cohort = re.cohort
    BY <2>1, <2>3, FailingIs
  <2>5. TypeOK'
    BY <1>0, <1>5, <2>3, AnswerType DEF TypeOK
  <2> QED BY <1>0, <1>5, <2>3, <2>4, <2>5 DEF Reads, c
<1>6. CASE /\ \E dep \in BOOLEAN :
                Own(RestOf, [Work("read", c.ids, c.boundary) EXCEPT
                               !.left = IF dep THEN 0 ELSE 1, !.dependency = dep])
           /\ UNCHANGED port
  <2>1. PICK dep \in BOOLEAN :
          Own(RestOf, [Work("read", c.ids, c.boundary) EXCEPT
                         !.left = IF dep THEN 0 ELSE 1, !.dependency = dep])
    BY <1>6
  <2> DEFINE w == [Work("read", c.ids, c.boundary) EXCEPT
                     !.left = IF dep THEN 0 ELSE 1, !.dependency = dep]
  <2> HIDE DEF c
  <2>2. w \in WorkT /\ w.op = "read" /\ w.ids = c.ids /\ ~w.ready
    <3>1. (IF dep THEN 0 ELSE 1) \in Nat
      OBVIOUS
    <3> QED BY <1>1, <3>1 DEF Work, WorkT
  <2>3. Own(RestOf, w)
    BY <2>1
  <2> HIDE DEF w
  <2>4. /\ re' \in ReactorT
        /\ NotOwned(RestOf, w) \/ \E t \in Nat \ {0} : OwnedAs(RestOf, w, t)
    BY <1>3, <2>2, <2>3, OwnIs
  <2>5. kernel' \subseteq Nat /\ health' \in BOOLEAN
         /\ answer' \in [Ids -> Seq({"ok", "err"})]
    <3>1. kernel \subseteq Nat /\ health \in BOOLEAN
          /\ answer \in [Ids -> Seq({"ok", "err"})]
      BY DEF TypeOK
    <3>2. CASE NotOwned(RestOf, w)
      BY <3>1, <3>2, AnswerType DEF NotOwned
    <3>3. CASE \E t \in Nat \ {0} : OwnedAs(RestOf, w, t)
      BY <3>1, <3>3 DEF OwnedAs
    <3> QED BY <2>4, <3>2, <3>3
  <2>6. TypeOK'
    BY <1>0, <1>6, <2>4, <2>5 DEF TypeOK
  <2>7. Reads
    BY <1>0, <2>2, <2>4 DEF Reads, c
  <2> QED BY <2>6, <2>7
<1> QED BY <1>2, <1>4, <1>5, <1>6

LEMMA SubmitBulkIs ==
  ASSUME TypeOK, SubmitBulk
  PROVE  /\ TypeOK' /\ re.bulk # <<>> /\ re.pc = "submit" /\ re'.pc = "submit"
         /\ re'.bulk = Tail(re.bulk) /\ kernel' = kernel \cup {Head(re.bulk)}
         /\ re'.commands = re.commands /\ re'.reads = re.reads
         /\ re'.pending = re.pending /\ re'.appends = re.appends
         /\ re'.cohort = re.cohort /\ re'.failed = re.failed
         /\ UNCHANGED <<front, reqs, answer, mailbox, log, health, cqes>>
<1>0. re \in ReactorT /\ re.bulk \in Seq(Nat) /\ re.bulk # <<>> /\ re.pc = "submit"
      /\ re' = [re EXCEPT !.bulk = Tail(@)] /\ kernel' = kernel \cup {Head(re.bulk)}
      /\ UNCHANGED <<front, reqs, answer, mailbox, log, port, health, cqes>>
  BY DEF TypeOK, ReactorT, SubmitBulk, At
<1>1. Tail(re.bulk) \in Seq(Nat) /\ Head(re.bulk) \in Nat
  BY <1>0
<1>2. /\ re' \in ReactorT /\ re'.bulk = Tail(re.bulk)
      /\ re'.commands = re.commands /\ re'.reads = re.reads
      /\ re'.pending = re.pending /\ re'.appends = re.appends
      /\ re'.cohort = re.cohort /\ re'.failed = re.failed /\ re'.pc = "submit"
  BY <1>0, <1>1 DEF ReactorT
<1>3. kernel' \subseteq Nat
  BY <1>0, <1>1 DEF TypeOK
<1>4. TypeOK'
  BY <1>0, <1>2, <1>3 DEF TypeOK
<1> QED BY <1>0, <1>2, <1>4

LEMMA StopIs ==
  ASSUME TypeOK, Stop
  PROVE  /\ TypeOK' /\ re.pc = "stop" /\ re'.pc = "close" /\ health'
         /\ re'.failed /\ re'.appends = <<>> /\ re'.commands = re.commands
         /\ re'.reads = re.reads /\ re'.pending = re.pending
         /\ re'.bulk = re.bulk /\ re'.cohort = re.cohort
         /\ UNCHANGED <<front, reqs, answer, mailbox, log, kernel, cqes>>
<1>0. re \in ReactorT /\ re.pc = "stop" /\ port \in PortT
      /\ re' = [Failing(re) EXCEPT !.pc = "close"] /\ health' = TRUE
      /\ port' = Aborted(port)
      /\ UNCHANGED <<front, reqs, answer, mailbox, log, kernel, cqes>>
  BY DEF TypeOK, Stop, At
<1> DEFINE q == Failing(re)
<1>1. /\ q \in ReactorT /\ q.failed = TRUE /\ q.appends = <<>>
      /\ q.commands = re.commands /\ q.reads = re.reads
      /\ q.pending = re.pending /\ q.bulk = re.bulk /\ q.cohort = re.cohort
  BY <1>0, FailingIs
<1>2. re' = [q EXCEPT !.pc = "close"]
  BY <1>0
<1> HIDE DEF q
<1>3. /\ re' \in ReactorT /\ re'.failed = q.failed /\ re'.appends = q.appends
      /\ re'.commands = q.commands /\ re'.reads = q.reads /\ re'.pc = "close"
      /\ re'.pending = q.pending /\ re'.bulk = q.bulk /\ re'.cohort = q.cohort
  BY <1>1, <1>2 DEF ReactorT, Phases
<1>4. port' \in PortT
  BY <1>0 DEF Aborted, PortT
<1>5. TypeOK'
  BY <1>0, <1>3, <1>4 DEF TypeOK
<1> QED BY <1>0, <1>1, <1>3, <1>5

\* The failed image's pass and the closed reactor's: the queued transfers, the
\* first n commands and, unless a reply is unheard, the reads are answered with
\* errors.
Doomed == [re EXCEPT !.pending = Cancelled(re.pending)]
Condemned(n) ==
  (UNION {ToSet(Doomed.pending[t].ids) : t \in ToSet(re.bulk)})
    \cup IdsOf(SubSeq(re.commands, 1, n))
Rejects(n) ==
  /\ re'.commands = SubSeq(re.commands, n + 1, Len(re.commands))
  /\ re'.bulk = <<>>
  /\ re'.pending = [t \in DOMAIN re.pending \ ToSet(re.bulk) |->
                      Cancelled(re.pending)[t]]
  /\ re'.appends = re.appends /\ re'.cohort = re.cohort /\ re'.failed = re.failed
  /\ re'.pc \in {"drop", "stop", "wait", "gone"}
  /\ re.pc \in {"reject", "close"} /\ (re.pc = "close" => re'.pc = "drop")
  /\ front'.packing = front.packing /\ front'.admitted = front.admitted
  /\ front'.barrier = "none" <=> front.barrier = "none"
  /\ \/ re'.reads = re.reads /\ answer' = Answer(answer, Condemned(n), "err")
     \/ /\ re'.reads = <<>>
        /\ answer' = Answer(answer, Condemned(n) \cup IdsOf(re.reads), "err")

LEMMA CancelledIs ==
  ASSUME TypeOK
  PROVE  /\ Cancelled(re.pending) \in PendingT
         /\ DOMAIN Cancelled(re.pending) = DOMAIN re.pending
         /\ \A t \in DOMAIN re.pending :
              /\ Cancelled(re.pending)[t] \in WorkT
              /\ Cancelled(re.pending)[t].op = re.pending[t].op
              /\ Cancelled(re.pending)[t].ids = re.pending[t].ids
              /\ Cancelled(re.pending)[t].last = re.pending[t].last
              /\ Cancelled(re.pending)[t].ready = re.pending[t].ready
<1> DEFINE p == re.pending
           P == Cancelled(re.pending)
<1>1. p \in PendingT
  BY DEF TypeOK, ReactorT
<1>2. DOMAIN p \subseteq Nat \ {0} /\ \A t \in DOMAIN p : p[t] \in WorkT
  BY <1>1, PendingElem
<1>3. DOMAIN P = DOMAIN p
  BY DEF Cancelled
<1>4. \A t \in DOMAIN p : /\ P[t] \in WorkT /\ P[t].op = p[t].op
                          /\ P[t].ids = p[t].ids /\ P[t].last = p[t].last
                          /\ P[t].ready = p[t].ready
  <2> TAKE t \in DOMAIN p
  <2>1. P[t] = p[t] \/ P[t] = [p[t] EXCEPT !.cancelled = TRUE]
    BY DEF Cancelled
  <2>2. p[t] \in WorkT
    BY <1>2
  <2> HIDE DEF P, p
  <2> QED BY <2>1, <2>2 DEF WorkT
<1>5. P \in [DOMAIN p -> WorkT]
  BY <1>3, <1>4 DEF Cancelled
<1>6. P \in PendingT
  <2> HIDE DEF P
  <2> QED BY <1>2, <1>5, PendingIntro
<1> QED BY <1>3, <1>4, <1>6

LEMMA DoomedIs ==
  ASSUME TypeOK
  PROVE  /\ Doomed \in ReactorT /\ Doomed.pending = Cancelled(re.pending)
         /\ Doomed.commands = re.commands /\ Doomed.reads = re.reads
         /\ Doomed.appends = re.appends /\ Doomed.bulk = re.bulk
         /\ Doomed.cohort = re.cohort /\ Doomed.failed = re.failed
<1> DEFINE P == Cancelled(re.pending)
<1>1. P \in PendingT /\ re \in ReactorT
  BY CancelledIs DEF TypeOK
<1>2. Doomed = [re EXCEPT !.pending = P]
  BY DEF Doomed
<1> HIDE DEF P
<1>3. /\ Doomed \in ReactorT /\ Doomed.pending = P
      /\ Doomed.commands = re.commands /\ Doomed.reads = re.reads
      /\ Doomed.appends = re.appends /\ Doomed.bulk = re.bulk
      /\ Doomed.cohort = re.cohort /\ Doomed.failed = re.failed
  BY <1>1, <1>2 DEF ReactorT
<1> QED BY <1>3 DEF P

\* Where the first unheard reply is queued.
LEMMA CutIs ==
  ASSUME TypeOK
  PROVE  SelectInSeq(re.commands, Unheard) \in 0..Len(re.commands)
<1> DEFINE s == re.commands
           I == {i \in 1..Len(s) : Unheard(s[i])}
<1>0. s \in Seq(CommandT) /\ Len(s) \in Nat
  BY DEF TypeOK, ReactorT
<1>1. SelectInSeq(s, Unheard) = IF I # {} THEN Min(I) ELSE 0
  BY DEF SelectInSeq
<1>2. I \subseteq 1..Len(s) /\ I \in SUBSET Nat
  BY <1>0
<1> HIDE DEF I
<1>3. CASE I # {}
  <2>1. \E n \in I : \A m \in I : n <= m
    BY <1>2, <1>3, LeastExists
  <2>2. Min(I) \in I
    BY <2>1 DEF Min
  <2> DEFINE m == Min(I)
  <2>3. SelectInSeq(s, Unheard) = m
    BY <1>1, <1>3
  <2>4. m \in 1..Len(s)
    BY <1>2, <2>2
  <2> HIDE DEF m
  <2>5. m \in 0..Len(s)
    BY <1>0, <2>4
  <2> QED BY <2>3, <2>5
<1>4. CASE I = {}
  BY <1>0, <1>1, <1>4
<1> QED BY <1>3, <1>4

LEMMA RejectQueuedIs ==
  ASSUME TypeOK, RejectQueued(Doomed), re.pc \in {"reject", "close"}
  PROVE  /\ front' \in FrontT /\ answer' \in [Ids -> Seq({"ok", "err"})]
         /\ re' \in ReactorT
         /\ \E n \in 0..Len(re.commands) : Rejects(n)
<1> DEFINE q == Doomed
           s == re.commands
           cut == SelectInSeq(s, Unheard)
           run == IF cut = 0 THEN s ELSE SubSeq(s, 1, cut)
           queued == UNION {ToSet(q.pending[t].ids) : t \in ToSet(re.bulk)}
           unread == IF cut = 0 THEN IdsOf(re.reads) ELSE {}
           n == IF cut = 0 THEN Len(s) ELSE cut
           P == [t \in DOMAIN re.pending \ ToSet(re.bulk) |->
                   Cancelled(re.pending)[t]]
           C == IF cut = 0 THEN <<>> ELSE SubSeq(s, cut + 1, Len(s))
           R == IF cut = 0 THEN <<>> ELSE re.reads
           left == [q EXCEPT !.bulk = <<>>, !.pending = P, !.commands = C,
                             !.reads = R]
           bar == IF /\ front.barrier \in {"pause", "attach"}
                     /\ \E i \in DOMAIN run : run[i].op \in {"pause", "attach"}
                    THEN "failed" ELSE front.barrier
<1>1. /\ q \in ReactorT /\ q.pending = Cancelled(re.pending) /\ q.commands = s
      /\ q.reads = re.reads /\ q.appends = re.appends /\ q.bulk = re.bulk
      /\ q.cohort = re.cohort /\ q.failed = re.failed
      /\ DOMAIN q.pending = DOMAIN re.pending
  BY DoomedIs, CancelledIs
<1>2. /\ answer' = Answer(answer, queued \cup IdsOf(run) \cup unread, "err")
      /\ front' = [front EXCEPT !.barrier = bar]
      /\ re' = IF re.pc = "close" THEN [left EXCEPT !.pc = "drop"]
               ELSE IF cut # 0 THEN Stopping(left)
               ELSE EndPass(left, Aborted(port))
  <2> USE <1>1
  <2> QED BY DEF RejectQueued, At
<1>3. s \in Seq(CommandT) /\ Len(s) \in Nat /\ re.reads \in Seq(CommandT)
      /\ cut \in 0..Len(s) /\ front \in FrontT
  BY CutIs DEF TypeOK, ReactorT
<1>4. P \in PendingT
  <2>1. /\ \A t \in DOMAIN re.pending : Cancelled(re.pending)[t] \in WorkT
        /\ DOMAIN re.pending \ ToSet(re.bulk) \in SUBSET (Nat \ {0})
    BY CancelledIs, PendingElem
  <2>2. P \in [DOMAIN re.pending \ ToSet(re.bulk) -> WorkT]
    BY <2>1
  <2> HIDE DEF P
  <2> QED BY <2>1, <2>2, PendingIntro
<1>5. n \in 0..Len(s) /\ C = SubSeq(s, n + 1, Len(s)) /\ C \in Seq(CommandT)
      /\ run = SubSeq(s, 1, n) /\ R \in Seq(CommandT)
  <2> HIDE DEF cut
  <2>1. CASE cut = 0
    <3>1. SubSeq(s, Len(s) + 1, Len(s)) = <<>> /\ SubSeq(s, 1, Len(s)) = s
      BY <1>3, SubSeqEmpty, SubSeqFull
    <3>2. n = Len(s) /\ C = <<>> /\ run = s /\ R = <<>>
      BY <2>1
    <3>3. <<>> \in Seq(CommandT)
      OBVIOUS
    <3> HIDE DEF n, C, run, R
    <3>4. n \in 0..Len(s)
      BY <1>3, <3>2
    <3>5. C = SubSeq(s, n + 1, Len(s))
      BY <3>1, <3>2
    <3>6. run = SubSeq(s, 1, n)
      BY <3>1, <3>2
    <3> QED BY <1>3, <3>2, <3>3, <3>4, <3>5, <3>6
  <2>2. CASE cut # 0
    <3>1. SubSeq(s, cut + 1, Len(s)) \in Seq(CommandT)
      <4>1. \A i \in cut + 1 .. Len(s) : s[i] \in CommandT
        BY <1>3
      <4>2. cut + 1 \in Int /\ Len(s) \in Int
        BY <1>3
      <4> QED BY <4>1, <4>2, SubSeqProperties
    <3> QED BY <1>3, <2>2, <3>1
  <2> QED BY <2>1, <2>2
<1>6. /\ front' \in FrontT /\ front'.packing = front.packing
      /\ front'.admitted = front.admitted
      /\ front'.barrier = "none" <=> front.barrier = "none"
  <2>1. bar \in {"none", "pause", "attach", "failed", "abandoned"}
        /\ (bar = "none" <=> front.barrier = "none")
    BY <1>3 DEF FrontT
  <2> HIDE DEF bar
  <2> QED BY <1>2, <1>3, <2>1 DEF FrontT
<1>7. answer' \in [Ids -> Seq({"ok", "err"})]
  BY <1>2, AnswerType
<1>8. <<>> \in Seq(Nat)
  OBVIOUS
<1>9. /\ left \in ReactorT /\ left.bulk = <<>> /\ left.pending = P
      /\ left.commands = C /\ left.reads = R /\ left.appends = re.appends
      /\ left.cohort = re.cohort /\ left.failed = re.failed
  <2> HIDE DEF q, P, C, R
  <2> QED BY <1>1, <1>4, <1>5, <1>8 DEF ReactorT
<1>10. /\ re' \in ReactorT /\ re'.bulk = <<>> /\ re'.pending = P
       /\ re'.commands = C /\ re'.reads = R /\ re'.appends = re.appends
       /\ re'.cohort = re.cohort /\ re'.failed = re.failed
       /\ re'.pc \in {"drop", "stop", "wait", "gone"}
       /\ (re.pc = "close" => re'.pc = "drop")
  <2> HIDE DEF left, P, C, R, cut
  <2>1. CASE re.pc = "close"
    <3>1. re' = [left EXCEPT !.pc = "drop"]
      BY <1>2, <2>1
    <3> QED BY <1>9, <3>1 DEF ReactorT, Phases
  <2>2. CASE re.pc # "close" /\ cut # 0
    <3>1. re' = Stopping(left)
      BY <1>2, <2>2
    <3> QED BY <1>9, <2>2, <3>1, StoppingIs DEF Same
  <2>3. CASE re.pc # "close" /\ cut = 0
    <3>1. re' = EndPass(left, Aborted(port))
      BY <1>2, <2>3
    <3> DEFINE e == EndPass(left, Aborted(port))
    <3>2. e \in ReactorT /\ Same(left, e) /\ e.pc \in {"wait", "gone"}
      BY <1>9, EndPassIs
    <3> HIDE DEF e
    <3>3. re' = e
      BY <3>1 DEF e
    <3> QED BY <1>9, <2>3, <3>2, <3>3 DEF Same
  <2> QED BY <2>1, <2>2, <2>3
<1>11. Condemned(n) = queued \cup IdsOf(run)
  <2>1. run = SubSeq(s, 1, n)
    BY <1>5
  <2> HIDE DEF n, run
  <2>2. IdsOf(run) = IdsOf(SubSeq(re.commands, 1, n))
    BY <2>1
  <2>3. Condemned(n) = queued \cup IdsOf(SubSeq(re.commands, 1, n))
    BY DEF Condemned
  <2> QED BY <2>2, <2>3
<1>12. Rejects(n)
  <2>1. \/ re'.reads = re.reads /\ answer' = Answer(answer, Condemned(n), "err")
        \/ /\ re'.reads = <<>>
           /\ answer' = Answer(answer, Condemned(n) \cup IdsOf(re.reads), "err")
    <3> HIDE DEF queued, run, P, C, q, n
    <3>1. CASE cut = 0
      BY <1>2, <1>10, <1>11, <3>1
    <3>2. CASE cut # 0
      <4>1. (queued \cup IdsOf(run)) \cup {} = queued \cup IdsOf(run)
        OBVIOUS
      <4>2. re'.reads = re.reads /\ unread = {}
        BY <1>10, <3>2
      <4> QED BY <1>2, <1>11, <4>1, <4>2
    <3> QED BY <3>1, <3>2
  <2> HIDE DEF n, C, cut
  <2> QED BY <1>5, <1>6, <1>10, <2>1 DEF Rejects
<1> HIDE DEF n
<1> QED BY <1>5, <1>6, <1>7, <1>10, <1>12

LEMMA RejectIs ==
  ASSUME TypeOK, Reject \/ RejectClosed
  PROVE  /\ TypeOK' /\ \E n \in 0..Len(re.commands) : Rejects(n)
         /\ UNCHANGED <<reqs, mailbox, log, health, kernel, cqes>>
<1>1. RejectQueued(Doomed) /\ re.pc \in {"reject", "close"}
      /\ UNCHANGED <<reqs, mailbox, log, port, health, kernel, cqes>>
  BY DEF Reject, RejectClosed, Doomed, At
<1>2. /\ front' \in FrontT /\ answer' \in [Ids -> Seq({"ok", "err"})]
      /\ re' \in ReactorT /\ \E n \in 0..Len(re.commands) : Rejects(n)
  BY <1>1, RejectQueuedIs
<1> QED BY <1>1, <1>2 DEF TypeOK

\* The reactor is dropped: what the kernel no longer touches is answered.
Drops ==
  /\ kernel \cap DOMAIN re.pending = {} /\ re.pc = "drop"
  /\ re'.commands = <<>> /\ re'.reads = <<>> /\ re'.pending = <<>>
  /\ re'.bulk = re.bulk /\ re'.appends = re.appends /\ re'.failed = re.failed
  /\ re'.pc = "gone" /\ cqes' = {}
  /\ answer' = Answer(answer, IdsOf(re.pending), "err")
  /\ UNCHANGED <<front, reqs, mailbox, log, health, kernel>>

LEMMA DropIs ==
  ASSUME TypeOK, Drop
  PROVE  TypeOK' /\ Drops
<1>1. re \in ReactorT /\ kernel \cap DOMAIN re.pending = {} /\ re.pc = "drop"
      /\ re' = [re EXCEPT !.pc = "gone", !.pending = <<>>, !.commands = <<>>,
                          !.reads = <<>>, !.cohort = 0]
      /\ cqes' = {} /\ UNCHANGED <<front, reqs, mailbox, log, port, health, kernel>>
  BY DEF TypeOK, Drop, At
<1>2. <<>> \in PendingT /\ <<>> \in Seq(CommandT)
  BY EmptyPending
<1>3. /\ re' \in ReactorT /\ re'.commands = <<>> /\ re'.reads = <<>>
      /\ re'.pending = <<>> /\ re'.bulk = re.bulk /\ re'.appends = re.appends
      /\ re'.failed = re.failed /\ re'.pc = "gone"
  BY <1>1, <1>2 DEF ReactorT, Phases
<1>4. answer' = Answer(answer, IdsOf(re.pending), "err")
  <2>1. \A i \in Ids : i \in IdsOf(re.pending)
          <=> \E t \in DOMAIN re.pending : i \in ToSet(re.pending[t].ids)
    BY DEF IdsOf
  <2>2. answer' = [i \in Ids |->
          IF \E t \in DOMAIN re.pending : i \in ToSet(re.pending[t].ids)
            THEN Append(answer[i], "err") ELSE answer[i]]
    BY DEF Drop
  <2> QED BY <2>1, <2>2 DEF Answer
<1>5. TypeOK'
  <2>1. answer' \in [Ids -> Seq({"ok", "err"})]
    BY <1>4, AnswerType
  <2> QED BY <1>1, <1>3, <2>1 DEF TypeOK
<1> QED BY <1>1, <1>3, <1>4, <1>5 DEF Drops

-----------------------------------------------------------------------------
(* No step takes an owner from under the kernel                            *)

\* A step that leaves the owners and the transfers alone.
LEMMA KernelSame ==
  ASSUME KernelInv,
         re'.pending = re.pending, re'.bulk = re.bulk, kernel' = kernel,
         cqes' = cqes,
         re'.failed \/ (re'.failed = re.failed /\ re'.appends = re.appends),
         re'.failed => health',
         re'.pc = "finish" => \A t \in re'.todo : t \in DOMAIN re.pending
                                                  /\ re.pending[t].ready,
         re'.pc \in {"reject", "close", "drop"} => re'.failed,
         re'.pc = "drop" => re.pc = "drop"
  PROVE  KernelInv'
<1>1. InKernel' /\ Queued'
  BY DEF KernelInv, InKernel, Queued
<1>2. Completed'
  BY DEF Completed
<1>3. OrderedAppends' /\ AppendsApart'
  BY DEF KernelInv, OrderedAppends, AppendsApart
<1>4. Failure'
  BY DEF KernelInv, Failure
<1> QED BY <1>1, <1>2, <1>3, <1>4 DEF KernelInv

LEMMA SteadyKernel ==
  ASSUME TypeOK, KernelInv, Steady
  PROVE  KernelInv'
BY KernelSame DEF Steady, Same, KernelInv, Failure

\* A step that owns new work under a fresh token.
LEMMA OwnedKernel ==
  ASSUME TypeOK, KernelInv, NEW q \in ReactorT, q.pending = re.pending,
         q.bulk = re.bulk, q.appends = re.appends, q.failed = re.failed,
         q.pc \notin {"finish", "close", "drop"}, q.pc = "reject" => re.failed,
         NEW work \in WorkT, ~work.ready, Bulk(work) => work.op # "fence",
         NEW t \in Nat \ {0}, OwnedAs(q, work, t), cqes' = cqes
  PROVE  KernelInv'
<1> DEFINE p == re.pending
           P == re'.pending
<1>0. re \in ReactorT /\ re.bulk \in Seq(Nat) /\ re.appends \in Seq(Nat)
  BY DEF TypeOK, ReactorT
<1>1. /\ t \notin DOMAIN p /\ DOMAIN P = DOMAIN p \cup {t} /\ P[t] = work
      /\ \A k \in DOMAIN p : P[k] = p[k]
  BY DEF OwnedAs
<1>2. /\ re'.failed = re.failed /\ re'.pc = q.pc /\ health' = health
      /\ kernel' = (IF Bulk(work) THEN kernel ELSE kernel \cup {t})
      /\ re'.bulk = (IF Bulk(work) THEN Append(re.bulk, t) ELSE re.bulk)
      /\ re'.appends = IF work.op = "append" THEN Append(re.appends, t)
                       ELSE re.appends
  BY DEF OwnedAs
<1> HIDE DEF p, P
<1>3. /\ \A k \in kernel : k \in DOMAIN p /\ ~p[k].ready
      /\ \A c \in cqes : c.token \in DOMAIN p /\ ~p[c.token].ready
                         /\ c.token \notin kernel
      /\ \A i \in DOMAIN re.bulk :
           /\ re.bulk[i] \in DOMAIN p /\ ~p[re.bulk[i]].ready
           /\ p[re.bulk[i]].op # "fence" /\ re.bulk[i] \notin kernel
           /\ \A c \in cqes : c.token # re.bulk[i]
      /\ \A i, j \in DOMAIN re.bulk : re.bulk[i] = re.bulk[j] => i = j
  BY DEF KernelInv, InKernel, Queued, p
<1>4. InKernel'
  <2>1. \A k \in kernel' : k \in DOMAIN P /\ ~P[k].ready
    BY <1>1, <1>2, <1>3
  <2>2. \A c \in cqes : c.token \in DOMAIN P /\ ~P[c.token].ready
                         /\ c.token \notin kernel'
    BY <1>1, <1>2, <1>3
  <2> QED BY <2>1, <2>2 DEF InKernel, P
<1>5. Queued'
  <2>1. CASE Bulk(work)
    <3> DEFINE b == Append(re.bulk, t)
    <3>1. Len(re.bulk) \in Nat /\ DOMAIN re.bulk = 1..Len(re.bulk)
          /\ DOMAIN b = 1..(Len(re.bulk) + 1)
          /\ b[Len(re.bulk) + 1] = t
          /\ \A i \in DOMAIN re.bulk : b[i] = re.bulk[i]
      BY <1>0
    <3> HIDE DEF b
    <3>2. \A i \in DOMAIN b :
            \/ i \in DOMAIN re.bulk /\ b[i] = re.bulk[i]
            \/ i = Len(re.bulk) + 1 /\ b[i] = t
      BY <3>1
    <3>3. \A i \in DOMAIN b :
           /\ b[i] \in DOMAIN P /\ ~P[b[i]].ready
           /\ P[b[i]].op # "fence" /\ b[i] \notin kernel
           /\ \A c \in cqes : c.token # b[i]
      BY <1>1, <1>3, <2>1, <3>2
    <3>4. \A i, j \in DOMAIN b : b[i] = b[j] => i = j
      BY <1>1, <1>3, <3>2
    <3>5. re'.bulk = b /\ kernel' = kernel
      BY <1>2, <2>1 DEF b
    <3> QED BY <3>3, <3>4, <3>5 DEF Queued, P
  <2>2. CASE ~Bulk(work)
    <3>1. re'.bulk = re.bulk /\ kernel' = kernel \cup {t}
      BY <1>2, <2>2
    <3>2. \A i \in DOMAIN re.bulk :
           /\ re.bulk[i] \in DOMAIN P /\ ~P[re.bulk[i]].ready
           /\ P[re.bulk[i]].op # "fence" /\ re.bulk[i] \notin kernel \cup {t}
           /\ \A c \in cqes : c.token # re.bulk[i]
      BY <1>1, <1>3
    <3> QED BY <1>3, <3>1, <3>2 DEF Queued, P
  <2> QED BY <2>1, <2>2
<1>6. Completed' /\ Failure'
  BY <1>2 DEF Completed, Failure, KernelInv
<1>7. OrderedAppends' /\ AppendsApart'
  <2> SUFFICES ASSUME ~re.failed
      PROVE  /\ \A i \in DOMAIN re'.appends :
                  /\ re'.appends[i] \in DOMAIN P /\ P[re'.appends[i]].op = "append"
             /\ \A i, j \in DOMAIN re'.appends :
                  re'.appends[i] = re'.appends[j] => i = j
    BY <1>2 DEF OrderedAppends, AppendsApart, P
  <2>1. /\ \A i \in DOMAIN re.appends :
             /\ re.appends[i] \in DOMAIN p /\ p[re.appends[i]].op = "append"
        /\ \A i, j \in DOMAIN re.appends : re.appends[i] = re.appends[j] => i = j
    BY DEF KernelInv, OrderedAppends, AppendsApart, p
  <2>2. CASE work.op # "append"
    BY <1>1, <1>2, <2>1, <2>2
  <2>3. CASE work.op = "append"
    <3> DEFINE b == Append(re.appends, t)
    <3>1. Len(re.appends) \in Nat /\ DOMAIN re.appends = 1..Len(re.appends)
          /\ DOMAIN b = 1..(Len(re.appends) + 1)
          /\ b[Len(re.appends) + 1] = t
          /\ \A i \in DOMAIN re.appends : b[i] = re.appends[i]
      BY <1>0
    <3>2. re'.appends = b
      BY <1>2, <2>3
    <3> HIDE DEF b
    <3>3. \A i \in DOMAIN b :
            \/ i \in DOMAIN re.appends /\ b[i] = re.appends[i]
            \/ i = Len(re.appends) + 1 /\ b[i] = t
      BY <3>1
    <3>4. \A i \in DOMAIN b : b[i] \in DOMAIN P /\ P[b[i]].op = "append"
      BY <1>1, <2>1, <2>3, <3>3
    <3>5. \A i, j \in DOMAIN b : b[i] = b[j] => i = j
      BY <1>1, <2>1, <3>3
    <3> QED BY <3>2, <3>4, <3>5
  <2> QED BY <2>2, <2>3
<1> QED BY <1>4, <1>5, <1>6, <1>7 DEF KernelInv

\* A step that finds no slot, or starts a fence.
LEMMA NotOwnedKernel ==
  ASSUME TypeOK, KernelInv, NEW q \in ReactorT, q.pending = re.pending,
         q.bulk = re.bulk, q.pc \notin {"finish", "close", "drop"},
         NEW work \in WorkT, NotOwned(q, work), cqes' = cqes
  PROVE  KernelInv'
BY KernelSame, FailingIs DEF NotOwned

LEMMA WorkType ==
  ASSUME NEW op \in {"append", "fence", "read"}, NEW ids \in Seq(Nat),
         NEW last \in Nat
  PROVE  /\ Work(op, ids, last) \in WorkT /\ ~Work(op, ids, last).ready
         /\ Work(op, ids, last).op = op /\ Work(op, ids, last).ids = ids
         /\ Work(op, ids, last).last = last
BY DEF Work, WorkT

LEMMA FenceKernel ==
  ASSUME TypeOK, KernelInv, NEW q \in ReactorT, q.pending = re.pending,
         q.bulk = re.bulk, q.appends = re.appends, q.failed = re.failed,
         q.pc \notin {"finish", "close", "drop"}, q.pc = "reject" => re.failed,
         NEW waiters \in Seq(Nat), FenceOutcome(q, waiters), cqes' = cqes
  PROVE  KernelInv'
<1> DEFINE work == Work("fence", waiters, log.issued)
<1>0. work \in WorkT /\ ~work.ready /\ (Bulk(work) => work.op # "fence")
  BY WorkType DEF TypeOK, LogT, Bulk
<1>1. CASE StoppedFence(q)
  BY <1>1, KernelSame DEF StoppedFence, Same, KernelInv, Failure
<1>2. CASE Requeued(q, waiters) /\ UNCHANGED <<answer, health, kernel, log>>
  BY <1>2, KernelSame DEF Requeued, KernelInv, Failure
<1>3. CASE NotOwned(q, work)
  <2> HIDE DEF work
  <2> QED BY <1>0, <1>3, NotOwnedKernel
<1>4. ASSUME NEW t \in Nat \ {0}, OwnedAs(q, work, t)
      PROVE  KernelInv'
  <2> HIDE DEF work
  <2> QED BY <1>0, <1>4, OwnedKernel
<1> QED BY <1>1, <1>2, <1>3, <1>4 DEF FenceOutcome


LEMMA FencesAloneKernel ==
  ASSUME TypeOK, KernelInv, FencesAlone
  PROVE  KernelInv'
<1>1. PICK q \in ReactorT : Phase(q) /\ FenceOutcome(q, <<>>)
  BY DEF FencesAlone
<1>2. <<>> \in Seq(Nat) /\ cqes' = cqes
  BY DEF FencesAlone
<1> QED BY <1>1, <1>2, FenceKernel DEF Phase, Same

LEMMA TookKernel ==
  ASSUME TypeOK, KernelInv, NEW c, Took(c), UNCHANGED <<health, kernel, cqes>>
  PROVE  KernelInv'
BY KernelSame DEF Took, KernelInv, Failure

LEMMA ReapingKernel ==
  ASSUME TypeOK, KernelInv, Reaping, cqes' = {}, kernel' = kernel
  PROVE  KernelInv'
<1> DEFINE p == re.pending
           P == re'.pending
<1>1. DOMAIN P = DOMAIN p
  BY DEF Reaping, ReapedPending
<1>2. \A t \in DOMAIN p :
        /\ P[t].op = p[t].op
        /\ P[t].ready <=> (p[t].ready \/ \E c \in cqes : c.token = t)
  <2> TAKE t \in DOMAIN p
  <2> DEFINE hit == \E c \in cqes : c.token = t
  <2>1. P[t] = [p[t] EXCEPT !.ready = @ \/ hit]
    BY DEF Reaping, ReapedPending
  <2>2. p[t] \in WorkT
    BY PendingElem DEF TypeOK, ReactorT
  <2> HIDE DEF hit, p, P
  <2>3. P[t].op = p[t].op /\ (P[t].ready <=> (p[t].ready \/ hit))
    BY <2>1, <2>2 DEF WorkT
  <2> QED BY <2>3 DEF hit
<1> HIDE DEF P
<1>3. InKernel'
  <2>1. \A t \in kernel : t \in DOMAIN P /\ ~P[t].ready
    BY <1>1, <1>2 DEF KernelInv, InKernel
  <2> QED BY <2>1 DEF InKernel, P
<1>4. Queued'
  <2>1. re'.bulk = re.bulk
    BY DEF Reaping
  <2>2. \A i \in DOMAIN re.bulk :
           /\ re.bulk[i] \in DOMAIN P /\ ~P[re.bulk[i]].ready
           /\ P[re.bulk[i]].op # "fence" /\ re.bulk[i] \notin kernel
    BY <1>1, <1>2 DEF KernelInv, Queued
  <2> QED BY <2>1, <2>2 DEF Queued, KernelInv, P
<1>5. Completed'
  BY DEF Completed, Reaping
<1>6. OrderedAppends' /\ AppendsApart'
  <2>1. re'.failed \/ (re'.failed = re.failed /\ re'.appends = re.appends)
    BY DEF Reaping
  <2> QED BY <1>1, <1>2, <2>1 DEF KernelInv, OrderedAppends, AppendsApart, P
<1>7. Failure'
  BY DEF Failure, Reaping
<1> QED BY <1>3, <1>4, <1>5, <1>6, <1>7 DEF KernelInv

\* An owner that nothing else holds is given up.
LEMMA GivenKernel ==
  ASSUME TypeOK, KernelInv, NEW t \in DOMAIN re.pending, re.pending[t].ready,
         re'.pending = Without(re.pending, t), re'.bulk = re.bulk,
         kernel' = kernel, cqes' = cqes,
         \/ re'.failed
         \/ /\ re'.failed = re.failed
            /\ \A i \in DOMAIN re'.appends :
                 \E j \in DOMAIN re.appends : re'.appends[i] = re.appends[j]
            /\ \A i \in DOMAIN re'.appends : re'.appends[i] # t
            /\ \A i, j \in DOMAIN re'.appends : re'.appends[i] = re'.appends[j] => i = j,
         re'.failed => health',
         re'.pc = "finish" => re.pc = "finish" /\ re'.todo = re.todo \ {t},
         re'.pc = "reject" => re'.failed,
         re'.pc \notin {"close", "drop"}
  PROVE  KernelInv'
<1> DEFINE p == re.pending
           P == re'.pending
<1>0. p \in PendingT
  BY DEF TypeOK, ReactorT
<1>1. DOMAIN P = DOMAIN p \ {t} /\ \A k \in DOMAIN p \ {t} : P[k] = p[k]
  BY <1>0, WithoutIs
<1> HIDE DEF P
<1>2. InKernel'
  <2>1. \A k \in kernel : k \in DOMAIN P /\ ~P[k].ready
    BY <1>1 DEF KernelInv, InKernel
  <2>2. \A c \in cqes : c.token \in DOMAIN P /\ ~P[c.token].ready
                        /\ c.token \notin kernel
    BY <1>1 DEF KernelInv, InKernel
  <2> QED BY <2>1, <2>2 DEF InKernel, P
<1>3. Queued'
  <2>1. \A i \in DOMAIN re.bulk :
           /\ re.bulk[i] \in DOMAIN P /\ ~P[re.bulk[i]].ready
           /\ P[re.bulk[i]].op # "fence" /\ re.bulk[i] \notin kernel
           /\ \A c \in cqes : c.token # re.bulk[i]
    BY <1>1 DEF KernelInv, Queued
  <2> QED BY <2>1 DEF Queued, KernelInv, P
<1>4. Completed'
  BY <1>1 DEF Completed, KernelInv, P
<1>5. OrderedAppends'
  BY <1>1 DEF KernelInv, OrderedAppends, P
<1>6. AppendsApart' /\ Failure'
  BY DEF AppendsApart, Failure
<1> QED BY <1>2, <1>3, <1>4, <1>5, <1>6 DEF KernelInv

LEMMA PublishKernel ==
  ASSUME TypeOK, KernelInv, PublishAppend
  PROVE  KernelInv'
<1> DEFINE t == Head(re.appends)
           a == Tail(re.appends)
<1>1. /\ re.appends # <<>> /\ ~re.failed /\ t \in DOMAIN re.pending
      /\ re.pending[t].ready /\ re'.appends = a
      /\ re'.pending = Without(re.pending, t) /\ re'.bulk = re.bulk
      /\ re'.failed = re.failed /\ re'.pc = "publish"
      /\ UNCHANGED <<health, kernel, cqes>>
  BY PublishAppendIs
<1>2. re.appends \in Seq(Nat)
  BY DEF TypeOK, ReactorT
<1>3. /\ Len(re.appends) \in Nat /\ Len(re.appends) >= 1
      /\ DOMAIN re.appends = 1..Len(re.appends) /\ t = re.appends[1]
      /\ DOMAIN a = 1..(Len(re.appends) - 1)
      /\ \A i \in DOMAIN a : a[i] = re.appends[i + 1]
  BY <1>1, <1>2
<1>4. \A i, j \in DOMAIN re.appends : re.appends[i] = re.appends[j] => i = j
  BY <1>1 DEF KernelInv, AppendsApart
<1> HIDE DEF a, t
<1>5. \A i \in DOMAIN a : i + 1 \in DOMAIN re.appends /\ i + 1 # 1
  BY <1>3
<1>6. \A i, j \in DOMAIN a : a[i] = a[j] => i = j
  <2> TAKE i, j \in DOMAIN a
  <2>1. a[i] = a[j] => i + 1 = j + 1
    BY <1>3, <1>4, <1>5
  <2> QED BY <1>3, <2>1
<1>7. \A i \in DOMAIN a : a[i] # t /\ \E j \in DOMAIN re.appends : a[i] = re.appends[j]
  <2> TAKE i \in DOMAIN a
  <2>1. 1 \in DOMAIN re.appends
    BY <1>3
  <2> QED BY <1>3, <1>4, <1>5, <2>1
<1> QED BY <1>1, <1>6, <1>7, GivenKernel

LEMMA LeftKernel ==
  ASSUME TypeOK, KernelInv, NEW t \in re.todo, Finishing(t), Left(t),
         re.pc = "finish", cqes' = cqes
  PROVE  KernelInv'
<1>1. re'.pc = "finish" => \A k \in re'.todo : k \in DOMAIN re.pending
                                               /\ re.pending[k].ready
  BY DEF Finishing, KernelInv, Completed
<1> QED BY <1>1, KernelSame DEF Finishing, Left, Same, KernelInv, Failure

LEMMA GivenUpKernel ==
  ASSUME TypeOK, KernelInv, NEW t \in re.todo, t \in DOMAIN re.pending,
         re.pending[t].ready, Finishing(t), GivenUp(t), re.pc = "finish",
         cqes' = cqes
  PROVE  KernelInv'
<1>1. \/ re'.failed
      \/ /\ re'.failed = re.failed /\ re'.appends = re.appends
         /\ re.pending[t].op # "append"
  BY DEF Finishing, GivenUp
<1>2. \/ re'.failed
      \/ /\ re'.failed = re.failed
         /\ \A i \in DOMAIN re'.appends :
              \E j \in DOMAIN re.appends : re'.appends[i] = re.appends[j]
         /\ \A i \in DOMAIN re'.appends : re'.appends[i] # t
         /\ \A i, j \in DOMAIN re'.appends : re'.appends[i] = re'.appends[j] => i = j
  BY <1>1 DEF KernelInv, OrderedAppends, AppendsApart
<1>3. re'.failed => health'
  <2>1. re.failed => health
    BY DEF KernelInv, Failure
  <2>2. (re'.failed = re.failed /\ health' = health) \/ health'
    BY DEF Finishing
  <2> QED BY <2>1, <2>2
<1> QED BY <1>2, <1>3, GivenKernel DEF Finishing, GivenUp

\* A completed transfer is submitted again, or a queued one is.
LEMMA ResubmittedKernel ==
  ASSUME TypeOK, KernelInv, NEW t \in re.todo, t \in DOMAIN re.pending,
         re.pending[t].ready, Finishing(t), Resubmitted(t), re.pc = "finish",
         cqes' = cqes
  PROVE  KernelInv'
<1> DEFINE p == re.pending
           P == re'.pending
<1>0. p[t] \in WorkT /\ re.bulk \in Seq(Nat) /\ t \in Nat
  BY PendingElem DEF TypeOK, ReactorT
<1>1. /\ DOMAIN P = DOMAIN p /\ \A k \in DOMAIN p \ {t} : P[k] = p[k]
      /\ P[t].op = p[t].op /\ ~P[t].ready
      /\ \/ /\ p[t].op = "read" /\ re'.bulk = Append(re.bulk, t)
            /\ kernel' = kernel
         \/ /\ p[t].op = "fence" /\ re'.bulk = re.bulk
            /\ kernel' = kernel \cup {t}
  <2>1. CASE /\ p[t].op = "read"
             /\ P = [p EXCEPT ![t] = [p[t] EXCEPT !.left = @ - 1, !.ready = FALSE]]
             /\ re'.bulk = Append(re.bulk, t) /\ kernel' = kernel
    <3> DEFINE v == [p[t] EXCEPT !.left = @ - 1, !.ready = FALSE]
    <3>1. v.op = p[t].op /\ ~v.ready
      BY <1>0 DEF WorkT
    <3> HIDE DEF v
    <3>2. P = [p EXCEPT ![t] = v]
      BY <2>1 DEF v
    <3> HIDE DEF P
    <3> QED BY <2>1, <3>1, <3>2
  <2>2. CASE /\ p[t].op = "fence"
             /\ P = [p EXCEPT ![t] = [p[t] EXCEPT !.syncing = TRUE, !.ready = FALSE]]
             /\ re'.bulk = re.bulk /\ kernel' = kernel \cup {t}
    <3> DEFINE v == [p[t] EXCEPT !.syncing = TRUE, !.ready = FALSE]
    <3>1. v.op = p[t].op /\ ~v.ready
      BY <1>0 DEF WorkT
    <3> HIDE DEF v
    <3>2. P = [p EXCEPT ![t] = v]
      BY <2>2 DEF v
    <3> HIDE DEF P
    <3> QED BY <2>2, <3>1, <3>2
  <2> QED BY <2>1, <2>2 DEF Resubmitted
<1> HIDE DEF P
<1>2. /\ t \notin kernel /\ (\A c \in cqes : c.token # t)
      /\ \A i \in DOMAIN re.bulk : re.bulk[i] # t
  BY DEF KernelInv, InKernel, Queued
<1>3. InKernel'
  <2>1. \A k \in kernel' : k \in DOMAIN P /\ ~P[k].ready
    BY <1>1, <1>2 DEF KernelInv, InKernel
  <2>2. \A c \in cqes : c.token \in DOMAIN P /\ ~P[c.token].ready
                        /\ c.token \notin kernel'
    BY <1>1, <1>2 DEF KernelInv, InKernel
  <2> QED BY <2>1, <2>2 DEF InKernel, P
<1>4. Queued'
  <2>0. \A i \in DOMAIN re.bulk :
           /\ re.bulk[i] \in DOMAIN P /\ ~P[re.bulk[i]].ready
           /\ P[re.bulk[i]].op # "fence" /\ re.bulk[i] \notin kernel'
           /\ \A c \in cqes : c.token # re.bulk[i]
    BY <1>1, <1>2 DEF KernelInv, Queued
  <2>1. CASE re'.bulk = re.bulk
    BY <2>0, <2>1 DEF Queued, KernelInv, P
  <2>2. CASE p[t].op = "read" /\ re'.bulk = Append(re.bulk, t) /\ kernel' = kernel
    <3> DEFINE b == Append(re.bulk, t)
    <3>1. Len(re.bulk) \in Nat /\ DOMAIN re.bulk = 1..Len(re.bulk)
          /\ DOMAIN b = 1..(Len(re.bulk) + 1)
          /\ b[Len(re.bulk) + 1] = t
          /\ \A i \in DOMAIN re.bulk : b[i] = re.bulk[i]
      BY <1>0
    <3>2. re'.bulk = b
      BY <2>2
    <3> HIDE DEF b
    <3>3. \A i \in DOMAIN b :
            \/ i \in DOMAIN re.bulk /\ b[i] = re.bulk[i]
            \/ i = Len(re.bulk) + 1 /\ b[i] = t
      BY <3>1
    <3>4. \A i \in DOMAIN b :
           /\ b[i] \in DOMAIN P /\ ~P[b[i]].ready
           /\ P[b[i]].op # "fence" /\ b[i] \notin kernel'
           /\ \A c \in cqes : c.token # b[i]
      BY <1>1, <1>2, <2>0, <2>2, <3>3
    <3>5. \A i, j \in DOMAIN b : b[i] = b[j] => i = j
      BY <1>2, <3>3 DEF KernelInv, Queued
    <3> QED BY <3>2, <3>4, <3>5 DEF Queued, P
  <2> QED BY <1>1, <2>1, <2>2
<1>5. Completed'
  BY <1>1 DEF Completed, KernelInv, P, Finishing
<1>6. OrderedAppends' /\ AppendsApart'
  <2>1. re'.failed = re.failed /\ re'.appends = re.appends
    BY DEF Resubmitted
  <2> QED BY <1>1, <2>1 DEF KernelInv, OrderedAppends, AppendsApart, P
<1>7. Failure'
  <2>1. re'.failed = re.failed /\ health' = health
    BY DEF Resubmitted
  <2> QED BY <2>1 DEF KernelInv, Failure, Finishing
<1> QED BY <1>3, <1>4, <1>5, <1>6, <1>7 DEF KernelInv

LEMMA FinishKernel ==
  ASSUME TypeOK, KernelInv, Finish
  PROVE  KernelInv'
BY FinishIs, LeftKernel, GivenUpKernel, ResubmittedKernel

LEMMA SubmitBulkKernel ==
  ASSUME TypeOK, KernelInv, SubmitBulk
  PROVE  KernelInv'
<1> DEFINE t == Head(re.bulk)
           b == Tail(re.bulk)
<1>1. /\ re.bulk # <<>> /\ re'.pc = "submit" /\ re'.bulk = b
      /\ kernel' = kernel \cup {t} /\ re'.pending = re.pending
      /\ re'.appends = re.appends /\ re'.failed = re.failed
      /\ UNCHANGED <<health, cqes>>
  BY SubmitBulkIs
<1>2. re.bulk \in Seq(Nat)
  BY DEF TypeOK, ReactorT
<1>3. /\ Len(re.bulk) \in Nat /\ 1 \in DOMAIN re.bulk
      /\ DOMAIN re.bulk = 1..Len(re.bulk) /\ t = re.bulk[1]
      /\ DOMAIN b = 1..(Len(re.bulk) - 1)
      /\ \A i \in DOMAIN b : b[i] = re.bulk[i + 1]
  BY <1>1, <1>2
<1> HIDE DEF b, t
<1>4. \A i \in DOMAIN b : i + 1 \in DOMAIN re.bulk /\ i + 1 # 1
  BY <1>3
<1>5. \A i \in DOMAIN b : b[i] # t
  BY <1>3, <1>4 DEF KernelInv, Queued
<1>6. \A i, j \in DOMAIN b : b[i] = b[j] => i = j
  <2> TAKE i, j \in DOMAIN b
  <2>1. b[i] = b[j] => i + 1 = j + 1
    BY <1>3, <1>4 DEF KernelInv, Queued
  <2> QED BY <1>3, <2>1
<1>7. InKernel'
  <2>1. /\ t \in DOMAIN re.pending /\ ~re.pending[t].ready
        /\ \A c \in cqes : c.token # t
    BY <1>3 DEF KernelInv, Queued
  <2> QED BY <1>1, <2>1 DEF KernelInv, InKernel
<1>8. Queued'
  <2>1. \A i \in DOMAIN b :
           /\ b[i] \in DOMAIN re.pending /\ ~re.pending[b[i]].ready
           /\ re.pending[b[i]].op # "fence" /\ b[i] \notin kernel \cup {t}
           /\ \A c \in cqes : c.token # b[i]
    BY <1>3, <1>4, <1>5 DEF KernelInv, Queued
  <2> QED BY <1>1, <1>6, <2>1 DEF Queued
<1>9. Completed' /\ OrderedAppends' /\ AppendsApart' /\ Failure'
  BY <1>1 DEF KernelInv, Completed, OrderedAppends, AppendsApart, Failure
<1> QED BY <1>7, <1>8, <1>9 DEF KernelInv

LEMMA CompleteKernel ==
  ASSUME TypeOK, KernelInv, NEW t \in kernel, NEW ok \in BOOLEAN, Complete(t, ok)
  PROVE  KernelInv'
<1>1. /\ kernel' = kernel \ {t} /\ cqes' = cqes \cup {[token |-> t, ok |-> ok]}
      /\ re' = re /\ health' = health
  BY DEF Complete
<1>2. \A c \in cqes' : c \in cqes \/ c.token = t
  BY <1>1
<1>3. InKernel' /\ Queued'
  BY <1>1, <1>2 DEF KernelInv, InKernel, Queued
<1>4. Completed' /\ OrderedAppends' /\ AppendsApart' /\ Failure'
  BY <1>1 DEF KernelInv, Completed, OrderedAppends, AppendsApart, Failure
<1> QED BY <1>3, <1>4 DEF KernelInv

LEMMA PopsKernel ==
  ASSUME TypeOK, KernelInv, Pops \/ Marks
  PROVE  KernelInv'
<1>1. re'.failed = re.failed /\ health' = health /\ (re.failed => health)
  BY DEF Pops, Marks, KernelInv, Failure
<1> QED BY <1>1, KernelSame DEF Pops, Marks

LEMMA JoinsKernel ==
  ASSUME TypeOK, KernelInv, CohortOwned, Joins
  PROVE  KernelInv'
<1> DEFINE p == re.pending
           P == re'.pending
           t == re.cohort
           ids == Head(re.commands).ids
<1>0. t \in DOMAIN p /\ p[t] \in WorkT
  BY PendingElem DEF CohortOwned, Joins, TypeOK, ReactorT
<1>1. DOMAIN P = DOMAIN p /\ \A k \in DOMAIN p : P[k].op = p[k].op
                                                /\ P[k].ready = p[k].ready
  <2> DEFINE v == [p[t] EXCEPT !.ids = @ \o ids]
  <2>1. v.op = p[t].op /\ v.ready = p[t].ready
    BY <1>0 DEF WorkT
  <2>2. P = [p EXCEPT ![t] = v]
    BY DEF Joins
  <2> HIDE DEF v, P, p, t
  <2> QED BY <1>0, <2>1, <2>2
<1>2. /\ re'.bulk = re.bulk /\ re'.appends = re.appends /\ re'.failed = re.failed
      /\ re'.pc = "dispatch" /\ UNCHANGED <<kernel, cqes, health>>
  BY DEF Joins
<1> HIDE DEF P
<1>3. InKernel'
  BY <1>1, <1>2 DEF KernelInv, InKernel, P
<1>4. Queued'
  BY <1>1, <1>2 DEF KernelInv, Queued, P
<1>5. OrderedAppends' /\ AppendsApart'
  BY <1>1, <1>2 DEF KernelInv, OrderedAppends, AppendsApart, P
<1>6. Completed' /\ Failure'
  BY <1>2 DEF KernelInv, Completed, Failure
<1> QED BY <1>3, <1>4, <1>5, <1>6 DEF KernelInv

LEMMA AppendWorkIs ==
  ASSUME TypeOK, re.commands # <<>>
  PROVE  /\ AppendWork \in WorkT /\ ~AppendWork.ready /\ AppendWork.op = "append"
         /\ AppendWork.ids = Head(re.commands).ids
         /\ AppendWork.last = log.issued + Len(Head(re.commands).ids)
<1>1. Head(re.commands).ids \in Seq(Nat)
  BY HeadType
<1>2. log.issued \in Nat /\ Len(Head(re.commands).ids) \in Nat
  BY <1>1 DEF TypeOK, LogT
<1>3. log.issued + Len(Head(re.commands).ids) \in Nat
  BY <1>2
<1> QED BY <1>1, <1>3, WorkType DEF AppendWork

LEMMA IssuesKernel ==
  ASSUME TypeOK, KernelInv, Issues
  PROVE  KernelInv'
<1>1. re.commands # <<>> /\ re.pc = "dispatch" /\ cqes' = cqes /\ re \in ReactorT
  BY DEF Issues, TypeOK
<1>2. /\ Popped \in ReactorT /\ Popped.pending = re.pending
      /\ Popped.bulk = re.bulk /\ Popped.appends = re.appends
      /\ Popped.failed = re.failed /\ Popped.pc = "dispatch"
  BY <1>1, PoppedIs
<1>3. AppendWork \in WorkT /\ ~AppendWork.ready /\ AppendWork.op = "append"
  BY <1>1, AppendWorkIs
<1>4. CASE NotOwned(Popped, AppendWork)
  BY <1>1, <1>2, <1>3, <1>4, NotOwnedKernel
<1>5. ASSUME NEW t \in Nat \ {0}, OwnedAs(Popped, AppendWork, t)
      PROVE  KernelInv'
  BY <1>1, <1>2, <1>3, <1>5, OwnedKernel
<1> QED BY <1>4, <1>5 DEF Issues

LEMMA FlushFenceKernel ==
  ASSUME TypeOK, KernelInv, re.commands # <<>>, re.pc = "dispatch",
         FenceOutcome(Popped, Head(re.commands).ids), cqes' = cqes
  PROVE  KernelInv'
<1>1. /\ Popped \in ReactorT /\ Popped.pending = re.pending
      /\ Popped.bulk = re.bulk /\ Popped.appends = re.appends
      /\ Popped.failed = re.failed /\ Popped.pc = "dispatch"
  BY PoppedIs DEF TypeOK
<1>2. Head(re.commands).ids \in Seq(Nat)
  BY HeadType
<1> QED BY <1>1, <1>2, FenceKernel

LEMMA ReadsKernel ==
  ASSUME TypeOK, KernelInv, Reads
  PROVE  KernelInv'
<1>1. re.reads # <<>> /\ re.pc = "reads" /\ cqes' = cqes
  BY DEF Reads
<1>2. /\ RestOf \in ReactorT /\ RestOf.pending = re.pending
      /\ RestOf.bulk = re.bulk /\ RestOf.appends = re.appends
      /\ RestOf.failed = re.failed /\ RestOf.pc = "reads"
  BY <1>1, RestIs
<1>3. CASE /\ Same(RestOf, re') /\ re'.pc = "reads" /\ UNCHANGED <<health, kernel>>
  <2>1. re'.failed => health'
    BY <1>2, <1>3 DEF Same, KernelInv, Failure
  <2> QED BY <1>1, <1>2, <1>3, <2>1, KernelSame DEF Same
<1>4. CASE /\ re'.pending = re.pending /\ re'.bulk = re.bulk /\ re'.failed
           /\ re'.pc = "reject" /\ health' /\ kernel' = kernel
  BY <1>1, <1>4, KernelSame
<1>5. ASSUME NEW w \in WorkT, w.op = "read", ~w.ready,
             NotOwned(RestOf, w) \/ \E t \in Nat \ {0} : OwnedAs(RestOf, w, t)
      PROVE  KernelInv'
  <2>1. CASE NotOwned(RestOf, w)
    BY <1>1, <1>2, <2>1, NotOwnedKernel
  <2>2. ASSUME NEW t \in Nat \ {0}, OwnedAs(RestOf, w, t)
        PROVE  KernelInv'
    <3>1. Bulk(w) => w.op # "fence"
      BY <1>5
    <3> QED BY <1>1, <1>2, <1>5, <2>2, <3>1, OwnedKernel
  <2> QED BY <1>5, <2>1, <2>2
<1> QED BY <1>3, <1>4, <1>5 DEF Reads

LEMMA StopKernel ==
  ASSUME TypeOK, KernelInv, Stop
  PROVE  KernelInv'
BY StopIs, KernelSame

LEMMA RejectsKernel ==
  ASSUME TypeOK, KernelInv, NEW n, Rejects(n), UNCHANGED <<health, kernel, cqes>>
  PROVE  KernelInv'
<1> DEFINE p == re.pending
           P == re'.pending
<1>1. DOMAIN P = DOMAIN p \ ToSet(re.bulk)
      /\ \A t \in DOMAIN P : t \in DOMAIN p /\ P[t].ready = p[t].ready
  BY CancelledIs DEF Rejects
<1>2. re'.bulk = <<>> /\ re'.failed = re.failed /\ re.failed
      /\ re'.pc # "finish"
  BY DEF Rejects, KernelInv, Failure
<1>3. \A t : t \in ToSet(re.bulk) <=> \E i \in DOMAIN re.bulk : re.bulk[i] = t
  BY DEF ToSet
<1> HIDE DEF P
<1>4. InKernel'
  <2>1. \A t \in kernel : t \notin ToSet(re.bulk)
    BY <1>3 DEF KernelInv, Queued
  <2>2. \A c \in cqes : c.token \notin ToSet(re.bulk)
    BY <1>3 DEF KernelInv, Queued
  <2> QED BY <1>1, <2>1, <2>2 DEF KernelInv, InKernel, P
<1>5. Queued'
  BY <1>2 DEF Queued
<1>6. Completed' /\ OrderedAppends' /\ AppendsApart'
  BY <1>2 DEF Completed, OrderedAppends, AppendsApart
<1>7. Failure'
  BY <1>2 DEF KernelInv, Failure
<1> QED BY <1>4, <1>5, <1>6, <1>7 DEF KernelInv

LEMMA DropsKernel ==
  ASSUME TypeOK, KernelInv, Drops
  PROVE  KernelInv'
<1>1. kernel' = {} /\ cqes' = {} /\ re'.bulk = <<>> /\ re'.pc = "gone"
      /\ re'.failed /\ health'
  BY DEF Drops, KernelInv, InKernel, Failure
<1> QED BY <1>1 DEF KernelInv, InKernel, Queued, Completed, OrderedAppends,
                    AppendsApart, Failure

\* The queue thread, the worker, the collector and the gate.
LEMMA QuietKernel ==
  ASSUME KernelInv, UNCHANGED <<re, kernel, cqes>>, health => health'
  PROVE  KernelInv'
BY DEF KernelInv, InKernel, Queued, Completed, OrderedAppends, AppendsApart, Failure

-----------------------------------------------------------------------------
(* Families of owners                                                      *)

\* Some owners of f are gone.
LEMMA SubIds ==
  ASSUME NEW f, NEW g, DOMAIN g \subseteq DOMAIN f,
         \A k \in DOMAIN g : g[k].ids = f[k].ids
  PROVE  /\ IdsOf(g) \subseteq IdsOf(f)
         /\ Apart(f) => Apart(g)
         /\ Apart(f) => \A k \in DOMAIN f \ DOMAIN g :
                          ToSet(f[k].ids) \cap IdsOf(g) = {}
<1>1. IdsOf(g) \subseteq IdsOf(f)
  BY DEF IdsOf
<1>2. Apart(f) => Apart(g)
  BY DEF Apart
<1>3. ASSUME Apart(f), NEW k \in DOMAIN f \ DOMAIN g
      PROVE  ToSet(f[k].ids) \cap IdsOf(g) = {}
  BY <1>3 DEF Apart, IdsOf
<1> QED BY <1>1, <1>2, <1>3

\* A new owner joins f.
LEMMA ExtIds ==
  ASSUME NEW f, NEW g, NEW t, t \notin DOMAIN f, DOMAIN g = DOMAIN f \cup {t},
         \A k \in DOMAIN f : g[k].ids = f[k].ids
  PROVE  /\ IdsOf(g) = IdsOf(f) \cup ToSet(g[t].ids)
         /\ Apart(f) /\ ToSet(g[t].ids) \cap IdsOf(f) = {} => Apart(g)
<1>1. IdsOf(g) = IdsOf(f) \cup ToSet(g[t].ids)
  BY DEF IdsOf
<1>2. ASSUME Apart(f), ToSet(g[t].ids) \cap IdsOf(f) = {}
      PROVE  Apart(g)
  <2>1. \A k \in DOMAIN f : ToSet(g[t].ids) \cap ToSet(g[k].ids) = {}
    BY <1>2 DEF IdsOf
  <2> QED BY <1>2, <2>1 DEF Apart
<1> QED BY <1>1, <1>2

\* An owner of f takes the ids X as well.
LEMMA JoinIds ==
  ASSUME NEW f, NEW g, NEW t \in DOMAIN f, DOMAIN g = DOMAIN f, NEW X,
         \A k \in DOMAIN f \ {t} : g[k].ids = f[k].ids,
         ToSet(g[t].ids) = ToSet(f[t].ids) \cup X
  PROVE  /\ IdsOf(g) = IdsOf(f) \cup X
         /\ Apart(f) /\ X \cap IdsOf(f) = {} => Apart(g)
<1>1. IdsOf(g) = IdsOf(f) \cup X
  BY DEF IdsOf
<1>2. ASSUME Apart(f), X \cap IdsOf(f) = {}
      PROVE  Apart(g)
  <2>1. \A k \in DOMAIN f : X \cap ToSet(f[k].ids) = {}
    BY <1>2 DEF IdsOf
  <2> QED BY <1>2, <2>1 DEF Apart
<1> QED BY <1>1, <1>2

LEMMA TailIds ==
  ASSUME NEW s \in Seq(CommandT), s # <<>>
  PROVE  /\ IdsOf(s) = ToSet(Head(s).ids) \cup IdsOf(Tail(s))
         /\ Apart(s) => Apart(Tail(s))
         /\ Apart(s) => ToSet(Head(s).ids) \cap IdsOf(Tail(s)) = {}
<1> DEFINE u == Tail(s)
<1>1. /\ Len(s) \in Nat /\ DOMAIN s = 1..Len(s) /\ DOMAIN u = 1..(Len(s) - 1)
      /\ 1 \in DOMAIN s /\ Head(s) = s[1] /\ \A i \in DOMAIN u : u[i] = s[i + 1]
  OBVIOUS
<1> HIDE DEF u
<1>2. \A i \in DOMAIN u : i + 1 \in DOMAIN s /\ i + 1 # 1
  BY <1>1
<1>3. \A k \in DOMAIN s : k = 1 \/ (k - 1 \in DOMAIN u /\ s[k] = u[k - 1])
  <2> TAKE k \in DOMAIN s
  <2>1. k = 1 \/ (k - 1 \in DOMAIN u /\ (k - 1) + 1 = k)
    BY <1>1
  <2> QED BY <1>1, <2>1
<1>4. IdsOf(u) \subseteq IdsOf(s)
  <2>1. \A i \in DOMAIN u : ToSet(u[i].ids) \subseteq IdsOf(s)
    BY <1>1, <1>2 DEF IdsOf
  <2> QED BY <2>1 DEF IdsOf
<1>5. IdsOf(s) \subseteq ToSet(s[1].ids) \cup IdsOf(u)
  <2>1. \A k \in DOMAIN s : ToSet(s[k].ids) \subseteq ToSet(s[1].ids) \cup IdsOf(u)
    BY <1>3 DEF IdsOf
  <2> QED BY <2>1 DEF IdsOf
<1>6. ToSet(s[1].ids) \subseteq IdsOf(s)
  BY <1>1 DEF IdsOf
<1>7. ASSUME Apart(s)
      PROVE  Apart(u) /\ ToSet(s[1].ids) \cap IdsOf(u) = {}
  <2>1. \A i \in DOMAIN u : ToSet(s[1].ids) \cap ToSet(u[i].ids) = {}
    BY <1>1, <1>2, <1>7 DEF Apart
  <2>2. ASSUME NEW i \in DOMAIN u, NEW j \in DOMAIN u, i # j
        PROVE  ToSet(u[i].ids) \cap ToSet(u[j].ids) = {}
    <3>1. i + 1 # j + 1
      BY <1>1, <2>2
    <3> QED BY <1>1, <1>2, <1>7, <3>1 DEF Apart
  <2>3. Apart(u)
    BY <2>2 DEF Apart
  <2> QED BY <2>1, <2>3 DEF IdsOf
<1> QED BY <1>1, <1>4, <1>5, <1>6, <1>7 DEF u

LEMMA AppendIds ==
  ASSUME NEW s \in Seq(CommandT), NEW c \in CommandT
  PROVE  /\ IdsOf(Append(s, c)) = IdsOf(s) \cup ToSet(c.ids)
         /\ Apart(s) /\ ToSet(c.ids) \cap IdsOf(s) = {} => Apart(Append(s, c))
<1> DEFINE u == Append(s, c)
           t == Len(s) + 1
<1>1. /\ Len(s) \in Nat /\ DOMAIN s = 1..Len(s) /\ DOMAIN u = 1..t
      /\ u[t] = c /\ \A i \in DOMAIN s : u[i] = s[i]
  OBVIOUS
<1>2. t \notin DOMAIN s /\ DOMAIN u = DOMAIN s \cup {t}
  BY <1>1
<1> HIDE DEF u, t
<1>3. \A k \in DOMAIN s : u[k].ids = s[k].ids
  BY <1>1
<1>4. /\ IdsOf(u) = IdsOf(s) \cup ToSet(u[t].ids)
      /\ Apart(s) /\ ToSet(u[t].ids) \cap IdsOf(s) = {} => Apart(u)
  BY <1>2, <1>3, ExtIds
<1> QED BY <1>1, <1>4 DEF u

LEMMA ConcatIds ==
  ASSUME NEW s \in Seq(CommandT), NEW u \in Seq(CommandT)
  PROVE  /\ IdsOf(s \o u) = IdsOf(s) \cup IdsOf(u)
         /\ Apart(s) /\ Apart(u) /\ IdsOf(s) \cap IdsOf(u) = {} => Apart(s \o u)
<1> DEFINE v == s \o u
           n == Len(s)
<1>1. /\ n \in Nat /\ DOMAIN s = 1..n /\ Len(u) \in Nat /\ DOMAIN u = 1..Len(u)
      /\ DOMAIN v = 1..(n + Len(u))
      /\ \A i \in DOMAIN s : i \in DOMAIN v /\ v[i] = s[i]
      /\ \A i \in DOMAIN u : i + n \in DOMAIN v /\ v[i + n] = u[i]
  OBVIOUS
<1> HIDE DEF v, n
<1>2. \A k \in DOMAIN v :
        (k \in DOMAIN s /\ v[k] = s[k]) \/ (k - n \in DOMAIN u /\ v[k] = u[k - n])
  <2> TAKE k \in DOMAIN v
  <2>1. CASE k <= n
    BY <1>1, <2>1
  <2>2. CASE ~(k <= n)
    <3>1. k - n \in DOMAIN u /\ (k - n) + n = k
      BY <1>1, <2>2
    <3> QED BY <1>1, <3>1
  <2> QED BY <2>1, <2>2
<1>3. IdsOf(v) \subseteq IdsOf(s) \cup IdsOf(u)
  <2>1. \A k \in DOMAIN v : ToSet(v[k].ids) \subseteq IdsOf(s) \cup IdsOf(u)
    BY <1>2 DEF IdsOf
  <2> QED BY <2>1 DEF IdsOf
<1>4. IdsOf(s) \subseteq IdsOf(v)
  BY <1>1 DEF IdsOf
<1>5. IdsOf(u) \subseteq IdsOf(v)
  <2>1. \A k \in DOMAIN u : ToSet(u[k].ids) \subseteq IdsOf(v)
    BY <1>1 DEF IdsOf
  <2> QED BY <2>1 DEF IdsOf
<1>6. ASSUME Apart(s), Apart(u), IdsOf(s) \cap IdsOf(u) = {}
      PROVE  Apart(v)
  <2> SUFFICES ASSUME NEW i \in DOMAIN v, NEW j \in DOMAIN v, i # j
               PROVE  ToSet(v[i].ids) \cap ToSet(v[j].ids) = {}
    BY DEF Apart
  <2>1. CASE i \in DOMAIN s /\ j \in DOMAIN s
    BY <1>1, <1>6, <2>1 DEF Apart
  <2>2. CASE i - n \in DOMAIN u /\ v[i] = u[i - n] /\ j - n \in DOMAIN u /\ v[j] = u[j - n]
    <3>1. i - n # j - n
      BY <1>1, <2>2
    <3> QED BY <1>6, <2>2, <3>1 DEF Apart
  <2>3. CASE i \in DOMAIN s /\ v[i] = s[i] /\ j - n \in DOMAIN u /\ v[j] = u[j - n]
    <3>1. ToSet(s[i].ids) \subseteq IdsOf(s) /\ ToSet(u[j - n].ids) \subseteq IdsOf(u)
      BY <2>3 DEF IdsOf
    <3> QED BY <1>6, <2>3, <3>1
  <2>4. CASE j \in DOMAIN s /\ v[j] = s[j] /\ i - n \in DOMAIN u /\ v[i] = u[i - n]
    <3>1. ToSet(s[j].ids) \subseteq IdsOf(s) /\ ToSet(u[i - n].ids) \subseteq IdsOf(u)
      BY <2>4 DEF IdsOf
    <3> QED BY <1>6, <2>4, <3>1
  <2> QED BY <1>2, <2>1, <2>2, <2>3, <2>4
<1> QED BY <1>3, <1>4, <1>5, <1>6 DEF v

\* The first n commands and the rest.
LEMMA SplitIds ==
  ASSUME NEW s \in Seq(CommandT), NEW n \in 0..Len(s)
  PROVE  /\ IdsOf(SubSeq(s, 1, n)) \subseteq IdsOf(s)
         /\ IdsOf(SubSeq(s, n + 1, Len(s))) \subseteq IdsOf(s)
         /\ Apart(s) => /\ Apart(SubSeq(s, n + 1, Len(s)))
                        /\ IdsOf(SubSeq(s, 1, n))
                             \cap IdsOf(SubSeq(s, n + 1, Len(s))) = {}
<1> DEFINE a == SubSeq(s, 1, n)
           b == SubSeq(s, n + 1, Len(s))
<1>1. /\ Len(s) \in Nat /\ n \in Nat /\ n <= Len(s) /\ DOMAIN s = 1..Len(s)
      /\ DOMAIN a = 1..n /\ \A i \in DOMAIN a : a[i] = s[i]
      /\ DOMAIN b = 1..(Len(s) - n) /\ \A i \in DOMAIN b : b[i] = s[i + n]
  <2>1. Len(s) \in Nat /\ n \in Nat /\ n <= Len(s) /\ DOMAIN s = 1..Len(s)
    OBVIOUS
  <2>2. DOMAIN a = 1..n /\ \A i \in DOMAIN a : a[i] = s[i]
    BY <2>1
  <2>3. DOMAIN b = 1..(Len(s) - n) /\ \A i \in DOMAIN b : b[i] = s[i + n]
    BY <2>1
  <2> QED BY <2>1, <2>2, <2>3
<1> HIDE DEF a, b
<1>2. /\ \A i \in DOMAIN a : i \in DOMAIN s
      /\ \A i \in DOMAIN b : i + n \in DOMAIN s
      /\ \A i \in DOMAIN a, j \in DOMAIN b : i # j + n
      /\ \A i, j \in DOMAIN b : i # j => i + n # j + n
  BY <1>1
<1>3. IdsOf(b) \subseteq IdsOf(s)
  <2>1. \A i \in DOMAIN b : ToSet(b[i].ids) \subseteq IdsOf(s)
    BY <1>1, <1>2 DEF IdsOf
  <2> QED BY <2>1 DEF IdsOf
<1>4. IdsOf(a) \subseteq IdsOf(s)
  BY <1>1, <1>2 DEF IdsOf
<1>5. ASSUME Apart(s)
      PROVE  Apart(b) /\ IdsOf(a) \cap IdsOf(b) = {}
  <2>1. \A i \in DOMAIN a, j \in DOMAIN b : ToSet(a[i].ids) \cap ToSet(b[j].ids) = {}
    BY <1>1, <1>2, <1>5 DEF Apart
  <2>2. Apart(b)
    BY <1>1, <1>2, <1>5 DEF Apart
  <2>3. \A i \in DOMAIN a : ToSet(a[i].ids) \cap IdsOf(b) = {}
    BY <2>1 DEF IdsOf
  <2>4. IdsOf(a) \cap IdsOf(b) = {}
    BY <2>3 DEF IdsOf
  <2> QED BY <2>2, <2>4
<1> QED BY <1>3, <1>4, <1>5 DEF a, b


-----------------------------------------------------------------------------
(* The order of the queue                                                  *)

\* The ids of a command are requests, and what it needs and brings are ordinals.
LEMMA CarriesIs ==
  ASSUME NEW r \in Seq(RequestT), NEW c \in CommandT, Carries(r, c),
         ToSet(c.ids) \subseteq DOMAIN r
  PROVE  /\ Needs(r, c) \in Int
         /\ c.op = "append" => /\ Brings(r, c) \in Int /\ 1 \in DOMAIN c.ids
                               /\ c.ids[1] \in DOMAIN r
                               /\ r[c.ids[1]].boundary \in Nat
                               /\ Brings(r, c) = Needs(r, c) + Len(c.ids)
                               /\ Len(c.ids) \in Nat
<1>1. c.ids \in Seq(Nat) /\ c.boundary \in Nat /\ Len(c.ids) \in Nat
  BY DEF CommandT
<1>2. \A i \in DOMAIN r : r[i].boundary \in Nat
  <2>1. \A i \in DOMAIN r : r[i] \in RequestT
    OBVIOUS
  <2> QED BY <2>1 DEF RequestT
<1>3. CASE c.op = "append"
  <2>1. c.ids # <<>>
    BY <1>3 DEF Carries, Batch
  <2>2. 1 \in DOMAIN c.ids
    BY <1>1, <2>1
  <2>3. c.ids[1] \in DOMAIN r
    BY <2>2 DEF ToSet
  <2>4. r[c.ids[1]].boundary \in Nat
    BY <1>2, <2>3
  <2>5. Needs(r, c) = r[c.ids[1]].boundary - 1
    BY <1>3 DEF Needs
  <2>6. Brings(r, c) = r[c.ids[1]].boundary + Len(c.ids) - 1
    BY DEF Brings
  <2> DEFINE b == r[c.ids[1]].boundary
             n == Len(c.ids)
  <2> HIDE DEF b, n
  <2>7. b \in Nat /\ n \in Nat /\ Needs(r, c) = b - 1 /\ Brings(r, c) = b + n - 1
    BY <1>1, <2>4, <2>5, <2>6 DEF b, n
  <2>8. Needs(r, c) \in Int /\ Brings(r, c) \in Int /\ Brings(r, c) = Needs(r, c) + n
    BY <2>7
  <2> QED BY <1>1, <2>2, <2>3, <2>4, <2>8 DEF n
<1>4. CASE c.op # "append"
  BY <1>1, <1>4 DEF Needs
<1> QED BY <1>3, <1>4

\* A later request changes nothing of a command's.
LEMMA CarriesGrows ==
  ASSUME NEW r \in Seq(RequestT), NEW x \in RequestT, NEW c \in CommandT,
         Carries(r, c), ToSet(c.ids) \subseteq DOMAIN r
  PROVE  /\ Carries(Append(r, x), c)
         /\ Needs(Append(r, x), c) = Needs(r, c)
         /\ c.op = "append" => Brings(Append(r, x), c) = Brings(r, c)
<1> DEFINE s == Append(r, x)
<1>1. \A i \in DOMAIN r : s[i] = r[i]
  OBVIOUS
<1> HIDE DEF s
<1>2. c.ids \in Seq(Nat)
  BY DEF CommandT
<1>3. \A j \in DOMAIN c.ids : c.ids[j] \in DOMAIN r
  BY DEF ToSet
<1>4. c.ids # <<>> => 1 \in DOMAIN c.ids
  BY <1>2
<1>5. Batch(r, c.ids) => Batch(s, c.ids)
  BY <1>1, <1>3, <1>4 DEF Batch
<1>6. Len(c.ids) = 1 => 1 \in DOMAIN c.ids
  BY <1>2
<1>7. Carries(s, c)
  BY <1>1, <1>3, <1>4, <1>5, <1>6 DEF Carries
<1>8. c.op = "append" => c.ids # <<>>
  BY DEF Carries, Batch
<1>9. Needs(s, c) = Needs(r, c) /\ (c.op = "append" => Brings(s, c) = Brings(r, c))
  BY <1>1, <1>3, <1>4, <1>8 DEF Needs, Brings
<1> QED BY <1>7, <1>9 DEF s

\* Queued commands, all carrying requests of r.
Queue(r, s) ==
  /\ s \in Seq(CommandT)
  /\ \A k \in DOMAIN s : Carries(r, s[k]) /\ ToSet(s[k].ids) \subseteq DOMAIN r

LEMMA SupportsGrows ==
  ASSUME NEW r \in Seq(RequestT), NEW x \in RequestT, NEW s, Queue(r, s),
         NEW k, NEW b
  PROVE  Supports(r, s, k, b) => Supports(Append(r, x), s, k, b)
<1>1. \A j \in DOMAIN s : s[j] \in CommandT /\ Carries(r, s[j])
                          /\ ToSet(s[j].ids) \subseteq DOMAIN r
  BY DEF Queue
<1>2. \A j \in DOMAIN s : s[j].op = "append" =>
        Brings(Append(r, x), s[j]) = Brings(r, s[j])
  BY <1>1, CarriesGrows
<1> QED BY <1>2 DEF Supports


\* The head of the queue waits for no batch of the queue.
LEMMA HeadIssued ==
  ASSUME NEW r, NEW n, NEW C \in Seq(CommandT), C # <<>>, NEW M, NEW K, NEW a,
         InOrder(r, n, C, M, K, a)
  PROVE  Needs(r, Head(C)) <= n
<1>1. 1 \in DOMAIN C /\ Head(C) = C[1] /\ DOMAIN C = 1..Len(C) /\ Len(C) \in Nat
  OBVIOUS
<1>2. InCommands(r, n, C, 1, Needs(r, C[1]))
  BY <1>1 DEF InOrder
<1>3. \A j \in DOMAIN C : ~(j < 1)
  BY <1>1
<1>4. ~Supports(r, C, 1, Needs(r, C[1]))
  BY <1>3 DEF Supports
<1> QED BY <1>1, <1>2, <1>4 DEF InCommands

\* A batch leaves the head of the queue once the log issued it, and any other
\* command without more.
LEMMA OrderTail ==
  ASSUME NEW r \in Seq(RequestT), NEW n \in Nat, NEW m \in Nat, n <= m,
         NEW C, Queue(r, C), C # <<>>, NEW M, Queue(r, M), NEW K, NEW a,
         IF K = <<>> THEN a \in Int ELSE r[K[1]].boundary \in Int,
         Head(C).op = "append" => m >= n + Len(Head(C).ids),
         InOrder(r, n, C, M, K, a)
  PROVE  InOrder(r, m, Tail(C), M, K, a)
<1> DEFINE D == Tail(C)
           last == IF K = <<>> THEN a ELSE r[K[1]].boundary - 1
<1>0. C \in Seq(CommandT) /\ M \in Seq(CommandT)
  BY DEF Queue
<1>1. /\ Len(C) \in Nat /\ DOMAIN C = 1..Len(C) /\ 1 \in DOMAIN C /\ Head(C) = C[1]
      /\ Len(D) = Len(C) - 1 /\ DOMAIN D = 1..Len(D)
      /\ \A i \in DOMAIN D : i + 1 \in DOMAIN C /\ D[i] = C[i + 1]
  BY <1>0
<1>2. C[1].op = "append" => Brings(r, C[1]) \in Int /\ Brings(r, C[1]) <= m
  <2> SUFFICES ASSUME C[1].op = "append"
               PROVE  Brings(r, C[1]) \in Int /\ Brings(r, C[1]) <= m
    OBVIOUS
  <2>1. C[1] \in CommandT /\ Carries(r, C[1]) /\ ToSet(C[1].ids) \subseteq DOMAIN r
    BY <1>1 DEF Queue
  <2>2. /\ Needs(r, C[1]) \in Int /\ Brings(r, C[1]) \in Int
        /\ Brings(r, C[1]) = Needs(r, C[1]) + Len(C[1].ids)
        /\ Len(C[1].ids) \in Nat
    BY <2>1, CarriesIs
  <2>3. Needs(r, C[1]) <= n
    BY <1>0, <1>1, HeadIssued
  <2>4. m >= n + Len(C[1].ids)
    BY <1>1
  <2> DEFINE x == Needs(r, C[1])
             y == Brings(r, C[1])
             z == Len(C[1].ids)
  <2> HIDE DEF x, y, z
  <2>5. x \in Int /\ y \in Int /\ z \in Nat /\ y = x + z /\ x <= n /\ m >= n + z
    BY <2>2, <2>3, <2>4 DEF x, y, z
  <2>6. y <= m
    BY <2>5
  <2> QED BY <2>5, <2>6 DEF y
<1> HIDE DEF D
<1>3. \A k \in DOMAIN D : k + 1 \in DOMAIN C /\ D[k] = C[k + 1] /\ k \in Nat
  BY <1>1
<1>4. ASSUME NEW b \in Int, NEW k \in Nat, InCommands(r, n, C, k + 1, b)
      PROVE  InCommands(r, m, D, k, b)
  <2>1. CASE b <= n
    <3>1. b <= m
      BY <2>1
    <3> QED BY <3>1 DEF InCommands
  <2>2. ASSUME NEW j \in DOMAIN C, j < k + 1, C[j].op = "append", b <= Brings(r, C[j])
        PROVE  InCommands(r, m, D, k, b)
    <3>1. CASE j = 1
      <4>1. b <= m
        BY <1>2, <2>2, <3>1
      <4> QED BY <4>1 DEF InCommands
    <3>2. CASE j # 1
      <4>1. j - 1 \in DOMAIN D /\ j - 1 < k /\ (j - 1) + 1 = j
        BY <1>1, <2>2, <3>2
      <4>2. D[j - 1] = C[j]
        BY <1>1, <4>1
      <4>3. Supports(r, D, k, b)
        BY <2>2, <4>1, <4>2 DEF Supports
      <4> QED BY <4>3 DEF InCommands
    <3> QED BY <3>1, <3>2
  <2> QED BY <1>4, <2>1, <2>2 DEF InCommands, Supports
<1>5. \A k \in DOMAIN D : Needs(r, D[k]) \in Int
  <2> TAKE k \in DOMAIN D
  <2>1. D[k] \in CommandT /\ Carries(r, D[k]) /\ ToSet(D[k].ids) \subseteq DOMAIN r
    BY <1>3 DEF Queue
  <2> QED BY <2>1, CarriesIs
<1>6. \A k \in DOMAIN D : InCommands(r, m, D, k, Needs(r, D[k]))
  <2> TAKE k \in DOMAIN D
  <2>1. InCommands(r, n, C, k + 1, Needs(r, D[k]))
    BY <1>3 DEF InOrder
  <2> QED BY <1>3, <1>4, <1>5, <2>1
<1>7. ASSUME NEW b \in Int, NEW k, InMailbox(r, n, C, M, k, b)
      PROVE  InMailbox(r, m, D, M, k, b)
  <2>1. CASE InCommands(r, n, C, Len(C) + 1, b)
    <3>1. InCommands(r, m, D, Len(D) + 1, b)
      <4>1. Len(D) + 1 = Len(C) /\ Len(C) \in Nat
        BY <1>1
      <4> QED BY <1>4, <2>1, <4>1
    <3> QED BY <3>1 DEF InMailbox
  <2>2. CASE Supports(r, M, k, b)
    BY <2>2 DEF InMailbox
  <2> QED BY <1>7, <2>1, <2>2 DEF InMailbox
<1>8. \A k \in DOMAIN M : InMailbox(r, m, D, M, k, Needs(r, M[k]))
  <2> TAKE k \in DOMAIN M
  <2>1. M[k] \in CommandT /\ Carries(r, M[k]) /\ ToSet(M[k].ids) \subseteq DOMAIN r
    BY DEF Queue
  <2>2. Needs(r, M[k]) \in Int
    BY <2>1, CarriesIs
  <2>3. InMailbox(r, n, C, M, k, Needs(r, M[k]))
    BY DEF InOrder
  <2> QED BY <1>7, <2>2, <2>3
<1>9. InMailbox(r, m, D, M, Len(M) + 1, last)
  <2>1. last \in Int
    OBVIOUS
  <2>2. InMailbox(r, n, C, M, Len(M) + 1, last)
    BY DEF InOrder
  <2> HIDE DEF last
  <2> QED BY <1>7, <2>1, <2>2
<1> QED BY <1>6, <1>8, <1>9 DEF InOrder, D


\* A command moves from the mailbox to the queue, or a READ past it.
LEMMA OrderTake ==
  ASSUME NEW r, NEW n, NEW C \in Seq(CommandT), NEW M \in Seq(CommandT),
         M # <<>>, NEW K, NEW a, InOrder(r, n, C, M, K, a), Head(M).op # "read"
  PROVE  InOrder(r, n, Append(C, Head(M)), Tail(M), K, a)
<1> DEFINE c == Head(M)
           D == Append(C, c)
           N == Tail(M)
<1>1. /\ Len(M) \in Nat /\ DOMAIN M = 1..Len(M) /\ 1 \in DOMAIN M /\ c = M[1]
      /\ Len(N) = Len(M) - 1 /\ DOMAIN N = 1..Len(N)
      /\ \A i \in DOMAIN N : i + 1 \in DOMAIN M /\ N[i] = M[i + 1]
  OBVIOUS
<1>2. /\ Len(C) \in Nat /\ DOMAIN C = 1..Len(C) /\ Len(D) = Len(C) + 1
      /\ DOMAIN D = 1..(Len(C) + 1) /\ D[Len(C) + 1] = c
      /\ \A i \in DOMAIN C : i \in DOMAIN D /\ D[i] = C[i]
  OBVIOUS
<1> HIDE DEF c, D, N
<1>3. \A j \in DOMAIN M : j = 1 \/ (j - 1 \in DOMAIN N /\ N[j - 1] = M[j])
  <2> TAKE j \in DOMAIN M
  <2>1. j = 1 \/ (j - 1 \in DOMAIN N /\ (j - 1) + 1 = j)
    BY <1>1
  <2> QED BY <1>1, <2>1
<1>4. \A j \in DOMAIN C : j < Len(C) + 1 /\ j < Len(D) + 1
  BY <1>2
<1>5. \A k, b : Supports(r, C, k, b) => Supports(r, D, k, b)
  BY <1>2 DEF Supports
<1>6. \A b : Supports(r, C, Len(C) + 1, b) => Supports(r, D, Len(D) + 1, b)
  BY <1>2, <1>4 DEF Supports
<1>7. \A b : M[1].op = "append" /\ b <= Brings(r, M[1]) =>
        Supports(r, D, Len(D) + 1, b)
  <2>1. Len(C) + 1 \in DOMAIN D /\ Len(C) + 1 < Len(D) + 1
    BY <1>2
  <2> QED BY <1>1, <1>2, <2>1 DEF Supports
<1>8. \A k \in Nat : \A b : InMailbox(r, n, C, M, k + 1, b) => InMailbox(r, n, D, N, k, b)
  <2> SUFFICES ASSUME NEW k \in Nat, NEW b, InMailbox(r, n, C, M, k + 1, b)
               PROVE  InMailbox(r, n, D, N, k, b)
    OBVIOUS
  <2>1. CASE InCommands(r, n, C, Len(C) + 1, b)
    BY <1>6, <2>1 DEF InCommands, InMailbox
  <2>2. ASSUME NEW j \in DOMAIN M, j < k + 1, M[j].op = "append", b <= Brings(r, M[j])
        PROVE  InMailbox(r, n, D, N, k, b)
    <3>1. CASE j = 1
      BY <1>7, <2>2, <3>1 DEF InCommands, InMailbox
    <3>2. CASE j # 1
      <4>1. j - 1 \in DOMAIN N /\ N[j - 1] = M[j] /\ j - 1 < k
        BY <1>1, <1>3, <2>2, <3>2
      <4>2. Supports(r, N, k, b)
        BY <2>2, <4>1 DEF Supports
      <4> QED BY <4>2 DEF InMailbox
    <3> QED BY <3>1, <3>2
  <2> QED BY <2>1, <2>2 DEF InMailbox, Supports
<1>9. \A k \in DOMAIN D : InCommands(r, n, D, k, Needs(r, D[k]))
  <2> TAKE k \in DOMAIN D
  <2>1. CASE k \in DOMAIN C
    BY <1>2, <1>5, <2>1 DEF InCommands, InOrder
  <2>2. CASE k = Len(C) + 1
    <3>1. InMailbox(r, n, C, M, 1, Needs(r, M[1]))
      BY <1>1 DEF InOrder
    <3>2. \A j \in DOMAIN M : ~(j < 1)
      BY <1>1
    <3>3. InCommands(r, n, C, Len(C) + 1, Needs(r, M[1]))
      BY <3>1, <3>2 DEF InMailbox, Supports
    <3> QED BY <1>1, <1>2, <1>5, <2>2, <3>3 DEF InCommands
  <2> QED BY <1>2, <2>1, <2>2
<1>10. \A k \in DOMAIN N : InMailbox(r, n, D, N, k, Needs(r, N[k]))
  <2> TAKE k \in DOMAIN N
  <2>1. k + 1 \in DOMAIN M /\ N[k] = M[k + 1] /\ k \in Nat
    BY <1>1
  <2> QED BY <1>8, <2>1 DEF InOrder
<1>11. InMailbox(r, n, D, N, Len(N) + 1,
                 IF K = <<>> THEN a ELSE r[K[1]].boundary - 1)
  <2>1. Len(N) + 1 \in Nat /\ (Len(N) + 1) + 1 = Len(M) + 1
    BY <1>1
  <2> QED BY <1>8, <2>1 DEF InOrder
<1> QED BY <1>9, <1>10, <1>11 DEF InOrder, c, D, N

LEMMA OrderSkip ==
  ASSUME NEW r, NEW n, NEW C, NEW M \in Seq(CommandT), M # <<>>, NEW K, NEW a,
         InOrder(r, n, C, M, K, a), Head(M).op = "read"
  PROVE  InOrder(r, n, C, Tail(M), K, a)
<1> DEFINE N == Tail(M)
<1>1. /\ Len(M) \in Nat /\ DOMAIN M = 1..Len(M) /\ 1 \in DOMAIN M /\ Head(M) = M[1]
      /\ Len(N) = Len(M) - 1 /\ DOMAIN N = 1..Len(N)
      /\ \A i \in DOMAIN N : i + 1 \in DOMAIN M /\ N[i] = M[i + 1]
  OBVIOUS
<1> HIDE DEF N
<1>2. \A k \in Nat : \A b : InMailbox(r, n, C, M, k + 1, b) => InMailbox(r, n, C, N, k, b)
  <2> SUFFICES ASSUME NEW k \in Nat, NEW b,
                      NEW j \in DOMAIN M, j < k + 1, M[j].op = "append",
                      b <= Brings(r, M[j])
               PROVE  Supports(r, N, k, b)
    BY DEF InMailbox, Supports
  <2>1. j # 1
    BY <1>1
  <2>2. j - 1 \in DOMAIN N /\ j - 1 < k /\ (j - 1) + 1 = j
    BY <1>1, <2>1
  <2>3. N[j - 1] = M[j]
    BY <1>1, <2>2
  <2> QED BY <2>2, <2>3 DEF Supports
<1>3. \A k \in DOMAIN N : InMailbox(r, n, C, N, k, Needs(r, N[k]))
  <2> TAKE k \in DOMAIN N
  <2>1. k + 1 \in DOMAIN M /\ N[k] = M[k + 1] /\ k \in Nat
    BY <1>1
  <2> QED BY <1>2, <2>1 DEF InOrder
<1>4. InMailbox(r, n, C, N, Len(N) + 1,
                IF K = <<>> THEN a ELSE r[K[1]].boundary - 1)
  <2>1. Len(N) + 1 \in Nat /\ (Len(N) + 1) + 1 = Len(M) + 1
    BY <1>1
  <2> QED BY <1>2, <2>1 DEF InOrder
<1> QED BY <1>3, <1>4 DEF InOrder, N

\* FLUSHes go back to the head of the queue: what they wait for is issued.
LEMMA OrderRequeue ==
  ASSUME NEW r, NEW n, NEW C \in Seq(CommandT), NEW W \in Seq(CommandT),
         NEW M, NEW K, NEW a, InOrder(r, n, C, M, K, a),
         \A i \in DOMAIN W : Needs(r, W[i]) <= n
  PROVE  InOrder(r, n, W \o C, M, K, a)
<1> DEFINE D == W \o C
           w == Len(W)
<1>1. /\ w \in Nat /\ DOMAIN W = 1..w /\ Len(C) \in Nat /\ DOMAIN C = 1..Len(C)
      /\ DOMAIN D = 1..(w + Len(C)) /\ Len(D) = w + Len(C)
      /\ \A i \in DOMAIN W : i \in DOMAIN D /\ D[i] = W[i]
      /\ \A i \in DOMAIN C : i + w \in DOMAIN D /\ D[i + w] = C[i]
  OBVIOUS
<1> HIDE DEF D, w
<1>2. \A k \in DOMAIN D :
        (k \in DOMAIN W /\ D[k] = W[k]) \/ (k - w \in DOMAIN C /\ D[k] = C[k - w])
  <2> TAKE k \in DOMAIN D
  <2>1. CASE k <= w
    BY <1>1, <2>1
  <2>2. CASE ~(k <= w)
    <3>1. k - w \in DOMAIN C /\ (k - w) + w = k
      BY <1>1, <2>2
    <3> QED BY <1>1, <3>1
  <2> QED BY <2>1, <2>2
<1>3. \A k \in Nat : \A b : Supports(r, C, k, b) => Supports(r, D, k + w, b)
  <2> SUFFICES ASSUME NEW k \in Nat, NEW b, NEW j \in DOMAIN C, j < k,
                      C[j].op = "append", b <= Brings(r, C[j])
               PROVE  Supports(r, D, k + w, b)
    BY DEF Supports
  <2>1. j + w \in DOMAIN D /\ D[j + w] = C[j] /\ j + w < k + w
    BY <1>1
  <2> QED BY <2>1 DEF Supports
<1>4. \A k \in DOMAIN D : InCommands(r, n, D, k, Needs(r, D[k]))
  <2> TAKE k \in DOMAIN D
  <2>1. CASE k \in DOMAIN W /\ D[k] = W[k]
    BY <2>1 DEF InCommands
  <2>2. CASE k - w \in DOMAIN C /\ D[k] = C[k - w]
    <3>1. k - w \in Nat /\ (k - w) + w = k
      BY <1>1, <2>2
    <3>2. InCommands(r, n, C, k - w, Needs(r, D[k]))
      BY <2>2 DEF InOrder
    <3> QED BY <1>3, <3>1, <3>2 DEF InCommands
  <2> QED BY <1>2, <2>1, <2>2
<1>5. \A k, b : InMailbox(r, n, C, M, k, b) => InMailbox(r, n, D, M, k, b)
  <2>1. Len(C) + 1 \in Nat /\ (Len(C) + 1) + w = Len(D) + 1
    BY <1>1
  <2> QED BY <1>3, <2>1 DEF InMailbox, InCommands
<1> QED BY <1>4, <1>5 DEF InOrder, D

\* An attachment's mark changes nothing a command needs or brings.
LEMMA OrderMark ==
  ASSUME NEW r, NEW n, NEW C \in Seq(CommandT), C # <<>>, NEW M, NEW K, NEW a,
         InOrder(r, n, C, M, K, a)
  PROVE  InOrder(r, n, [C EXCEPT ![1] = [C[1] EXCEPT !.rotated = TRUE]], M, K, a)
<1> DEFINE d == [C[1] EXCEPT !.rotated = TRUE]
           D == [C EXCEPT ![1] = d]
<1>1. 1 \in DOMAIN C /\ C[1] \in CommandT /\ DOMAIN C = 1..Len(C) /\ Len(C) \in Nat
  OBVIOUS
<1>2. d \in CommandT /\ d.op = C[1].op /\ d.ids = C[1].ids /\ d.boundary = C[1].boundary
  BY <1>1 DEF CommandT
<1> HIDE DEF d
<1>3. D \in Seq(CommandT) /\ Len(D) = Len(C)
  BY <1>1, <1>2, ExceptSeq
<1>4. DOMAIN D = DOMAIN C
  OBVIOUS
<1>5. \A k \in DOMAIN C : D[k].op = C[k].op /\ D[k].ids = C[k].ids
                          /\ D[k].boundary = C[k].boundary
  BY <1>1, <1>2
<1> HIDE DEF D
<1>6. \A k \in DOMAIN C : Needs(r, D[k]) = Needs(r, C[k])
                          /\ Brings(r, D[k]) = Brings(r, C[k])
  BY <1>5 DEF Needs, Brings
<1>7. \A k, b : Supports(r, C, k, b) => Supports(r, D, k, b)
  BY <1>4, <1>5, <1>6 DEF Supports
<1>8. \A k \in DOMAIN D : InCommands(r, n, D, k, Needs(r, D[k]))
  BY <1>4, <1>6, <1>7 DEF InOrder, InCommands
<1>9. \A k, b : InMailbox(r, n, C, M, k, b) => InMailbox(r, n, D, M, k, b)
  BY <1>3, <1>7 DEF InMailbox, InCommands
<1> QED BY <1>8, <1>9 DEF InOrder, D, d


\* The queue thread sends a command, seals its batch, admits a mutation, or
\* restarts its ordinals.
LEMMA OrderAppend ==
  ASSUME NEW r, NEW n \in Nat, NEW C, NEW M \in Seq(CommandT), NEW c \in CommandT,
         NEW K, NEW a, NEW d,
         \A k \in DOMAIN C : InCommands(r, n, C, k, Needs(r, C[k])),
         \A k \in DOMAIN M : InMailbox(r, n, C, M, k, Needs(r, M[k])),
         InMailbox(r, n, C, M, Len(M) + 1, a), Needs(r, c) \in {0, a},
         InMailbox(r, n, C, M, Len(M) + 1, d)
           \/ (c.op = "append" /\ d <= Brings(r, c))
  PROVE  InOrder(r, n, C, Append(M, c), <<>>, d)
<1> DEFINE N == Append(M, c)
<1>1. /\ Len(M) \in Nat /\ DOMAIN M = 1..Len(M) /\ Len(N) = Len(M) + 1
      /\ DOMAIN N = 1..(Len(M) + 1) /\ N[Len(M) + 1] = c
      /\ \A i \in DOMAIN M : i \in DOMAIN N /\ N[i] = M[i]
  OBVIOUS
<1> HIDE DEF N
<1>2. \A k, b : Supports(r, M, k, b) => Supports(r, N, k, b)
  BY <1>1 DEF Supports
<1>3. \A k, b : InMailbox(r, n, C, M, k, b) => InMailbox(r, n, C, N, k, b)
  BY <1>2 DEF InMailbox
<1>4. InMailbox(r, n, C, N, Len(M) + 1, 0)
  BY DEF InMailbox, InCommands
<1>5. \A k \in DOMAIN N : InMailbox(r, n, C, N, k, Needs(r, N[k]))
  <2> TAKE k \in DOMAIN N
  <2>1. CASE k \in DOMAIN M
    BY <1>1, <1>3, <2>1
  <2>2. CASE k = Len(M) + 1
    BY <1>1, <1>3, <1>4, <2>2
  <2> QED BY <1>1, <2>1, <2>2
<1>6. InMailbox(r, n, C, N, Len(N) + 1, d)
  <2>1. CASE InMailbox(r, n, C, M, Len(M) + 1, d)
    <3>1. \A j \in DOMAIN M : j < Len(M) + 1 /\ j < Len(N) + 1
      BY <1>1
    <3>2. Supports(r, M, Len(M) + 1, d) => Supports(r, N, Len(N) + 1, d)
      BY <1>1, <3>1 DEF Supports
    <3> QED BY <2>1, <3>2 DEF InMailbox
  <2>2. CASE c.op = "append" /\ d <= Brings(r, c)
    <3>1. Len(M) + 1 \in DOMAIN N /\ Len(M) + 1 < Len(N) + 1
      BY <1>1
    <3>2. Supports(r, N, Len(N) + 1, d)
      BY <1>1, <2>2, <3>1 DEF Supports
    <3> QED BY <3>2 DEF InMailbox
  <2> QED BY <2>1, <2>2
<1> QED BY <1>5, <1>6 DEF InOrder, N

LEMMA OrderSend ==
  ASSUME NEW r, NEW n \in Nat, NEW C, NEW M \in Seq(CommandT), NEW c \in CommandT,
         NEW a, InOrder(r, n, C, M, <<>>, a), Needs(r, c) \in {0, a}
  PROVE  InOrder(r, n, C, Append(M, c), <<>>, a)
BY OrderAppend DEF InOrder

LEMMA OrderSeal ==
  ASSUME NEW r \in Seq(RequestT), NEW n \in Nat, NEW C, NEW M \in Seq(CommandT),
         NEW K \in Seq(Nat), K # <<>>, Batch(r, K), ToSet(K) \subseteq DOMAIN r,
         NEW a \in Nat, InOrder(r, n, C, M, K, a)
  PROVE  InOrder(r, n, C, Append(M, Command("append", K, 0)), <<>>, a)
<1> DEFINE c == Command("append", K, 0)
<1>1. c \in CommandT /\ c.op = "append" /\ c.ids = K
  BY CommandType DEF Command
<1> HIDE DEF c
<1>2. Needs(r, c) = r[K[1]].boundary - 1 /\ Brings(r, c) = a
  BY <1>1 DEF Needs, Brings, InOrder
<1>3. InMailbox(r, n, C, M, Len(M) + 1, Needs(r, c))
  BY <1>2 DEF InOrder
<1>4. a <= Brings(r, c)
  BY <1>2
<1> QED BY <1>1, <1>3, <1>4, OrderAppend DEF InOrder, c

\* A batch is all a request list that grows keeps.
LEMMA OrderGrow ==
  ASSUME NEW r \in Seq(RequestT), NEW x \in RequestT, NEW n, NEW C, Queue(r, C),
         NEW M, Queue(r, M), NEW K \in Seq(Nat), ToSet(K) \subseteq DOMAIN r, NEW a,
         InOrder(r, n, C, M, K, a)
  PROVE  InOrder(Append(r, x), n, C, M, K, a)
<1> DEFINE s == Append(r, x)
<1>1. \A i \in DOMAIN r : s[i] = r[i]
  OBVIOUS
<1>2. \A k \in DOMAIN C : Needs(s, C[k]) = Needs(r, C[k])
  BY CarriesGrows DEF Queue
<1>3. \A k \in DOMAIN M : Needs(s, M[k]) = Needs(r, M[k])
  BY CarriesGrows DEF Queue
<1>4. \A k, b : Supports(r, C, k, b) => Supports(s, C, k, b)
  BY SupportsGrows
<1>5. \A k, b : Supports(r, M, k, b) => Supports(s, M, k, b)
  BY SupportsGrows
<1> HIDE DEF s
<1>6. K # <<>> => s[K[1]] = r[K[1]]
  <2>1. K # <<>> => 1 \in DOMAIN K
    OBVIOUS
  <2> QED BY <1>1, <2>1 DEF ToSet
<1>7. \A k, b : InCommands(r, n, C, k, b) => InCommands(s, n, C, k, b)
  BY <1>4 DEF InCommands
<1>8. \A k, b : InMailbox(r, n, C, M, k, b) => InMailbox(s, n, C, M, k, b)
  BY <1>5, <1>7 DEF InMailbox
<1>9. \A k \in DOMAIN C : InCommands(s, n, C, k, Needs(s, C[k]))
  BY <1>2, <1>7 DEF InOrder
<1>10. \A k \in DOMAIN M : InMailbox(s, n, C, M, k, Needs(s, M[k]))
  BY <1>3, <1>8 DEF InOrder
<1>11. InMailbox(s, n, C, M, Len(M) + 1,
                 IF K = <<>> THEN a ELSE s[K[1]].boundary - 1)
  <2>1. CASE K = <<>>
    BY <1>8, <2>1 DEF InOrder
  <2>2. CASE K # <<>>
    BY <1>6, <1>8, <2>2 DEF InOrder
  <2> QED BY <2>1, <2>2
<1>12. K # <<>> => a = s[K[1]].boundary + Len(K) - 1
  BY <1>6 DEF InOrder
<1> QED BY <1>9, <1>10, <1>11, <1>12 DEF InOrder, s

LEMMA OrderPack ==
  ASSUME NEW r, NEW n, NEW C, NEW M, NEW K \in Seq(Nat), NEW a \in Nat, NEW id \in Nat,
         r[id].boundary = a + 1, K # <<>> => r[K[1]].boundary \in Nat,
         InOrder(r, n, C, M, K, a)
  PROVE  InOrder(r, n, C, M, Append(K, id), a + 1)
<1> DEFINE L == Append(K, id)
<1>1. L # <<>> /\ Len(L) = Len(K) + 1 /\ Len(K) \in Nat
  BY AppendProperties
<1>2. CASE K = <<>>
  <2>1. L[1] = id /\ Len(K) = 0
    BY <1>2
  <2> HIDE DEF L
  <2>2. r[L[1]].boundary - 1 = a /\ a + 1 = r[L[1]].boundary + Len(L) - 1
    BY <1>1, <2>1
  <2> QED BY <1>1, <1>2, <2>2 DEF InOrder, L
<1>3. CASE K # <<>>
  <2>1. L[1] = K[1]
    BY <1>3
  <2> DEFINE x == r[K[1]].boundary
  <2>2. x \in Nat /\ a = x + Len(K) - 1 /\ r[L[1]].boundary = x
    BY <1>3, <2>1 DEF InOrder
  <2> HIDE DEF L, x
  <2>3. a + 1 = x + Len(L) - 1
    BY <1>1, <2>2
  <2>4. a + 1 = r[L[1]].boundary + Len(L) - 1
    BY <2>2, <2>3
  <2>5. InMailbox(r, n, C, M, Len(M) + 1, r[L[1]].boundary - 1)
    BY <1>3, <2>1 DEF InOrder
  <2> QED BY <1>1, <2>4, <2>5 DEF InOrder, L
<1> QED BY <1>2, <1>3

LEMMA OrderReset ==
  ASSUME NEW r, NEW n, NEW C, NEW M, NEW a, NEW d, d <= n,
         InOrder(r, n, C, M, <<>>, a)
  PROVE  InOrder(r, n, C, M, <<>>, d)
BY DEF InOrder, InMailbox, InCommands


-----------------------------------------------------------------------------
(* What a step keeps of each part of the invariant                         *)

LEMMA Requests ==
  ASSUME TypeOK, OwnedUnanswered
  PROVE  /\ \A i \in DOMAIN reqs : reqs[i] \in RequestT /\ reqs[i].boundary \in Nat
         /\ Unanswered \subseteq DOMAIN reqs
         /\ IdsOf(mailbox) \subseteq DOMAIN reqs /\ IdsOf(re.commands) \subseteq DOMAIN reqs
         /\ IdsOf(re.reads) \subseteq DOMAIN reqs /\ IdsOf(re.pending) \subseteq DOMAIN reqs
         /\ Packed \subseteq DOMAIN reqs
<1>1. \A i \in DOMAIN reqs : reqs[i] \in RequestT
  BY DEF TypeOK
<1> QED BY <1>1 DEF RequestT, OwnedUnanswered, Unanswered

\* The requests of X are answered, truthfully.
LEMMA Answering ==
  ASSUME TypeOK, Fresh, AnswersHonest, NEW X, X \subseteq Unanswered,
         NEW res \in {"ok", "err"}, answer' = Answer(answer, X, res), reqs' = reqs,
         log' \in LogT, log.durable <= log'.durable, log.published <= log'.published,
         res = "ok" => \A i \in X : IF reqs[i].kind = "flush"
                                      THEN log'.durable >= reqs[i].boundary
                                      ELSE log'.published >= reqs[i].boundary
  PROVE  Unanswered' = Unanswered \ X /\ Fresh' /\ AnswersHonest'
<1>1. /\ reqs \in Seq(RequestT) /\ answer \in [Ids -> Seq({"ok", "err"})]
      /\ DOMAIN reqs = 1..Len(reqs) /\ Len(reqs) \in Nat
  BY DEF TypeOK
<1>2. DOMAIN reqs \subseteq Ids
  BY <1>1, ReactorConstants DEF Fresh, Ids
<1>3. \A i \in Ids : answer'[i] = IF i \in X THEN Append(answer[i], res) ELSE answer[i]
  BY DEF Answer
<1>4. \A i \in X : i \in DOMAIN reqs /\ answer[i] = <<>>
  BY DEF Unanswered
<1>5. \A i \in X : answer'[i] = <<res>> /\ answer'[i] # <<>>
  <2> TAKE i \in X
  <2>1. answer'[i] = Append(<<>>, res)
    BY <1>2, <1>3, <1>4
  <2>2. Append(<<>>, res) = <<res>> /\ Append(<<>>, res) # <<>>
    OBVIOUS
  <2> QED BY <2>1, <2>2
<1>6. Unanswered' = Unanswered \ X
  <2>1. \A i \in DOMAIN reqs : answer'[i] = <<>> <=> (answer[i] = <<>> /\ i \notin X)
    BY <1>2, <1>3, <1>5
  <2> QED BY <2>1 DEF Unanswered
<1>7. Fresh'
  BY <1>3, <1>4 DEF Fresh
<1>8. AnswersHonest'
  <2> SUFFICES ASSUME NEW i \in DOMAIN reqs
               PROVE  /\ Len(answer'[i]) <= 1
                      /\ answer'[i] = <<"ok">> =>
                           IF reqs[i].kind = "flush"
                             THEN log'.durable >= reqs[i].boundary
                             ELSE log'.published >= reqs[i].boundary
    BY DEF AnswersHonest
  <2>1. CASE i \in X
    <3>1. answer'[i] = <<res>>
      BY <1>5, <2>1
    <3>2. Len(<<res>>) <= 1 /\ (<<res>> = <<"ok">> => res = "ok")
      OBVIOUS
    <3> QED BY <2>1, <3>1, <3>2
  <2>2. CASE i \notin X
    <3>1. answer'[i] = answer[i]
      BY <1>2, <1>3, <2>2
    <3>2. reqs[i] \in RequestT
      BY <1>1
    <3>3. reqs[i].boundary \in Nat /\ log.durable \in Nat /\ log.published \in Nat
          /\ log'.durable \in Nat /\ log'.published \in Nat
      BY <3>2 DEF RequestT, TypeOK, LogT
    <3>4. /\ log.durable >= reqs[i].boundary => log'.durable >= reqs[i].boundary
          /\ log.published >= reqs[i].boundary => log'.published >= reqs[i].boundary
      BY <3>3
    <3> QED BY <3>1, <3>4 DEF AnswersHonest
  <2> QED BY <2>1, <2>2
<1> QED BY <1>6, <1>7, <1>8

LEMMA Silent ==
  ASSUME TypeOK, Fresh, AnswersHonest, answer' = answer, reqs' = reqs,
         log'.durable = log.durable, log'.published = log.published
  PROVE  Unanswered' = Unanswered /\ Fresh' /\ AnswersHonest'
BY DEF Unanswered, Fresh, AnswersHonest

\* No owner takes a request it had not.
LEMMA OwnersShrink ==
  ASSUME OwnedOnce, OwnedUnanswered, NEW X, Unanswered' = Unanswered \ X,
         Packed' \subseteq Packed \ X,
         Apart(mailbox'), IdsOf(mailbox') \subseteq IdsOf(mailbox) \ X,
         Apart(re'.commands), IdsOf(re'.commands) \subseteq IdsOf(re.commands) \ X,
         Apart(re'.reads), IdsOf(re'.reads) \subseteq IdsOf(re.reads) \ X,
         Apart(re'.pending), IdsOf(re'.pending) \subseteq IdsOf(re.pending) \ X
  PROVE  OwnedOnce' /\ OwnedUnanswered'
<1>1. Separate(Packed', IdsOf(mailbox'), IdsOf(re'.commands), IdsOf(re'.reads),
               IdsOf(re'.pending))
  <2>1. Separate(Packed, IdsOf(mailbox), IdsOf(re.commands), IdsOf(re.reads),
                 IdsOf(re.pending))
    BY DEF OwnedOnce
  <2> QED BY <2>1 DEF Separate
<1>2. IdsOf(mailbox)' = IdsOf(mailbox') /\ IdsOf(re.commands)' = IdsOf(re'.commands)
      /\ IdsOf(re.reads)' = IdsOf(re'.reads) /\ IdsOf(re.pending)' = IdsOf(re'.pending)
  BY DEF IdsOf
<1>3. OwnedOnce'
  BY <1>1, <1>2 DEF OwnedOnce
<1>4. OwnedUnanswered'
  BY <1>2 DEF OwnedUnanswered
<1> QED BY <1>3, <1>4

LEMMA CarriedKeep ==
  ASSUME Carried, reqs' = reqs,
         front'.packing = <<>>
           \/ (front'.packing = front.packing /\ front'.admitted = front.admitted),
         \A i \in DOMAIN mailbox' : \E j \in DOMAIN mailbox : mailbox'[i] = mailbox[j],
         \A i \in DOMAIN re'.commands :
           \E j \in DOMAIN re.commands : re'.commands[i] = re.commands[j],
         \A i \in DOMAIN re'.reads :
           \E j \in DOMAIN re.reads : re'.reads[i] = re.reads[j]
  PROVE  Carried'
BY DEF Carried

\* Owners keep what they hold.
Keeps(p, q) ==
  /\ DOMAIN q \subseteq DOMAIN p
  /\ \A t \in DOMAIN q : q[t].op = p[t].op /\ q[t].ids = p[t].ids
                         /\ q[t].last = p[t].last

LEMMA KeepsIds ==
  ASSUME NEW p, NEW q, Keeps(p, q)
  PROVE  /\ IdsOf(q) \subseteq IdsOf(p) /\ (Apart(p) => Apart(q))
         /\ Apart(p) => \A k \in DOMAIN p \ DOMAIN q :
                          ToSet(p[k].ids) \cap IdsOf(q) = {}
BY SubIds DEF Keeps

LEMMA PendingKeep ==
  ASSUME TypeOK, OwnedUnanswered, PendingTrue, reqs' = reqs,
         Keeps(re.pending, re'.pending), re.failed => re'.failed,
         log' \in LogT, log.published <= log'.published
  PROVE  PendingTrue'
<1> DEFINE p == re.pending
           q == re'.pending
<1>1. \A t \in DOMAIN q : t \in DOMAIN p /\ q[t].op = p[t].op /\ q[t].ids = p[t].ids
                          /\ q[t].last = p[t].last
  BY DEF Keeps
<1> HIDE DEF q
<1>2. ASSUME NEW t \in DOMAIN q, NEW i \in ToSet(q[t].ids)
      PROVE  /\ q[t].op = "append" => /\ reqs[i].kind \in {"write", "zero"}
                                      /\ re'.failed \/ reqs[i].boundary <= q[t].last
             /\ q[t].op = "fence" => /\ reqs[i].kind = "flush"
                                     /\ re'.failed \/ reqs[i].boundary <= q[t].last
             /\ q[t].op = "read" => /\ reqs[i].kind = "read"
                                    /\ reqs[i].boundary <= log'.published
  <2>1. t \in DOMAIN p /\ i \in ToSet(p[t].ids) /\ i \in IdsOf(p)
    BY <1>1, <1>2 DEF IdsOf
  <2>2. reqs[i].boundary \in Nat
    BY <2>1, Requests
  <2>3. Truthful(reqs, p[t], re.failed, log.published)
    BY <2>1 DEF PendingTrue
  <2>4. log.published \in Nat /\ log'.published \in Nat
    BY DEF TypeOK, LogT
  <2>5. reqs[i].boundary <= log.published => reqs[i].boundary <= log'.published
    BY <2>2, <2>4
  <2> QED BY <1>1, <2>1, <2>3, <2>5 DEF Truthful
<1> QED BY <1>2 DEF PendingTrue, Truthful, q

LEMMA FrontierKeep ==
  ASSUME Frontier, KernelInv', Keeps(re.pending, re'.pending),
         re'.failed \/ (re'.failed = re.failed /\ re'.appends = re.appends),
         log'.issued = log.issued, log'.published = log.published,
         log'.durable = log.durable,
         log'.cohort = log.cohort \/ \A t \in DOMAIN re.pending :
                                       re.pending[t].op # "fence"
  PROVE  Frontier'
<1> DEFINE p == re.pending
           q == re'.pending
<1>1. \A t \in DOMAIN q : t \in DOMAIN p /\ q[t].op = p[t].op
                          /\ q[t].last = p[t].last
  BY DEF Keeps
<1> HIDE DEF q
<1>2. OneFence(log', q)
  BY <1>1 DEF Frontier, OneFence
<1>3. ASSUME ~re'.failed
      PROVE  Ascending(log', q, re'.appends)
  <2>1. ~re.failed /\ re'.appends = re.appends
    BY <1>3
  <2>2. \A i \in DOMAIN re.appends : re.appends[i] \in DOMAIN q
    BY <1>3, <2>1 DEF KernelInv, OrderedAppends, q
  <2>3. Ascending(log, p, re.appends)
    BY <2>1 DEF Frontier
  <2> QED BY <1>1, <2>1, <2>2, <2>3 DEF Ascending
<1>4. OneFence(log, re.pending)' /\ (~re'.failed => Ascending(log, re.pending, re.appends)')
  BY <1>2, <1>3 DEF OneFence, Ascending, q
<1> QED BY <1>4 DEF Frontier

\* The order of the queue when neither side moved.
LEMMA SupportedKeep ==
  ASSUME Supported, reqs' = reqs, mailbox' = mailbox, re'.commands = re.commands,
         log'.issued = log.issued, front'.packing = front.packing,
         front'.admitted = front.admitted, re.failed => re'.failed,
         re.pc = "gone" => re'.pc = "gone"
  PROVE  Supported'
BY DEF Supported, Live

LEMMA BarrierKeep ==
  ASSUME OneBarrier, front'.packing = front.packing,
         front'.barrier = "none" <=> front.barrier = "none",
         mailbox' = mailbox, re'.commands = re.commands
  PROVE  OneBarrier'
BY DEF OneBarrier


-----------------------------------------------------------------------------
(* No step answers twice or untruthfully                                   *)

\* A step that answers nothing and moves no request.
LEMMA AnswersSame ==
  ASSUME TypeOK, TypeOK', AnswersInv, KernelInv', UNCHANGED <<reqs, answer, mailbox>>,
         front'.packing = front.packing, front'.admitted = front.admitted,
         front'.barrier = "none" <=> front.barrier = "none",
         re'.commands = re.commands, re'.reads = re.reads,
         Keeps(re.pending, re'.pending), re.failed => re'.failed,
         re'.failed \/ (re'.failed = re.failed /\ re'.appends = re.appends),
         re.pc = "gone" => re'.pc = "gone",
         log'.issued = log.issued, log'.published = log.published,
         log'.durable = log.durable,
         log'.cohort = log.cohort \/ \A t \in DOMAIN re.pending :
                                       re.pending[t].op # "fence",
         CohortOwned'
  PROVE  AnswersInv'
<1>1. Unanswered' = Unanswered /\ Fresh' /\ AnswersHonest'
  BY Silent DEF AnswersInv
<1>2. IdsOf(re'.pending) \subseteq IdsOf(re.pending) /\ Apart(re'.pending)
  BY KeepsIds DEF AnswersInv, OwnedOnce
<1>3. OwnedOnce' /\ OwnedUnanswered'
  <2>1. Unanswered' = Unanswered \ {} /\ Packed' \subseteq Packed \ {}
    BY <1>1 DEF Packed
  <2>2. /\ Apart(mailbox') /\ IdsOf(mailbox') \subseteq IdsOf(mailbox) \ {}
        /\ Apart(re'.commands) /\ IdsOf(re'.commands) \subseteq IdsOf(re.commands) \ {}
        /\ Apart(re'.reads) /\ IdsOf(re'.reads) \subseteq IdsOf(re.reads) \ {}
        /\ IdsOf(re'.pending) \subseteq IdsOf(re.pending) \ {}
    BY <1>2 DEF AnswersInv, OwnedOnce
  <2> QED BY <1>2, <2>1, <2>2, OwnersShrink DEF AnswersInv
<1>4. Carried'
  BY CarriedKeep DEF AnswersInv
<1>5. Supported' /\ OneBarrier'
  BY SupportedKeep, BarrierKeep DEF AnswersInv
<1>6. PendingTrue'
  <2>1. log' \in LogT /\ log.published <= log'.published
    BY DEF TypeOK, LogT
  <2> QED BY <2>1, PendingKeep DEF AnswersInv
<1>7. Frontier'
  BY FrontierKeep DEF AnswersInv
<1> QED BY <1>1, <1>3, <1>4, <1>5, <1>6, <1>7 DEF AnswersInv

LEMMA KeepsRefl ==
  ASSUME NEW p
  PROVE  Keeps(p, p)
BY DEF Keeps

LEMMA SteadyAnswers ==
  ASSUME TypeOK, TypeOK', AnswersInv, KernelInv', Steady
  PROVE  AnswersInv'
<1>1. CohortOwned'
  BY DEF Steady, Same, CohortOwned, AnswersInv
<1>2. Keeps(re.pending, re'.pending)
  BY KeepsRefl DEF Steady, Same
<1> QED BY <1>1, <1>2, AnswersSame DEF Steady, Same

\* The kernel, the worker, the collector, the gate and a timeout.
LEMMA QuietAnswers ==
  ASSUME TypeOK, TypeOK', AnswersInv, KernelInv',
         UNCHANGED <<reqs, answer, mailbox, log, re>>,
         front'.packing = front.packing, front'.admitted = front.admitted,
         front.barrier # "none" => front'.barrier # "none",
         front'.barrier # "none" => front.barrier # "none"
  PROVE  AnswersInv'
<1>1. CohortOwned' /\ Keeps(re.pending, re'.pending)
  BY KeepsRefl DEF CohortOwned, AnswersInv
<1> QED BY <1>1, AnswersSame

LEMMA ReapingAnswers ==
  ASSUME TypeOK, TypeOK', AnswersInv, KernelInv', Reaping,
         UNCHANGED <<front, reqs, answer, mailbox, log>>
  PROVE  AnswersInv'
<1>1. Keeps(re.pending, re'.pending) /\ DOMAIN re'.pending = DOMAIN re.pending
  <2> DEFINE p == re.pending
             P == re'.pending
  <2>1. DOMAIN P = DOMAIN p
    BY DEF Reaping, ReapedPending
  <2>2. \A t \in DOMAIN p : P[t].op = p[t].op /\ P[t].ids = p[t].ids
                            /\ P[t].last = p[t].last
    <3> TAKE t \in DOMAIN p
    <3> DEFINE hit == \E c \in cqes : c.token = t
    <3>1. P[t] = [p[t] EXCEPT !.ready = @ \/ hit]
      BY DEF Reaping, ReapedPending
    <3>2. p[t] \in WorkT
      BY PendingElem DEF TypeOK, ReactorT
    <3> HIDE DEF hit, p, P
    <3> QED BY <3>1, <3>2 DEF WorkT
  <2> QED BY <2>1, <2>2 DEF Keeps
<1>2. CohortOwned'
  <2>1. re'.cohort = re.cohort /\ re.pc \notin {"stop", "close", "drop", "gone"}
    BY DEF Reaping
  <2> QED BY <1>1, <2>1 DEF CohortOwned, AnswersInv, Keeps
<1>3. re.failed => re'.failed
  BY DEF Reaping
<1>4. re'.failed \/ (re'.failed = re.failed /\ re'.appends = re.appends)
  BY DEF Reaping
<1> QED BY <1>1, <1>2, <1>3, <1>4, AnswersSame DEF Reaping

LEMMA LeftAnswers ==
  ASSUME TypeOK, TypeOK', AnswersInv, KernelInv', NEW t, Finishing(t), Left(t),
         re.pc = "finish", UNCHANGED <<front, reqs, mailbox>>
  PROVE  AnswersInv'
<1>1. CohortOwned' /\ Keeps(re.pending, re'.pending)
  BY KeepsRefl DEF CohortOwned, AnswersInv, Left, Same
<1> QED BY <1>1, AnswersSame DEF Left, Same

LEMMA ResubmittedAnswers ==
  ASSUME TypeOK, TypeOK', AnswersInv, KernelInv', NEW t \in DOMAIN re.pending,
         Finishing(t), Resubmitted(t), re.pc = "finish",
         UNCHANGED <<front, reqs, mailbox>>
  PROVE  AnswersInv'
<1> DEFINE p == re.pending
           P == re'.pending
<1>0. p[t] \in WorkT
  BY PendingElem DEF TypeOK, ReactorT
<1>1. /\ DOMAIN P = DOMAIN p
      /\ \A k \in DOMAIN p : P[k].op = p[k].op /\ P[k].ids = p[k].ids
                             /\ P[k].last = p[k].last
  <2>1. CASE P = [p EXCEPT ![t] = [p[t] EXCEPT !.left = @ - 1, !.ready = FALSE]]
    <3> DEFINE v == [p[t] EXCEPT !.left = @ - 1, !.ready = FALSE]
    <3>1. v.op = p[t].op /\ v.ids = p[t].ids /\ v.last = p[t].last
      BY <1>0 DEF WorkT
    <3> HIDE DEF v
    <3>2. P = [p EXCEPT ![t] = v]
      BY <2>1 DEF v
    <3> HIDE DEF P
    <3> QED BY <3>1, <3>2
  <2>2. CASE P = [p EXCEPT ![t] = [p[t] EXCEPT !.syncing = TRUE, !.ready = FALSE]]
    <3> DEFINE v == [p[t] EXCEPT !.syncing = TRUE, !.ready = FALSE]
    <3>1. v.op = p[t].op /\ v.ids = p[t].ids /\ v.last = p[t].last
      BY <1>0 DEF WorkT
    <3> HIDE DEF v
    <3>2. P = [p EXCEPT ![t] = v]
      BY <2>2 DEF v
    <3> HIDE DEF P
    <3> QED BY <3>1, <3>2
  <2> QED BY <2>1, <2>2 DEF Resubmitted
<1>2. Keeps(re.pending, re'.pending)
  BY <1>1 DEF Keeps
<1>3. CohortOwned'
  <2>1. re'.cohort = re.cohort
    BY DEF Resubmitted
  <2> QED BY <1>1, <2>1 DEF CohortOwned, AnswersInv
<1>4. re'.commands = re.commands /\ re'.reads = re.reads
  BY DEF Finishing
<1> QED BY <1>2, <1>3, <1>4, AnswersSame DEF Resubmitted

LEMMA SubmitBulkAnswers ==
  ASSUME TypeOK, TypeOK', AnswersInv, KernelInv', SubmitBulk
  PROVE  AnswersInv'
<1>1. /\ re'.pc = re.pc /\ re'.commands = re.commands /\ re'.reads = re.reads
      /\ re'.pending = re.pending /\ re'.appends = re.appends
      /\ re'.cohort = re.cohort /\ re'.failed = re.failed
      /\ UNCHANGED <<front, reqs, answer, mailbox, log>>
  BY SubmitBulkIs
<1>2. CohortOwned' /\ Keeps(re.pending, re'.pending)
  BY <1>1, KeepsRefl DEF CohortOwned, AnswersInv
<1> QED BY <1>1, <1>2, AnswersSame

LEMMA StopAnswers ==
  ASSUME TypeOK, TypeOK', AnswersInv, KernelInv', Stop
  PROVE  AnswersInv'
<1>1. /\ re.pc = "stop" /\ re'.pc = "close" /\ re'.commands = re.commands
      /\ re'.reads = re.reads /\ re'.pending = re.pending /\ re'.failed
      /\ UNCHANGED <<front, reqs, answer, mailbox, log>>
  BY StopIs
<1>2. CohortOwned' /\ Keeps(re.pending, re'.pending)
  BY <1>1, KeepsRefl DEF CohortOwned
<1> QED BY <1>1, <1>2, AnswersSame


\* An owner is given up with an answer that is true.
LEMMA GivenAnswers ==
  ASSUME TypeOK, TypeOK', AnswersInv, NEW t \in DOMAIN re.pending,
         re'.pending = Without(re.pending, t), NEW res \in {"ok", "err"},
         answer' = Answer(answer, ToSet(re.pending[t].ids), res),
         UNCHANGED <<front, reqs, mailbox>>,
         re'.commands = re.commands, re'.reads = re.reads,
         re.failed => re'.failed, re.pc # "gone", log'.issued = log.issued,
         log.durable <= log'.durable, log.published <= log'.published,
         res = "ok" => \A i \in ToSet(re.pending[t].ids) :
                         IF reqs[i].kind = "flush"
                           THEN log'.durable >= reqs[i].boundary
                           ELSE log'.published >= reqs[i].boundary,
         CohortOwned', Frontier'
  PROVE  AnswersInv'
<1> DEFINE X == ToSet(re.pending[t].ids)
<1>0. log' \in LogT /\ re.pending \in PendingT
  BY DEF TypeOK, ReactorT
<1>1. Keeps(re.pending, re'.pending) /\ t \in DOMAIN re.pending \ DOMAIN re'.pending
  <2> DEFINE p == re.pending
             P == re'.pending
  <2>1. P = Without(p, t) /\ p \in PendingT
    BY <1>0
  <2>2. DOMAIN P = DOMAIN p \ {t} /\ \A k \in DOMAIN p \ {t} : P[k] = p[k]
    <3> HIDE DEF P, p
    <3> QED BY <2>1, WithoutIs
  <2> QED BY <2>2 DEF Keeps
<1>2. /\ IdsOf(re'.pending) \subseteq IdsOf(re.pending) /\ Apart(re'.pending)
      /\ X \cap IdsOf(re'.pending) = {}
  BY <1>1, KeepsIds DEF AnswersInv, OwnedOnce
<1>3. X \subseteq IdsOf(re.pending) /\ X \subseteq Unanswered
  <2>1. X \subseteq IdsOf(re.pending)
    BY DEF IdsOf
  <2> QED BY <2>1 DEF AnswersInv, OwnedUnanswered
<1>4. Unanswered' = Unanswered \ X /\ Fresh' /\ AnswersHonest'
  BY <1>0, <1>3, Answering DEF AnswersInv
<1> HIDE DEF X
<1>5. OwnedOnce' /\ OwnedUnanswered'
  <2>1. Separate(Packed, IdsOf(mailbox), IdsOf(re.commands), IdsOf(re.reads),
                 IdsOf(re.pending))
    BY DEF AnswersInv, OwnedOnce
  <2>2. Packed' \subseteq Packed \ X
    BY <1>3, <2>1 DEF Separate, Packed
  <2>3. /\ Apart(mailbox') /\ IdsOf(mailbox') \subseteq IdsOf(mailbox) \ X
        /\ Apart(re'.commands) /\ IdsOf(re'.commands) \subseteq IdsOf(re.commands) \ X
        /\ Apart(re'.reads) /\ IdsOf(re'.reads) \subseteq IdsOf(re.reads) \ X
        /\ IdsOf(re'.pending) \subseteq IdsOf(re.pending) \ X
    BY <1>2, <1>3, <2>1 DEF AnswersInv, OwnedOnce, Separate
  <2> QED BY <1>2, <1>4, <2>2, <2>3, OwnersShrink DEF AnswersInv
<1>6. Carried' /\ Supported' /\ OneBarrier'
  BY CarriedKeep, SupportedKeep, BarrierKeep DEF AnswersInv
<1>7. PendingTrue'
  BY <1>0, <1>1, PendingKeep DEF AnswersInv
<1> QED BY <1>4, <1>5, <1>6, <1>7 DEF AnswersInv

\* What a published or synced owner says is true.
LEMMA OwnerTrue ==
  ASSUME TypeOK, OwnedUnanswered, PendingTrue, ~re.failed,
         NEW t \in DOMAIN re.pending
  PROVE  \A i \in ToSet(re.pending[t].ids) :
           /\ reqs[i].boundary \in Nat
           /\ re.pending[t].op = "append" =>
                reqs[i].kind # "flush" /\ reqs[i].boundary <= re.pending[t].last
           /\ re.pending[t].op = "fence" =>
                reqs[i].kind = "flush" /\ reqs[i].boundary <= re.pending[t].last
           /\ re.pending[t].op = "read" =>
                reqs[i].kind # "flush" /\ reqs[i].boundary <= log.published
<1> TAKE i \in ToSet(re.pending[t].ids)
<1>1. i \in IdsOf(re.pending)
  BY DEF IdsOf
<1>2. reqs[i].boundary \in Nat
  BY <1>1, Requests
<1>3. Truthful(reqs, re.pending[t], re.failed, log.published)
  BY DEF PendingTrue
<1> QED BY <1>2, <1>3 DEF Truthful

LEMMA PublishAnswers ==
  ASSUME TypeOK, TypeOK', AnswersInv, KernelInv, KernelInv', PublishAppend
  PROVE  AnswersInv'
<1> DEFINE t == Head(re.appends)
           a == Tail(re.appends)
           p == re.pending
           P == re'.pending
           x == re.pending[t].last
<1>1. /\ re.appends # <<>> /\ ~re.failed /\ t \in DOMAIN p /\ p[t].op = "append"
      /\ log' = [log EXCEPT !.published = x]
      /\ answer' = Answer(answer, ToSet(p[t].ids), "ok")
      /\ re'.appends = a /\ P = Without(p, t) /\ re'.commands = re.commands
      /\ re'.reads = re.reads /\ re'.cohort = re.cohort /\ re'.failed = re.failed
      /\ re'.pc = "publish" /\ re.pc = "publish" /\ UNCHANGED <<front, reqs, mailbox>>
  BY PublishAppendIs
<1>2. re.appends \in Seq(Nat) /\ p \in PendingT /\ log \in LogT
  BY DEF TypeOK, ReactorT
<1>3. /\ Len(re.appends) \in Nat /\ DOMAIN re.appends = 1..Len(re.appends)
      /\ 1 \in DOMAIN re.appends /\ t = re.appends[1]
      /\ DOMAIN a = 1..(Len(re.appends) - 1)
      /\ \A i \in DOMAIN a : a[i] = re.appends[i + 1]
  BY <1>1, <1>2
<1>4. DOMAIN P = DOMAIN p \ {t} /\ \A k \in DOMAIN P : P[k] = p[k]
  <2>1. P = Without(p, t)
    BY <1>1
  <2>2. DOMAIN P = DOMAIN p \ {t} /\ \A k \in DOMAIN p \ {t} : P[k] = p[k]
    <3> HIDE DEF P, p, t
    <3> QED BY <1>2, <2>1, WithoutIs
  <2> QED BY <2>2
<1>5. x \in Nat /\ log.published \in Nat /\ log.durable \in Nat /\ log.issued \in Nat
  <2>1. p[t] \in WorkT
    BY <1>1, <1>2, PendingElem
  <2> QED BY <1>2, <2>1 DEF WorkT, LogT
<1> HIDE DEF x
<1>6. /\ log'.published = x /\ log'.issued = log.issued /\ log'.durable = log.durable
      /\ log'.cohort = log.cohort
  BY <1>1, <1>2 DEF LogT
<1>7. Ascending(log, p, re.appends) /\ OneFence(log, p)
      /\ log.published <= log.issued /\ log.durable <= log.issued
  BY <1>1 DEF AnswersInv, Frontier
<1>8. log.published <= x /\ x <= log.issued
  BY <1>3, <1>7 DEF Ascending, x
<1> HIDE DEF a, t, P
<1>9. \A i \in DOMAIN a : i + 1 \in DOMAIN re.appends /\ 1 < i + 1 /\ i + 1 \in Nat
                          /\ a[i] \in DOMAIN P
  <2>1. \A i \in DOMAIN re'.appends : re'.appends[i] \in DOMAIN P
    BY <1>1 DEF KernelInv, OrderedAppends, P
  <2> QED BY <1>1, <1>3, <2>1
<1>10. Ascending(log', P, a)
  <2>1. \A i \in DOMAIN a : P[a[i]].last = p[re.appends[i + 1]].last
    BY <1>3, <1>4, <1>9
  <2>2. \A i \in DOMAIN a : log'.published <= P[a[i]].last /\ P[a[i]].last <= log'.issued
    BY <1>3, <1>6, <1>7, <1>9, <2>1 DEF Ascending, x
  <2>3. \A i, j \in DOMAIN a : i < j => i + 1 < j + 1
    BY <1>3
  <2>4. \A i, j \in DOMAIN a : i < j => P[a[i]].last <= P[a[j]].last
    BY <1>7, <1>9, <2>1, <2>3 DEF Ascending
  <2> QED BY <2>2, <2>4 DEF Ascending
<1>11. OneFence(log', P)
  BY <1>4, <1>6, <1>7 DEF OneFence
<1>12. Frontier'
  <2>1. Ascending(log, re.pending, re.appends)' /\ OneFence(log, re.pending)'
    BY <1>1, <1>10, <1>11 DEF Ascending, OneFence, P
  <2> QED BY <1>6, <1>7, <1>8, <2>1 DEF Frontier
<1>13. CohortOwned'
  <2>1. re.cohort # 0 => re.cohort \in DOMAIN p /\ p[re.cohort].op = "fence"
    BY <1>1 DEF CohortOwned, AnswersInv
  <2> QED BY <1>1, <1>4, <2>1 DEF CohortOwned, P
<1>14. log.durable <= log'.durable /\ log.published <= log'.published
  BY <1>5, <1>6, <1>8
<1>15. \A i \in ToSet(p[t].ids) : reqs[i].kind # "flush" /\ log'.published >= reqs[i].boundary
  <2>1. \A i \in ToSet(p[t].ids) : /\ reqs[i].boundary \in Nat
                                   /\ reqs[i].kind # "flush" /\ reqs[i].boundary <= x
    BY <1>1, OwnerTrue DEF AnswersInv, x
  <2> QED BY <1>5, <1>6, <2>1
<1> QED BY <1>1, <1>6, <1>12, <1>13, <1>14, <1>15, GivenAnswers DEF P

LEMMA GivenUpAnswers ==
  ASSUME TypeOK, TypeOK', AnswersInv, KernelInv', NEW t \in DOMAIN re.pending,
         Finishing(t), GivenUp(t), re.pc = "finish", UNCHANGED <<front, reqs, mailbox>>
  PROVE  AnswersInv'
<1> DEFINE p == re.pending
           P == re'.pending
           w == re.pending[t]
<1>0. p \in PendingT /\ w \in WorkT /\ log \in LogT
  BY PendingElem DEF TypeOK, ReactorT
<1>1. P = Without(p, t) /\ Keeps(p, P) /\ DOMAIN P = DOMAIN p \ {t}
      /\ \A k \in DOMAIN P : P[k] = p[k]
  <2>1. P = Without(p, t)
    BY DEF GivenUp
  <2>2. DOMAIN P = DOMAIN p \ {t} /\ \A k \in DOMAIN p \ {t} : P[k] = p[k]
    <3> HIDE DEF P, p
    <3> QED BY <1>0, <2>1, WithoutIs
  <2> QED BY <2>1, <2>2 DEF Keeps
<1>2. re'.commands = re.commands /\ re'.reads = re.reads
      /\ (re.failed => re'.failed)
      /\ (re'.failed \/ (re'.failed = re.failed /\ re'.appends = re.appends))
  BY DEF Finishing
<1>3. w.last \in Nat /\ log.published \in Nat /\ log.durable \in Nat /\ log.issued \in Nat
  BY <1>0 DEF WorkT, LogT
<1>4. CohortOwned'
  <2>0. re.cohort # 0 => re.cohort \in DOMAIN p /\ p[re.cohort].op = "fence"
    BY DEF AnswersInv, CohortOwned
  <2>1. CASE re'.cohort = re.cohort /\ w.op # "fence"
    BY <1>1, <2>0, <2>1 DEF CohortOwned
  <2>2. CASE re'.cohort = 0 \/ re'.pc = "stop"
    BY <2>2 DEF CohortOwned
  <2> QED BY <2>1, <2>2 DEF GivenUp
<1>5. log' = log => Frontier'
  BY <1>1, <1>2, FrontierKeep DEF AnswersInv
<1>6. CASE answer' = answer /\ log' = log
  BY <1>1, <1>2, <1>4, <1>6, AnswersSame
<1>7. CASE answer' = Answer(answer, ToSet(w.ids), "err") /\ log' = log
  <2>1. log.durable <= log'.durable /\ log.published <= log'.published
    BY <1>3, <1>7
  <2> QED BY <1>1, <1>2, <1>4, <1>5, <1>7, <2>1, GivenAnswers
<1>8. CASE /\ ~re.failed /\ w.op = "read" /\ log' = log
           /\ answer' = Answer(answer, ToSet(w.ids), "ok")
  <2>1. log.durable <= log'.durable /\ log.published <= log'.published
    BY <1>3, <1>8
  <2>2. \A i \in ToSet(w.ids) : reqs[i].kind # "flush" /\ log'.published >= reqs[i].boundary
    <3>1. \A i \in ToSet(w.ids) : /\ reqs[i].boundary \in Nat
                                  /\ reqs[i].kind # "flush" /\ reqs[i].boundary <= log.published
      BY <1>8, OwnerTrue DEF AnswersInv
    <3> QED BY <1>3, <1>8, <3>1
  <2> QED BY <1>1, <1>2, <1>4, <1>5, <1>8, <2>1, <2>2, GivenAnswers
<1>9. CASE /\ ~re.failed /\ w.op = "fence"
           /\ log' = [log EXCEPT !.durable = w.last, !.fenced = TRUE, !.cohort = NoCohort]
           /\ answer' = Answer(answer, ToSet(w.ids), "ok")
  <2> HIDE DEF w, P
  <2>1. /\ log'.durable = w.last /\ log'.published = log.published
        /\ log'.issued = log.issued
    BY <1>0, <1>9 DEF LogT
  <2>2. /\ log.published <= log.issued /\ log.durable <= w.last /\ w.last <= log.issued
        /\ \A u \in DOMAIN p : p[u].op = "fence" => u = t
        /\ Ascending(log, p, re.appends)
    BY <1>9 DEF AnswersInv, Frontier, OneFence, w
  <2>3. OneFence(log', P)
    BY <1>1, <2>2 DEF OneFence
  <2>4. ~re'.failed => Ascending(log', P, re'.appends)
    <3> SUFFICES ASSUME ~re'.failed PROVE Ascending(log', P, re'.appends)
      OBVIOUS
    <3>1. re'.appends = re.appends
      BY <1>2
    <3>2. \A i \in DOMAIN re.appends : re.appends[i] \in DOMAIN P
      BY <3>1 DEF KernelInv, OrderedAppends, P
    <3> QED BY <1>1, <2>1, <2>2, <3>1, <3>2 DEF Ascending
  <2>5. Frontier'
    <3>1. OneFence(log, re.pending)' /\ (~re'.failed => Ascending(log, re.pending, re.appends)')
      BY <2>3, <2>4 DEF OneFence, Ascending, P
    <3> QED BY <2>1, <2>2, <3>1 DEF Frontier
  <2>6. log.durable <= log'.durable /\ log.published <= log'.published
    BY <1>3, <2>1, <2>2
  <2>7. \A i \in ToSet(w.ids) : reqs[i].kind = "flush" /\ log'.durable >= reqs[i].boundary
    <3>1. \A i \in ToSet(w.ids) : /\ reqs[i].boundary \in Nat
                                  /\ reqs[i].kind = "flush" /\ reqs[i].boundary <= w.last
      BY <1>9, OwnerTrue DEF AnswersInv, w
    <3> QED BY <1>3, <2>1, <3>1
  <2> QED BY <1>1, <1>2, <1>4, <1>9, <2>1, <2>5, <2>6, <2>7, GivenAnswers DEF P, w
<1> QED BY <1>6, <1>7, <1>8, <1>9 DEF GivenUp

LEMMA FinishAnswers ==
  ASSUME TypeOK, TypeOK', AnswersInv, KernelInv, KernelInv', Finish
  PROVE  AnswersInv'
BY FinishIs, LeftAnswers, GivenUpAnswers, ResubmittedAnswers

\* The owners after a step, each by itself.
LEMMA OwnersIntro ==
  ASSUME Apart(mailbox'), Apart(re'.commands), Apart(re'.reads), Apart(re'.pending),
         Separate(Packed', IdsOf(mailbox'), IdsOf(re'.commands), IdsOf(re'.reads),
                  IdsOf(re'.pending)),
         Packed' \subseteq Unanswered', IdsOf(mailbox') \subseteq Unanswered',
         IdsOf(re'.commands) \subseteq Unanswered',
         IdsOf(re'.reads) \subseteq Unanswered',
         IdsOf(re'.pending) \subseteq Unanswered'
  PROVE  OwnedOnce' /\ OwnedUnanswered'
<1>1. IdsOf(mailbox)' = IdsOf(mailbox') /\ IdsOf(re.commands)' = IdsOf(re'.commands)
      /\ IdsOf(re.reads)' = IdsOf(re'.reads) /\ IdsOf(re.pending)' = IdsOf(re'.pending)
  BY DEF IdsOf
<1>2. OwnedOnce'
  BY <1>1 DEF OwnedOnce
<1>3. OwnedUnanswered'
  BY <1>1 DEF OwnedUnanswered
<1> QED BY <1>2, <1>3

\* A command moves from the mailbox to the queue, or leaves it for the reads.
LEMMA BarriersTake ==
  ASSUME NEW M \in Seq(CommandT), NEW C \in Seq(CommandT), M # <<>>
  PROVE  /\ Barriers(M, C) => Barriers(Tail(M), Append(C, Head(M)))
         /\ Barriers(M, C) => Barriers(Tail(M), C)
         /\ NoBarriers(M, C) => NoBarriers(Tail(M), Append(C, Head(M)))
         /\ NoBarriers(M, C) => NoBarriers(Tail(M), C)
<1> DEFINE N == Tail(M)
           D == Append(C, Head(M))
           z == Len(C) + 1
<1>1. /\ Len(M) \in Nat /\ DOMAIN M = 1..Len(M) /\ DOMAIN N = 1..(Len(M) - 1)
      /\ 1 \in DOMAIN M /\ Head(M) = M[1] /\ \A i \in DOMAIN N : N[i] = M[i + 1]
  OBVIOUS
<1>2. /\ Len(C) \in Nat /\ DOMAIN C = 1..Len(C) /\ DOMAIN D = 1..z
      /\ D[z] = Head(M) /\ \A i \in DOMAIN C : D[i] = C[i]
  OBVIOUS
<1> HIDE DEF N, D, z
<1>3. /\ \A i \in DOMAIN N : i + 1 \in DOMAIN M /\ i + 1 # 1
      /\ \A i, j \in DOMAIN N : i + 1 = j + 1 => i = j
  BY <1>1
<1>4. \A i \in DOMAIN D : \/ i \in DOMAIN C /\ D[i] = C[i]
                          \/ i = z /\ D[i] = M[1]
  BY <1>1, <1>2 DEF z
<1>5. Barriers(M, C) => Barriers(N, D)
  <2> SUFFICES ASSUME Barriers(M, C) PROVE Barriers(N, D)
    OBVIOUS
  <2>1. ASSUME NEW i \in DOMAIN N, IsBarrier(N[i]), NEW j \in DOMAIN N, IsBarrier(N[j])
        PROVE  i = j
    BY <1>1, <1>3, <2>1 DEF Barriers
  <2>2. ASSUME NEW i \in DOMAIN N, IsBarrier(N[i]), NEW j \in DOMAIN D
        PROVE  ~IsBarrier(D[j])
    BY <1>1, <1>3, <1>4, <2>2 DEF Barriers
  <2>3. ASSUME NEW i \in DOMAIN D, NEW j \in DOMAIN D, IsBarrier(D[i]), IsBarrier(D[j])
        PROVE  i = j
    BY <1>1, <1>4, <2>3 DEF Barriers
  <2> QED BY <2>1, <2>2, <2>3 DEF Barriers
<1>6. Barriers(M, C) => Barriers(N, C)
  BY <1>1, <1>3 DEF Barriers
<1>7. NoBarriers(M, C) => NoBarriers(N, D) /\ NoBarriers(N, C)
  BY <1>1, <1>3, <1>4 DEF NoBarriers
<1> QED BY <1>5, <1>6, <1>7 DEF N, D

\* A command leaves the queue.
LEMMA BarriersTail ==
  ASSUME NEW M, NEW C \in Seq(CommandT), C # <<>>
  PROVE  /\ Barriers(M, C) => Barriers(M, Tail(C))
         /\ NoBarriers(M, C) => NoBarriers(M, Tail(C))
         /\ Barriers(M, C) /\ IsBarrier(Head(C)) => NoBarriers(M, Tail(C))
<1> DEFINE D == Tail(C)
<1>1. /\ Len(C) \in Nat /\ DOMAIN C = 1..Len(C) /\ DOMAIN D = 1..(Len(C) - 1)
      /\ 1 \in DOMAIN C /\ Head(C) = C[1] /\ \A i \in DOMAIN D : D[i] = C[i + 1]
  OBVIOUS
<1> HIDE DEF D
<1>2. /\ \A i \in DOMAIN D : i + 1 \in DOMAIN C /\ i + 1 # 1
      /\ \A i, j \in DOMAIN D : i + 1 = j + 1 => i = j
  BY <1>1
<1>3. Barriers(M, C) => Barriers(M, D)
  BY <1>1, <1>2 DEF Barriers
<1>4. NoBarriers(M, C) => NoBarriers(M, D)
  BY <1>1, <1>2 DEF NoBarriers
<1>5. Barriers(M, C) /\ IsBarrier(C[1]) => NoBarriers(M, D)
  BY <1>1, <1>2 DEF Barriers, NoBarriers
<1> QED BY <1>1, <1>3, <1>4, <1>5 DEF D

\* The step of receive for one command.
LEMMA TookAnswers ==
  ASSUME TypeOK, TypeOK', AnswersInv, KernelInv', NEW c \in CommandT, Took(c),
         UNCHANGED <<front, reqs, answer, log>>
  PROVE  AnswersInv'
<1> DEFINE X == ToSet(c.ids)
           N == Tail(mailbox)
<1>0. /\ mailbox \in Seq(CommandT) /\ re.commands \in Seq(CommandT)
      /\ re.reads \in Seq(CommandT) /\ mailbox # <<>> /\ c = Head(mailbox)
      /\ mailbox' = N /\ c = mailbox[1] /\ 1 \in DOMAIN mailbox
      /\ \A i \in DOMAIN N : i + 1 \in DOMAIN mailbox /\ N[i] = mailbox[i + 1]
  <2>1. mailbox \in Seq(CommandT) /\ re.commands \in Seq(CommandT)
        /\ re.reads \in Seq(CommandT) /\ mailbox # <<>> /\ c = Head(mailbox)
        /\ mailbox' = N
    BY DEF TypeOK, ReactorT, Took
  <2> QED BY <2>1
<1>1. /\ IdsOf(mailbox) = X \cup IdsOf(N) /\ Apart(N) /\ X \cap IdsOf(N) = {}
  BY <1>0, TailIds DEF AnswersInv, OwnedOnce
<1>2. /\ IdsOf(Append(re.commands, c)) = IdsOf(re.commands) \cup X
      /\ IdsOf(Append(re.reads, c)) = IdsOf(re.reads) \cup X
      /\ X \cap IdsOf(re.commands) = {} => Apart(Append(re.commands, c))
      /\ X \cap IdsOf(re.reads) = {} => Apart(Append(re.reads, c))
  BY <1>0, AppendIds DEF AnswersInv, OwnedOnce
<1> HIDE DEF X, N
<1>3. Unanswered' = Unanswered /\ Fresh' /\ AnswersHonest'
  BY Silent DEF AnswersInv
<1>4. OwnedOnce' /\ OwnedUnanswered'
  <2>1. /\ Separate(Packed, IdsOf(mailbox), IdsOf(re.commands), IdsOf(re.reads),
                    IdsOf(re.pending))
        /\ Packed' = Packed /\ re'.pending = re.pending /\ Apart(re.pending)
        /\ Apart(re.commands) /\ Apart(re.reads)
    BY DEF AnswersInv, OwnedOnce, Packed, Took
  <2>2. /\ Packed \subseteq Unanswered /\ IdsOf(mailbox) \subseteq Unanswered
        /\ IdsOf(re.commands) \subseteq Unanswered
        /\ IdsOf(re.reads) \subseteq Unanswered /\ IdsOf(re.pending) \subseteq Unanswered
    BY DEF AnswersInv, OwnedUnanswered
  <2>3. CASE c.op = "read"
    <3>1. re'.commands = re.commands /\ re'.reads = Append(re.reads, c)
      BY <2>3 DEF Took
    <3>2. Separate(Packed', IdsOf(mailbox'), IdsOf(re'.commands), IdsOf(re'.reads),
                   IdsOf(re'.pending)) /\ Apart(re'.reads)
      BY <1>0, <1>1, <1>2, <2>1, <3>1 DEF Separate
    <3> QED BY <1>0, <1>1, <1>2, <1>3, <2>1, <2>2, <3>1, <3>2, OwnersIntro
  <2>4. CASE c.op # "read"
    <3>1. re'.reads = re.reads /\ re'.commands = Append(re.commands, c)
      BY <2>4 DEF Took
    <3>2. Separate(Packed', IdsOf(mailbox'), IdsOf(re'.commands), IdsOf(re'.reads),
                   IdsOf(re'.pending)) /\ Apart(re'.commands)
      BY <1>0, <1>1, <1>2, <2>1, <3>1 DEF Separate
    <3> QED BY <1>0, <1>1, <1>2, <1>3, <2>1, <2>2, <3>1, <3>2, OwnersIntro
  <2> QED BY <2>3, <2>4
<1>5. Carried'
  <2>1. Carries(reqs, c) /\ \A i \in DOMAIN N : Carries(reqs, N[i])
    BY <1>0 DEF AnswersInv, Carried
  <2>2. \A s \in Seq(CommandT) : \A i \in DOMAIN Append(s, c) :
          \/ i \in DOMAIN s /\ Append(s, c)[i] = s[i]
          \/ Append(s, c)[i] = c
    OBVIOUS
  <2>3. CASE c.op = "read"
    <3>1. re'.commands = re.commands /\ re'.reads = Append(re.reads, c)
      BY <2>3 DEF Took
    <3> QED BY <1>0, <2>1, <2>2, <2>3, <3>1 DEF AnswersInv, Carried
  <2>4. CASE c.op # "read"
    <3>1. re'.reads = re.reads /\ re'.commands = Append(re.commands, c)
      BY <2>4 DEF Took
    <3> QED BY <1>0, <2>1, <2>2, <2>4, <3>1 DEF AnswersInv, Carried
  <2> QED BY <2>3, <2>4
<1>6. Supported'
  <2> SUFFICES ASSUME Live'
               PROVE  InOrder(reqs, log.issued, re'.commands, mailbox',
                              front.packing, front.admitted)
    BY DEF Supported
  <2>1. InOrder(reqs, log.issued, re.commands, mailbox, front.packing, front.admitted)
    BY DEF Live, Took, AnswersInv, Supported
  <2>2. CASE c.op = "read"
    <3>1. re'.commands = re.commands
      BY <2>2 DEF Took
    <3> QED BY <1>0, <2>1, <2>2, <3>1, OrderSkip DEF N
  <2>3. CASE c.op # "read"
    <3>1. re'.commands = Append(re.commands, c)
      BY <2>3 DEF Took
    <3> QED BY <1>0, <2>1, <2>3, <3>1, OrderTake DEF N
  <2> QED BY <2>2, <2>3
<1>7. OneBarrier'
  <2>1. /\ Barriers(mailbox', re'.commands)
        /\ front.barrier = "none" => NoBarriers(mailbox', re'.commands)
    BY <1>0, BarriersTake DEF Took, AnswersInv, OneBarrier, N
  <2> QED BY <2>1 DEF AnswersInv, OneBarrier, Barriers, NoBarriers
<1>8. PendingTrue' /\ Frontier'
  <2>1. Keeps(re.pending, re'.pending) /\ re'.failed = re.failed
        /\ re'.appends = re.appends
    BY KeepsRefl DEF Took
  <2>2. log' \in LogT /\ log.published <= log'.published
    BY DEF TypeOK, LogT
  <2> QED BY <2>1, <2>2, PendingKeep, FrontierKeep DEF AnswersInv
<1>9. CohortOwned'
  BY DEF CohortOwned, Took, AnswersInv
<1> QED BY <1>3, <1>4, <1>5, <1>6, <1>7, <1>8, <1>9 DEF AnswersInv

\* The requests X have left the queue C or the reads R, and have no owner.
Detached(X, C, R) ==
  /\ X \subseteq Unanswered
  /\ Apart(C) /\ IdsOf(C) \subseteq IdsOf(re.commands) \ X
  /\ Apart(R) /\ IdsOf(R) \subseteq IdsOf(re.reads) \ X
  /\ X \cap Packed = {} /\ X \cap IdsOf(mailbox) = {} /\ X \cap IdsOf(re.pending) = {}
  /\ \A i \in DOMAIN C : \E j \in DOMAIN re.commands : C[i] = re.commands[j]
  /\ \A i \in DOMAIN R : \E j \in DOMAIN re.reads : R[i] = re.reads[j]

LEMMA DetachNothing ==
  ASSUME OwnedOnce
  PROVE  Detached({}, re.commands, re.reads)
BY DEF Detached, OwnedOnce

LEMMA TailElems ==
  ASSUME NEW s \in Seq(CommandT), s # <<>>
  PROVE  /\ \A i \in DOMAIN Tail(s) : \E j \in DOMAIN s : Tail(s)[i] = s[j]
         /\ Head(s) = s[1] /\ 1 \in DOMAIN s /\ Head(s) \in CommandT
<1> DEFINE u == Tail(s)
<1>1. /\ Len(s) \in Nat /\ DOMAIN s = 1..Len(s) /\ DOMAIN u = 1..(Len(s) - 1)
      /\ 1 \in DOMAIN s /\ Head(s) = s[1] /\ \A i \in DOMAIN u : u[i] = s[i + 1]
  OBVIOUS
<1> HIDE DEF u
<1>2. \A i \in DOMAIN u : i + 1 \in DOMAIN s
  BY <1>1
<1>3. \A i \in DOMAIN u : \E j \in DOMAIN s : u[i] = s[j]
  BY <1>1, <1>2
<1> QED BY <1>1, <1>3 DEF u

LEMMA DetachHead ==
  ASSUME TypeOK, OwnedOnce, OwnedUnanswered, re.commands # <<>>
  PROVE  Detached(ToSet(Head(re.commands).ids), Tail(re.commands), re.reads)
<1> DEFINE X == ToSet(Head(re.commands).ids)
           D == Tail(re.commands)
<1>1. re.commands \in Seq(CommandT)
  BY DEF TypeOK, ReactorT
<1>2. IdsOf(re.commands) = X \cup IdsOf(D) /\ Apart(D) /\ X \cap IdsOf(D) = {}
  BY <1>1, TailIds DEF OwnedOnce
<1>3. \A i \in DOMAIN D : \E j \in DOMAIN re.commands : D[i] = re.commands[j]
  BY <1>1, TailElems
<1>4. Separate(Packed, IdsOf(mailbox), IdsOf(re.commands), IdsOf(re.reads),
               IdsOf(re.pending)) /\ Apart(re.reads)
  BY DEF OwnedOnce
<1> HIDE DEF X, D
<1>5. Detached(X, D, re.reads)
  BY <1>2, <1>3, <1>4 DEF Detached, OwnedUnanswered, Separate
<1> QED BY <1>5 DEF X, D

LEMMA DetachRead ==
  ASSUME TypeOK, OwnedOnce, OwnedUnanswered, re.reads # <<>>
  PROVE  Detached(ToSet(Head(re.reads).ids), re.commands, Tail(re.reads))
<1> DEFINE X == ToSet(Head(re.reads).ids)
           D == Tail(re.reads)
<1>1. re.reads \in Seq(CommandT)
  BY DEF TypeOK, ReactorT
<1>2. IdsOf(re.reads) = X \cup IdsOf(D) /\ Apart(D) /\ X \cap IdsOf(D) = {}
  BY <1>1, TailIds DEF OwnedOnce
<1>3. \A i \in DOMAIN D : \E j \in DOMAIN re.reads : D[i] = re.reads[j]
  BY <1>1, TailElems
<1>4. Separate(Packed, IdsOf(mailbox), IdsOf(re.commands), IdsOf(re.reads),
               IdsOf(re.pending)) /\ Apart(re.commands)
  BY DEF OwnedOnce
<1> HIDE DEF X, D
<1>5. Detached(X, re.commands, D)
  BY <1>2, <1>3, <1>4 DEF Detached, OwnedUnanswered, Separate
<1> QED BY <1>5 DEF X, D

\* They are answered,
LEMMA AnsweredAway ==
  ASSUME TypeOK, TypeOK', AnswersInv, NEW X, NEW C, NEW R, Detached(X, C, R),
         re'.commands = C, re'.reads = R, re'.pending = re.pending,
         NEW res \in {"ok", "err"}, answer' = Answer(answer, X, res),
         res = "ok" => \A i \in X : IF reqs[i].kind = "flush"
                                      THEN log'.durable >= reqs[i].boundary
                                      ELSE log'.published >= reqs[i].boundary,
         UNCHANGED <<reqs, mailbox>>, front'.packing = front.packing,
         front.packing = <<>> \/ front'.admitted = front.admitted,
         log'.durable = log.durable, log'.published = log.published,
         re.failed => re'.failed, Supported', OneBarrier', CohortOwned', Frontier'
  PROVE  AnswersInv'
<1>1. /\ log' \in LogT /\ log.durable <= log'.durable
      /\ log.published <= log'.published
  BY DEF TypeOK, LogT
<1>2. Unanswered' = Unanswered \ X /\ Fresh' /\ AnswersHonest'
  BY <1>1, Answering DEF Detached, AnswersInv
<1>3. OwnedOnce' /\ OwnedUnanswered'
  <2>1. Packed' = Packed /\ Apart(mailbox) /\ Apart(re.pending)
    BY DEF Packed, AnswersInv, OwnedOnce
  <2>2. /\ Packed' \subseteq Packed \ X /\ IdsOf(mailbox') \subseteq IdsOf(mailbox) \ X
        /\ IdsOf(re'.commands) \subseteq IdsOf(re.commands) \ X
        /\ IdsOf(re'.reads) \subseteq IdsOf(re.reads) \ X
        /\ IdsOf(re'.pending) \subseteq IdsOf(re.pending) \ X
    BY <2>1 DEF Detached
  <2>3. Apart(mailbox') /\ Apart(re'.commands) /\ Apart(re'.reads) /\ Apart(re'.pending)
    BY <2>1 DEF Detached
  <2> QED BY <1>2, <2>2, <2>3, OwnersShrink DEF AnswersInv
<1>4. Carried'
  <2>1. /\ \A i \in DOMAIN re'.commands :
             \E j \in DOMAIN re.commands : re'.commands[i] = re.commands[j]
        /\ \A i \in DOMAIN re'.reads :
             \E j \in DOMAIN re.reads : re'.reads[i] = re.reads[j]
    BY DEF Detached
  <2> QED BY <2>1, CarriedKeep DEF AnswersInv
<1>5. PendingTrue'
  <2>1. Keeps(re.pending, re'.pending)
    BY KeepsRefl
  <2> QED BY <1>1, <2>1, PendingKeep DEF AnswersInv
<1> QED BY <1>2, <1>3, <1>4, <1>5 DEF AnswersInv

\* dropped with the reactor,
LEMMA DroppedAway ==
  ASSUME TypeOK, TypeOK', AnswersInv, NEW X, NEW C, NEW R, Detached(X, C, R),
         re'.commands = C, re'.reads = R, re'.pending = re.pending,
         answer' = answer, UNCHANGED <<reqs, mailbox>>,
         front'.packing = front.packing,
         front.packing = <<>> \/ front'.admitted = front.admitted,
         log'.durable = log.durable, log'.published = log.published,
         re.failed => re'.failed, Supported', OneBarrier', CohortOwned', Frontier'
  PROVE  AnswersInv'
<1>1. /\ log' \in LogT /\ log.published <= log'.published
  BY DEF TypeOK, LogT
<1>2. Unanswered' = Unanswered /\ Fresh' /\ AnswersHonest'
  BY Silent DEF AnswersInv
<1>3. OwnedOnce' /\ OwnedUnanswered'
  <2>1. Packed' = Packed /\ Apart(mailbox) /\ Apart(re.pending)
        /\ Unanswered' = Unanswered \ {}
    BY <1>2 DEF Packed, AnswersInv, OwnedOnce
  <2>2. /\ Packed' \subseteq Packed \ {} /\ IdsOf(mailbox') \subseteq IdsOf(mailbox) \ {}
        /\ IdsOf(re'.commands) \subseteq IdsOf(re.commands) \ {}
        /\ IdsOf(re'.reads) \subseteq IdsOf(re.reads) \ {}
        /\ IdsOf(re'.pending) \subseteq IdsOf(re.pending) \ {}
    BY <2>1 DEF Detached
  <2>3. Apart(mailbox') /\ Apart(re'.commands) /\ Apart(re'.reads) /\ Apart(re'.pending)
    BY <2>1 DEF Detached
  <2> QED BY <2>1, <2>2, <2>3, OwnersShrink DEF AnswersInv
<1>4. Carried'
  <2>1. /\ \A i \in DOMAIN re'.commands :
             \E j \in DOMAIN re.commands : re'.commands[i] = re.commands[j]
        /\ \A i \in DOMAIN re'.reads :
             \E j \in DOMAIN re.reads : re'.reads[i] = re.reads[j]
    BY DEF Detached
  <2> QED BY <2>1, CarriedKeep DEF AnswersInv
<1>5. PendingTrue'
  <2>1. Keeps(re.pending, re'.pending)
    BY KeepsRefl
  <2> QED BY <1>1, <2>1, PendingKeep DEF AnswersInv
<1> QED BY <1>2, <1>3, <1>4, <1>5 DEF AnswersInv

\* or owned by a pending entry of their own.
LEMMA OwnedAway ==
  ASSUME TypeOK, TypeOK', AnswersInv, NEW X, NEW C, NEW R, Detached(X, C, R),
         re'.commands = C, re'.reads = R, NEW t, t \notin DOMAIN re.pending,
         NEW work, ToSet(work.ids) = X,
         re'.pending = [k \in DOMAIN re.pending \cup {t} |->
                          IF k = t THEN work ELSE re.pending[k]],
         Truthful(reqs, work, re'.failed, log'.published),
         answer' = answer, UNCHANGED <<reqs, mailbox>>,
         front'.packing = front.packing,
         front.packing = <<>> \/ front'.admitted = front.admitted,
         log'.durable = log.durable, log'.published = log.published,
         re.failed => re'.failed, Supported', OneBarrier', CohortOwned', Frontier'
  PROVE  AnswersInv'
<1> DEFINE p == re.pending
           P == re'.pending
<1>0. DOMAIN P = DOMAIN p \cup {t} /\ P[t] = work /\ \A k \in DOMAIN p : P[k] = p[k]
  OBVIOUS
<1>1. /\ log' \in LogT /\ log.published <= log'.published
  BY DEF TypeOK, LogT
<1>2. Unanswered' = Unanswered /\ Fresh' /\ AnswersHonest'
  BY Silent DEF AnswersInv
<1>3. OwnedOnce' /\ OwnedUnanswered'
  <2>1. Packed' = Packed /\ Apart(mailbox) /\ Apart(p)
        /\ Separate(Packed, IdsOf(mailbox), IdsOf(re.commands), IdsOf(re.reads), IdsOf(p))
    BY DEF Packed, AnswersInv, OwnedOnce
  <2>2. IdsOf(P) = IdsOf(p) \cup X /\ Apart(P)
    <3> HIDE DEF p, P
    <3>1. \A k \in DOMAIN p : P[k].ids = p[k].ids
      BY <1>0
    <3>2. ToSet(P[t].ids) = X /\ X \cap IdsOf(p) = {} /\ t \notin DOMAIN p
      BY <1>0 DEF Detached, p
    <3>3. /\ IdsOf(P) = IdsOf(p) \cup ToSet(P[t].ids)
          /\ Apart(p) /\ ToSet(P[t].ids) \cap IdsOf(p) = {} => Apart(P)
      BY <1>0, <3>1, <3>2, ExtIds
    <3> QED BY <2>1, <3>2, <3>3
  <2>3. /\ Packed \subseteq Unanswered /\ IdsOf(mailbox) \subseteq Unanswered
        /\ IdsOf(re.commands) \subseteq Unanswered
        /\ IdsOf(re.reads) \subseteq Unanswered /\ IdsOf(p) \subseteq Unanswered
    BY DEF AnswersInv, OwnedUnanswered
  <2> HIDE DEF p, P
  <2>4. Separate(Packed', IdsOf(mailbox'), IdsOf(re'.commands), IdsOf(re'.reads), IdsOf(P))
    BY <2>1, <2>2 DEF Separate, Detached, p
  <2>5. /\ Packed' \subseteq Unanswered' /\ IdsOf(mailbox') \subseteq Unanswered'
        /\ IdsOf(re'.commands) \subseteq Unanswered'
        /\ IdsOf(re'.reads) \subseteq Unanswered' /\ IdsOf(P) \subseteq Unanswered'
    BY <1>2, <2>1, <2>2, <2>3 DEF Detached
  <2>6. Apart(mailbox') /\ Apart(re'.commands) /\ Apart(re'.reads) /\ Apart(P)
    BY <2>1, <2>2 DEF Detached
  <2> QED BY <2>4, <2>5, <2>6, OwnersIntro DEF P
<1>4. Carried'
  <2>1. /\ \A i \in DOMAIN re'.commands :
             \E j \in DOMAIN re.commands : re'.commands[i] = re.commands[j]
        /\ \A i \in DOMAIN re'.reads :
             \E j \in DOMAIN re.reads : re'.reads[i] = re.reads[j]
    BY DEF Detached
  <2> QED BY <2>1, CarriedKeep DEF AnswersInv
<1>5. PendingTrue'
  <2> HIDE DEF p, P
  <2>1. ASSUME NEW k \in DOMAIN P
        PROVE  Truthful(reqs, P[k], re'.failed, log'.published)
    <3>1. CASE k = t
      BY <1>0, <3>1
    <3>2. CASE k # t
      <4>1. k \in DOMAIN p /\ P[k] = p[k]
        BY <1>0, <3>2
      <4>2. Truthful(reqs, p[k], re.failed, log.published)
        BY <4>1 DEF AnswersInv, PendingTrue, p
      <4> QED BY <4>1, <4>2 DEF Truthful
    <3> QED BY <3>1, <3>2
  <2> QED BY <2>1 DEF PendingTrue, Truthful, P
<1> QED BY <1>2, <1>3, <1>4, <1>5 DEF AnswersInv

\* A READ or FLUSH command holds one request, of its kind and boundary.
LEMMA CarriedIds ==
  ASSUME NEW r, NEW c \in CommandT, Carries(r, c), c.op \in {"read", "flush"}
  PROVE  \A i \in ToSet(c.ids) : r[i].kind = c.op /\ r[i].boundary = c.boundary
<1>1. c.ids \in Seq(Nat) /\ Len(c.ids) = 1
      /\ r[c.ids[1]] = [kind |-> c.op, boundary |-> c.boundary]
  BY DEF Carries, CommandT
<1>2. DOMAIN c.ids = 1..1
  BY <1>1
<1>3. \A i \in ToSet(c.ids) : i = c.ids[1]
  BY <1>2 DEF ToSet
<1> QED BY <1>1, <1>3

\* The queues hold commands of accepted requests.
LEMMA Queues ==
  ASSUME TypeOK, OwnedUnanswered, Carried
  PROVE  /\ Queue(reqs, re.commands) /\ Queue(reqs, mailbox)
         /\ front.admitted \in Nat /\ front.packing \in Seq(Nat)
         /\ \A i \in Packed : reqs[i].boundary \in Nat
         /\ IF front.packing = <<>> THEN front.admitted \in Int
            ELSE reqs[front.packing[1]].boundary \in Int
<1>1. front.admitted \in Nat /\ front.packing \in Seq(Nat)
      /\ re.commands \in Seq(CommandT) /\ mailbox \in Seq(CommandT)
  BY DEF TypeOK, FrontT, ReactorT
<1>2. IdsOf(re.commands) \subseteq DOMAIN reqs /\ IdsOf(mailbox) \subseteq DOMAIN reqs
      /\ \A i \in Packed : reqs[i].boundary \in Nat
  BY Requests
<1>3. /\ \A k \in DOMAIN re.commands : ToSet(re.commands[k].ids) \subseteq DOMAIN reqs
      /\ \A k \in DOMAIN mailbox : ToSet(mailbox[k].ids) \subseteq DOMAIN reqs
  BY <1>2 DEF IdsOf
<1>4. Queue(reqs, re.commands) /\ Queue(reqs, mailbox)
  BY <1>1, <1>3 DEF Queue, Carried
<1>5. front.packing # <<>> => front.packing[1] \in Packed
  <2>1. front.packing # <<>> => 1 \in DOMAIN front.packing
    BY <1>1
  <2> QED BY <2>1 DEF Packed, ToSet
<1>6. IF front.packing = <<>> THEN front.admitted \in Int
      ELSE reqs[front.packing[1]].boundary \in Int
  BY <1>1, <1>2, <1>5
<1> QED BY <1>1, <1>2, <1>4, <1>6

\* The order of the queue once its head is gone.
LEMMA TailOrder ==
  ASSUME TypeOK, TypeOK', AnswersInv, Live, re.commands # <<>>,
         log.issued <= log'.issued,
         Head(re.commands).op = "append" =>
           log'.issued >= log.issued + Len(Head(re.commands).ids)
  PROVE  InOrder(reqs, log'.issued, Tail(re.commands), mailbox, front.packing,
                 front.admitted)
<1>1. /\ Queue(reqs, re.commands) /\ Queue(reqs, mailbox)
      /\ IF front.packing = <<>> THEN front.admitted \in Int
         ELSE reqs[front.packing[1]].boundary \in Int
  BY Queues DEF AnswersInv
<1>2. InOrder(reqs, log.issued, re.commands, mailbox, front.packing, front.admitted)
  BY DEF AnswersInv, Supported
<1>3. log.issued \in Nat /\ log'.issued \in Nat /\ reqs \in Seq(RequestT)
  BY DEF TypeOK, LogT
<1> QED BY <1>1, <1>2, <1>3, OrderTail

LEMMA TailSupported ==
  ASSUME TypeOK, TypeOK', AnswersInv, re.commands # <<>>,
         re'.commands = Tail(re.commands), UNCHANGED <<reqs, mailbox>>,
         front'.packing = front.packing, front'.admitted = front.admitted,
         log.issued <= log'.issued, re.failed => re'.failed, re.pc # "gone",
         Head(re.commands).op = "append" =>
           log'.issued >= log.issued + Len(Head(re.commands).ids)
  PROVE  Supported'
<1> SUFFICES ASSUME Live'
             PROVE  InOrder(reqs, log'.issued, Tail(re.commands), mailbox,
                            front.packing, front.admitted)
  BY DEF Supported
<1>1. Live
  BY DEF Live
<1> QED BY <1>1, TailOrder

LEMMA TailBarrier ==
  ASSUME TypeOK, AnswersInv, re.commands # <<>>,
         re'.commands = Tail(re.commands), mailbox' = mailbox,
         front'.packing = front.packing,
         front'.barrier = front.barrier \/ IsBarrier(Head(re.commands))
  PROVE  OneBarrier'
<1>1. re.commands \in Seq(CommandT)
  BY DEF TypeOK, ReactorT
<1>2. /\ Barriers(mailbox, Tail(re.commands))
      /\ NoBarriers(mailbox, re.commands) => NoBarriers(mailbox, Tail(re.commands))
      /\ IsBarrier(Head(re.commands)) => NoBarriers(mailbox, Tail(re.commands))
  BY <1>1, BarriersTail DEF AnswersInv, OneBarrier
<1>3. IsBarrier(Head(re.commands)) => front.packing = <<>>
  <2>1. Head(re.commands) = re.commands[1] /\ 1 \in DOMAIN re.commands
    BY <1>1
  <2> QED BY <2>1 DEF AnswersInv, OneBarrier, NoBarriers
<1>4. /\ front'.barrier # "none" => front'.packing = <<>>
      /\ front'.barrier = "none" => NoBarriers(mailbox', re'.commands)
      /\ Barriers(mailbox', re'.commands)
  BY <1>2, <1>3 DEF AnswersInv, OneBarrier
<1> QED BY <1>4 DEF OneBarrier, Barriers, NoBarriers

LEMMA CohortKeep ==
  ASSUME CohortOwned, re'.cohort = re.cohort, re'.pending = re.pending,
         re.pc \notin {"stop", "close", "drop", "gone"}
  PROVE  CohortOwned'
BY DEF CohortOwned

LEMMA FrontierSame ==
  ASSUME Frontier, KernelInv', re'.pending = re.pending,
         re'.failed \/ (re'.failed = re.failed /\ re'.appends = re.appends),
         log'.issued = log.issued, log'.published = log.published,
         log'.durable = log.durable,
         log'.cohort = log.cohort \/ \A t \in DOMAIN re.pending :
                                       re.pending[t].op # "fence"
  PROVE  Frontier'
<1>1. Keeps(re.pending, re'.pending)
  BY KeepsRefl
<1> QED BY <1>1, FrontierKeep

\* A covered FLUSH, a Resume and the reply of a barrier.
LEMMA FlushedAnswers ==
  ASSUME TypeOK, TypeOK', AnswersInv, KernelInv', Pops, front' = front,
         Head(re.commands).op = "flush",
         answer' = Answer(answer, ToSet(Head(re.commands).ids), "ok"),
         log.durable >= Head(re.commands).boundary
  PROVE  AnswersInv'
<1> DEFINE c == Head(re.commands)
<1>1. Detached(ToSet(c.ids), Tail(re.commands), re.reads)
  BY DetachHead DEF Pops, AnswersInv
<1>2. \A i \in ToSet(c.ids) : reqs[i].kind = "flush" /\ reqs[i].boundary = c.boundary
  <2>1. c \in CommandT /\ c = re.commands[1] /\ 1 \in DOMAIN re.commands
    BY HeadType DEF Pops
  <2>2. Carries(reqs, c)
    BY <2>1 DEF AnswersInv, Carried
  <2> QED BY <2>1, <2>2, CarriedIds
<1>3. /\ log' = log /\ log.issued <= log'.issued /\ re.commands # <<>>
      /\ re'.commands = Tail(re.commands)
  BY DEF Pops, TypeOK, LogT
<1>4. Supported' /\ OneBarrier'
  BY <1>3, TailSupported, TailBarrier DEF Pops
<1>5. CohortOwned' /\ Frontier'
  BY CohortKeep, FrontierSame DEF Pops, AnswersInv
<1>6. \A i \in ToSet(c.ids) : reqs[i].kind = "flush" /\ log'.durable >= reqs[i].boundary
  BY <1>2, <1>3
<1> QED BY <1>1, <1>3, <1>4, <1>5, <1>6, AnsweredAway DEF Pops

LEMMA ResumedAnswers ==
  ASSUME TypeOK, TypeOK', AnswersInv, KernelInv', Pops,
         Head(re.commands).op = "resume", UNCHANGED <<front, answer>>
  PROVE  AnswersInv'
<1>1. Detached(ToSet(Head(re.commands).ids), Tail(re.commands), re.reads)
  BY DetachHead DEF Pops, AnswersInv
<1>2. /\ log' = log /\ log.issued <= log'.issued /\ re.commands # <<>>
      /\ re'.commands = Tail(re.commands)
  BY DEF Pops, TypeOK, LogT
<1>3. Supported' /\ OneBarrier'
  BY <1>2, TailSupported, TailBarrier DEF Pops
<1>4. CohortOwned' /\ Frontier'
  BY CohortKeep, FrontierSame DEF Pops, AnswersInv
<1> QED BY <1>1, <1>2, <1>3, <1>4, DroppedAway DEF Pops

LEMMA PassesAnswers ==
  ASSUME TypeOK, TypeOK', AnswersInv, KernelInv', Passes
  PROVE  AnswersInv'
<1>0. Pops /\ IsBarrier(Head(re.commands))
  BY DEF Passes, IsBarrier
<1>1. Detached(ToSet(Head(re.commands).ids), Tail(re.commands), re.reads)
  BY <1>0, DetachHead DEF Pops, AnswersInv
<1>2. /\ log' = log /\ log.issued <= log'.issued /\ re.commands # <<>>
      /\ re'.commands = Tail(re.commands) /\ UNCHANGED <<reqs, mailbox>>
  BY <1>0 DEF Pops, TypeOK, LogT
<1>3. OneBarrier'
  BY <1>0, <1>2, TailBarrier DEF Passes
<1>4. front.packing = <<>>
  <2>1. Head(re.commands) = re.commands[1] /\ 1 \in DOMAIN re.commands
    BY <1>2, HeadType
  <2> QED BY <1>0, <2>1 DEF AnswersInv, OneBarrier, NoBarriers
<1>5. Supported'
  <2> SUFFICES ASSUME Live'
               PROVE  InOrder(reqs, log.issued, Tail(re.commands), mailbox,
                              front.packing, front'.admitted)
    BY <1>2 DEF Supported, Passes
  <2>1. Live /\ Head(re.commands).op # "append"
    BY <1>0 DEF Live, Pops, IsBarrier
  <2>2. InOrder(reqs, log.issued, Tail(re.commands), mailbox, front.packing,
                front.admitted)
    BY <1>2, <2>1, TailOrder
  <2>4. log.published <= log.issued
    BY DEF AnswersInv, Frontier
  <2> QED BY <1>4, <2>2, <2>4, OrderReset DEF Passes
<1>6. CohortOwned' /\ Frontier'
  BY <1>0, CohortKeep, FrontierSame DEF Pops, AnswersInv
<1> QED BY <1>0, <1>1, <1>2, <1>3, <1>5, <1>6, <1>4, DroppedAway DEF Pops, Passes

\* No fence is pending unless the log has its cohort.
LEMMA NoFence ==
  ASSUME TypeOK, Frontier, log.cohort = NoCohort
  PROVE  \A t \in DOMAIN re.pending : re.pending[t].op # "fence"
<1> SUFFICES ASSUME NEW t \in DOMAIN re.pending, re.pending[t].op = "fence"
             PROVE  FALSE
  OBVIOUS
<1>1. log.cohort = re.pending[t].last
  BY DEF Frontier, OneFence
<1>2. re.pending[t] \in WorkT
  BY PendingElem DEF TypeOK, ReactorT
<1>3. re.pending[t].last \in Nat
  BY <1>2 DEF WorkT
<1> QED BY <1>1, <1>3 DEF NoCohort

LEMMA FrontierFailed ==
  ASSUME TypeOK, TypeOK', Frontier, re'.failed, re'.pending = re.pending,
         log.issued <= log'.issued, log'.published = log.published,
         log'.durable = log.durable,
         log'.cohort = log.cohort \/ \A t \in DOMAIN re.pending :
                                       re.pending[t].op # "fence"
  PROVE  Frontier'
<1>1. /\ log.issued \in Nat /\ log'.issued \in Nat /\ log.published \in Nat
      /\ log.durable \in Nat
  BY DEF TypeOK, LogT
<1>2. log'.published <= log'.issued /\ log'.durable <= log'.issued
  BY <1>1 DEF Frontier
<1>3. \A t \in DOMAIN re.pending : re.pending[t].last \in Nat
  <2>1. \A t \in DOMAIN re.pending : re.pending[t] \in WorkT
    BY PendingElem DEF TypeOK, ReactorT
  <2> QED BY <2>1 DEF WorkT
<1>4. \A t \in DOMAIN re.pending : re.pending[t].last <= log.issued =>
                                   re.pending[t].last <= log'.issued
  BY <1>1, <1>3
<1>5. OneFence(log', re.pending)
  BY <1>4 DEF Frontier, OneFence
<1>6. OneFence(log, re.pending)'
  BY <1>5 DEF OneFence
<1> QED BY <1>2, <1>6 DEF Frontier

\* The work found no slot: the image fails.
LEMMA NotOwnedAnswers ==
  ASSUME TypeOK, TypeOK', AnswersInv, NEW q \in ReactorT, q.pending = re.pending,
         q.cohort = re.cohort, NEW work, NotOwned(q, work),
         Detached(ToSet(work.ids), q.commands, q.reads),
         UNCHANGED <<front, reqs, mailbox>>,
         re.pc \notin {"stop", "close", "drop", "gone"}, OneBarrier',
         log.issued <= log'.issued, log'.published = log.published,
         log'.durable = log.durable,
         log'.cohort = log.cohort \/ \A t \in DOMAIN re.pending :
                                       re.pending[t].op # "fence"
  PROVE  AnswersInv'
<1>1. /\ re'.commands = q.commands /\ re'.reads = q.reads
      /\ re'.pending = re.pending /\ re'.cohort = re.cohort /\ re'.failed
      /\ answer' = Answer(answer, ToSet(work.ids), "err")
  BY FailingIs DEF NotOwned
<1>2. Supported'
  BY <1>1 DEF Supported, Live
<1>3. CohortOwned' /\ Frontier'
  BY <1>1, CohortKeep, FrontierFailed DEF AnswersInv
<1> QED BY <1>1, <1>2, <1>3, AnsweredAway

\* The frontier with one more owner, under a token of its own.
LEMMA FrontierOwned ==
  ASSUME TypeOK, TypeOK', Frontier, KernelInv, NEW t, t \notin DOMAIN re.pending,
         NEW work \in WorkT,
         re'.pending = [k \in DOMAIN re.pending \cup {t} |->
                          IF k = t THEN work ELSE re.pending[k]],
         re'.failed = re.failed,
         re'.appends = IF work.op = "append" THEN Append(re.appends, t)
                       ELSE re.appends,
         log.issued <= log'.issued, log'.published = log.published,
         log'.durable = log.durable,
         IF work.op = "fence"
           THEN /\ log.cohort = NoCohort /\ log'.cohort = work.last
                /\ work.last = log'.issued
           ELSE log'.cohort = log.cohort,
         work.op = "append" => work.last = log'.issued
  PROVE  Frontier'
<1> DEFINE p == re.pending
           P == re'.pending
           a == re.appends
           A == re'.appends
<1>0. DOMAIN P = DOMAIN p \cup {t} /\ P[t] = work /\ \A k \in DOMAIN p : P[k] = p[k]
  OBVIOUS
<1>1. /\ log.issued \in Nat /\ log'.issued \in Nat /\ log.published \in Nat
      /\ log.durable \in Nat /\ a \in Seq(Nat) /\ work.last \in Nat
  BY DEF TypeOK, LogT, ReactorT, WorkT
<1>2. log'.published <= log'.issued /\ log'.durable <= log'.issued
  BY <1>1 DEF Frontier
<1>3. \A k \in DOMAIN p : p[k].last \in Nat
  <2>1. \A k \in DOMAIN p : p[k] \in WorkT
    BY PendingElem DEF TypeOK, ReactorT
  <2> QED BY <2>1 DEF WorkT
<1>4. \A k \in DOMAIN p : p[k].last <= log.issued => p[k].last <= log'.issued
  BY <1>1, <1>3
<1>5. work.op = "fence" => \A k \in DOMAIN p : p[k].op # "fence"
  BY NoFence
<1> HIDE DEF p, P
<1>6. OneFence(log', P)
  <2>1. CASE work.op = "fence"
    BY <1>0, <1>1, <1>2, <1>5, <2>1 DEF OneFence
  <2>2. CASE work.op # "fence"
    BY <1>0, <1>4, <2>2 DEF OneFence, Frontier, p
  <2> QED BY <2>1, <2>2
<1>7. ~re.failed => Ascending(log', P, A)
  <2> SUFFICES ASSUME ~re.failed PROVE Ascending(log', P, A)
    OBVIOUS
  <2>1. \A i \in DOMAIN a : a[i] \in DOMAIN p
    BY DEF KernelInv, OrderedAppends, p
  <2>2. Ascending(log, p, a)
    BY DEF Frontier, p
  <2>3. \A i \in DOMAIN a : /\ log'.published <= P[a[i]].last
                            /\ P[a[i]].last <= log'.issued
                            /\ P[a[i]].last = p[a[i]].last
    BY <1>0, <1>4, <2>1, <2>2 DEF Ascending
  <2>4. CASE work.op # "append"
    <3>1. A = a
      BY <2>4
    <3> HIDE DEF A, a
    <3>2. \A i, j \in DOMAIN a : i < j => P[a[i]].last <= P[a[j]].last
      BY <2>2, <2>3 DEF Ascending
    <3> QED BY <2>3, <3>1, <3>2 DEF Ascending
  <2>5. CASE work.op = "append"
    <3> DEFINE z == Len(a) + 1
    <3>1. A = Append(a, t)
      BY <2>5
    <3>2. /\ DOMAIN a = 1..Len(a) /\ Len(a) \in Nat /\ DOMAIN A = 1..z
          /\ A[z] = t /\ \A i \in DOMAIN a : A[i] = a[i]
      BY <1>1, <3>1
    <3> HIDE DEF z, A, a
    <3>3. \A i \in DOMAIN A : (i \in DOMAIN a /\ A[i] = a[i]) \/ (i = z /\ A[i] = t)
      BY <3>2 DEF z
    <3>4. \A i, j \in DOMAIN A : i < j => i \in DOMAIN a
      BY <3>2 DEF z
    <3>5. P[t].last = log'.issued
      BY <1>0, <2>5
    <3>6. \A i \in DOMAIN A : log'.published <= P[A[i]].last /\ P[A[i]].last <= log'.issued
      BY <1>1, <1>2, <2>3, <3>3, <3>5
    <3>7. ASSUME NEW i \in DOMAIN A, NEW j \in DOMAIN A, i < j
          PROVE  P[A[i]].last <= P[A[j]].last
      <4>1. i \in DOMAIN a /\ A[i] = a[i]
        BY <3>2, <3>4, <3>7
      <4>2. CASE j \in DOMAIN a /\ A[j] = a[j]
        BY <2>2, <2>3, <3>7, <4>1, <4>2 DEF Ascending
      <4>3. CASE A[j] = t
        BY <2>3, <3>5, <4>1, <4>3
      <4> QED BY <3>3, <4>2, <4>3
    <3> QED BY <3>6, <3>7 DEF Ascending
  <2> QED BY <2>4, <2>5
<1>8. OneFence(log, re.pending)' /\ (~re'.failed => Ascending(log, re.pending, re.appends)')
  BY <1>6, <1>7 DEF OneFence, Ascending, P
<1> QED BY <1>2, <1>8 DEF Frontier

\* A READ leaves the queue.
LEMMA ReadsAnswers ==
  ASSUME TypeOK, TypeOK', AnswersInv, KernelInv, KernelInv', Reads
  PROVE  AnswersInv'
<1> DEFINE c == Head(re.reads)
           X == ToSet(c.ids)
<1>0. /\ re.reads # <<>> /\ ~re.failed /\ c.boundary <= log.published
      /\ re.pc = "reads" /\ UNCHANGED <<front, reqs, mailbox, log>>
  BY DEF Reads
<1>1. RestOf \in ReactorT /\ RestOf.reads = Tail(re.reads)
      /\ RestOf.pending = re.pending /\ RestOf.commands = re.commands
      /\ RestOf.appends = re.appends /\ RestOf.failed = re.failed
      /\ RestOf.cohort = re.cohort
  BY <1>0, RestIs
<1>2. Detached(X, re.commands, Tail(re.reads))
  BY <1>0, DetachRead DEF AnswersInv
<1>3. \A i \in X : /\ reqs[i].kind = "read" /\ reqs[i].boundary = c.boundary
                   /\ reqs[i].boundary <= log.published
                   /\ log.published >= reqs[i].boundary
  <2>1. re.reads \in Seq(CommandT)
    BY DEF TypeOK, ReactorT
  <2>2. c \in CommandT /\ c = re.reads[1] /\ 1 \in DOMAIN re.reads
    BY <1>0, <2>1
  <2>3. Carries(reqs, c) /\ c.op = "read"
    BY <2>2 DEF AnswersInv, Carried
  <2>4. \A i \in X : reqs[i].kind = c.op /\ reqs[i].boundary = c.boundary
    BY <2>2, <2>3, CarriedIds
  <2>5. c.boundary \in Nat /\ log.published \in Nat
    BY <2>2 DEF CommandT, TypeOK, LogT
  <2> QED BY <1>0, <2>3, <2>4, <2>5
<1> HIDE DEF X, c
<1>4. log.issued <= log'.issued
  BY <1>0 DEF TypeOK, LogT
<1>5. ASSUME re'.commands = re.commands
      PROVE  OneBarrier' /\ Supported'
  BY <1>0, <1>5, BarrierKeep, SupportedKeep DEF AnswersInv
<1>6. CASE /\ Same(RestOf, re') /\ re'.pc = "reads" /\ answer' = Answer(answer, X, "ok")
  <2>1. /\ re'.commands = re.commands /\ re'.reads = Tail(re.reads)
        /\ re'.pending = re.pending /\ re'.cohort = re.cohort
        /\ re'.failed = re.failed /\ re'.appends = re.appends
    BY <1>1, <1>6 DEF Same
  <2>2. CohortOwned' /\ Frontier'
    BY <1>0, <2>1, CohortKeep, FrontierSame DEF AnswersInv
  <2> QED BY <1>0, <1>2, <1>3, <1>5, <1>6, <2>1, <2>2, AnsweredAway
<1>7. CASE /\ re'.reads = RestOf.reads /\ re'.commands = re.commands
           /\ re'.pending = re.pending /\ re'.cohort = re.cohort /\ re'.failed
           /\ answer' = Answer(answer, X, "err")
  <2>1. CohortOwned' /\ Frontier'
    BY <1>0, <1>7, CohortKeep, FrontierSame DEF AnswersInv
  <2> QED BY <1>0, <1>1, <1>2, <1>5, <1>7, <2>1, AnsweredAway
<1>8. ASSUME NEW w \in WorkT, w.op = "read", ToSet(w.ids) = X, NotOwned(RestOf, w)
      PROVE  AnswersInv'
  <2>1. re'.commands = re.commands
    BY <1>1, <1>8, FailingIs DEF NotOwned
  <2> QED BY <1>0, <1>1, <1>2, <1>4, <1>5, <1>8, <2>1, NotOwnedAnswers
<1>9. ASSUME NEW w \in WorkT, w.op = "read", ToSet(w.ids) = X, NEW t \in Nat \ {0},
             OwnedAs(RestOf, w, t)
      PROVE  AnswersInv'
  <2>1. /\ re'.commands = re.commands /\ re'.reads = Tail(re.reads)
        /\ re'.cohort = re.cohort /\ re'.failed = re.failed
        /\ re'.appends = re.appends /\ t \notin DOMAIN re.pending
        /\ answer' = answer
        /\ re'.pending = [k \in DOMAIN re.pending \cup {t} |->
                            IF k = t THEN w ELSE re.pending[k]]
    BY <1>1, <1>9 DEF OwnedAs
  <2>2. Truthful(reqs, w, re'.failed, log'.published)
    BY <1>0, <1>3, <1>9 DEF Truthful
  <2>3. Frontier'
    BY <1>0, <1>4, <1>9, <2>1, FrontierOwned DEF AnswersInv
  <2>4. CohortOwned'
    BY <1>0, <2>1 DEF CohortOwned, AnswersInv
  <2> QED BY <1>0, <1>2, <1>5, <1>9, <2>1, <2>2, <2>3, <2>4, OwnedAway
<1> QED BY <1>6, <1>7, <1>8, <1>9 DEF Reads, X, c

\* A batch is issued: what it needs is issued before it, so its ordinals end
\* where the log's do.
LEMMA IssuedTrue ==
  ASSUME TypeOK, AnswersInv, re.commands # <<>>, Head(re.commands).op = "append",
         NEW failed, re.pc # "gone", re.failed => failed, NEW published
  PROVE  Truthful(reqs, AppendWork, failed, published)
<1> DEFINE c == Head(re.commands)
           ids == c.ids
           n == log.issued
<1>1. c \in CommandT /\ c = re.commands[1] /\ 1 \in DOMAIN re.commands
      /\ re.commands \in Seq(CommandT)
  BY HeadType
<1>2. Carries(reqs, c) /\ Batch(reqs, ids)
  BY <1>1 DEF AnswersInv, Carried, Carries
<1>3. ToSet(ids) \subseteq DOMAIN reqs
  <2>1. ToSet(ids) \subseteq IdsOf(re.commands)
    BY HeadIds DEF AnswersInv
  <2> QED BY <2>1, Requests DEF AnswersInv
<1>4. AppendWork.op = "append" /\ AppendWork.ids = ids
      /\ AppendWork.last = n + Len(ids)
  BY AppendWorkIs
<1>5. /\ ids \in Seq(Nat) /\ Len(ids) \in Nat /\ DOMAIN ids = 1..Len(ids)
      /\ n \in Nat
  <2>1. ids \in Seq(Nat)
    BY <1>1 DEF CommandT
  <2> QED BY <2>1 DEF TypeOK, LogT
<1>6. 1 \in DOMAIN ids /\ ids[1] \in DOMAIN reqs /\ reqs[ids[1]].boundary \in Nat
  <2>1. reqs \in Seq(RequestT)
    BY DEF TypeOK
  <2> QED BY <1>1, <1>2, <1>3, <2>1, CarriesIs
<1>7. failed \/ reqs[ids[1]].boundary - 1 <= n
  <2> SUFFICES ASSUME ~failed PROVE reqs[ids[1]].boundary - 1 <= n
    OBVIOUS
  <2>1. InOrder(reqs, n, re.commands, mailbox, front.packing, front.admitted)
    BY DEF Live, AnswersInv, Supported
  <2>2. Needs(reqs, c) <= n
    BY <1>1, <2>1, HeadIssued
  <2> QED BY <2>2 DEF Needs
<1> HIDE DEF c, ids, n
<1>8. ASSUME NEW i \in ToSet(ids)
      PROVE  reqs[i].kind \in {"write", "zero"}
             /\ (failed \/ reqs[i].boundary <= n + Len(ids))
  <2>1. PICK j \in DOMAIN ids : ids[j] = i
    BY <1>8 DEF ToSet
  <2>2. /\ reqs[i].kind \in {"write", "zero"}
        /\ reqs[i].boundary = reqs[ids[1]].boundary + j - 1
    BY <1>2, <2>1 DEF Batch
  <2> DEFINE b == reqs[ids[1]].boundary
             x == reqs[i].boundary
             l == Len(ids)
  <2>3. b \in Nat /\ l \in Nat /\ j \in 1..l /\ x = b + j - 1 /\ n \in Nat
    BY <1>5, <1>6, <2>2
  <2>4. failed \/ b - 1 <= n
    BY <1>7
  <2> HIDE DEF b, x, l
  <2>5. failed \/ x <= n + l
    BY <2>3, <2>4
  <2> QED BY <2>2, <2>5 DEF x, l
<1> QED BY <1>4, <1>8 DEF Truthful

LEMMA IssuesAnswers ==
  ASSUME TypeOK, TypeOK', AnswersInv, KernelInv, KernelInv', Issues
  PROVE  AnswersInv'
<1> DEFINE c == Head(re.commands)
           X == ToSet(c.ids)
<1>0. /\ re.commands # <<>> /\ c.op = "append"
      /\ log'.issued = log.issued + Len(c.ids)
      /\ log'.published = log.published /\ log'.durable = log.durable
      /\ log'.cohort = log.cohort /\ re.pc = "dispatch"
      /\ UNCHANGED <<front, reqs, mailbox>>
  BY DEF Issues
<1>1. /\ Popped \in ReactorT /\ Popped.pending = re.pending
      /\ Popped.commands = Tail(re.commands) /\ Popped.reads = re.reads
      /\ Popped.appends = re.appends /\ Popped.failed = re.failed
      /\ Popped.cohort = re.cohort
  BY <1>0, PoppedIs DEF TypeOK
<1>2. Detached(X, Tail(re.commands), re.reads)
  BY <1>0, DetachHead DEF AnswersInv
<1>3. /\ AppendWork \in WorkT /\ AppendWork.op = "append"
      /\ ToSet(AppendWork.ids) = X /\ AppendWork.last = log'.issued
  BY <1>0, AppendWorkIs
<1>4. log.issued <= log'.issued /\ log'.issued >= log.issued + Len(c.ids)
  <2>1. c.ids \in Seq(Nat)
    BY <1>0, HeadType
  <2>2. Len(c.ids) \in Nat
    BY <2>1
  <2>3. log.issued \in Nat
    BY DEF TypeOK, LogT
  <2> QED BY <1>0, <2>2, <2>3
<1>5. ASSUME re'.commands = Tail(re.commands)
      PROVE  OneBarrier'
  BY <1>0, <1>5, TailBarrier
<1>6. CASE NotOwned(Popped, AppendWork)
  <2>1. re'.commands = Tail(re.commands)
    BY <1>1, <1>6, FailingIs DEF NotOwned
  <2> HIDE DEF X
  <2> QED BY <1>0, <1>1, <1>2, <1>3, <1>4, <1>5, <1>6, <2>1, NotOwnedAnswers
<1>7. ASSUME NEW t \in Nat \ {0}, OwnedAs(Popped, AppendWork, t)
      PROVE  AnswersInv'
  <2>1. /\ re'.commands = Tail(re.commands) /\ re'.reads = re.reads
        /\ re'.cohort = re.cohort /\ re'.failed = re.failed
        /\ re'.appends = Append(re.appends, t) /\ t \notin DOMAIN re.pending
        /\ answer' = answer
        /\ re'.pending = [k \in DOMAIN re.pending \cup {t} |->
                            IF k = t THEN AppendWork ELSE re.pending[k]]
    BY <1>1, <1>3, <1>7 DEF OwnedAs
  <2>2. Truthful(reqs, AppendWork, re'.failed, log'.published)
    BY <1>0, <2>1, IssuedTrue
  <2> HIDE DEF X
  <2>3. Supported' /\ OneBarrier'
    BY <1>0, <1>4, <1>5, <2>1, TailSupported
  <2>4. CohortOwned'
    BY <1>0, <2>1 DEF CohortOwned, AnswersInv
  <2> DEFINE w == AppendWork
  <2>5. /\ w \in WorkT /\ w.op = "append" /\ w.last = log'.issued
        /\ ToSet(w.ids) = X /\ Truthful(reqs, w, re'.failed, log'.published)
    BY <1>3, <2>2
  <2>6. /\ re'.pending = [k \in DOMAIN re.pending \cup {t} |->
                            IF k = t THEN w ELSE re.pending[k]]
        /\ re'.appends = IF w.op = "append" THEN Append(re.appends, t) ELSE re.appends
    BY <1>3, <2>1
  <2> HIDE DEF w
  <2>7. Frontier'
    BY <1>0, <1>4, <2>1, <2>5, <2>6, FrontierOwned DEF AnswersInv
  <2>8. PICK D : D = Tail(re.commands)
    OBVIOUS
  <2>9. /\ log'.durable = log.durable /\ log'.published = log.published
        /\ UNCHANGED <<reqs, mailbox>> /\ front'.packing = front.packing
        /\ front'.admitted = front.admitted
        /\ answer' = answer /\ (re.failed => re'.failed)
        /\ re'.reads = re.reads /\ t \notin DOMAIN re.pending
        /\ Detached(X, D, re.reads) /\ re'.commands = D
    BY <1>0, <1>2, <2>1, <2>8
  <2> QED BY <2>3, <2>4, <2>5, <2>6, <2>7, <2>9, OwnedAway
<1> QED BY <1>6, <1>7 DEF Issues

\* A FLUSH joins the open cohort.
LEMMA ConcatSet ==
  ASSUME NEW s \in Seq(Nat), NEW u \in Seq(Nat)
  PROVE  ToSet(s \o u) = ToSet(s) \cup ToSet(u)
<1> DEFINE v == s \o u
           n == Len(s)
<1>1. /\ n \in Nat /\ DOMAIN s = 1..n /\ Len(u) \in Nat /\ DOMAIN u = 1..Len(u)
      /\ DOMAIN v = 1..(n + Len(u))
      /\ \A i \in DOMAIN s : i \in DOMAIN v /\ v[i] = s[i]
      /\ \A i \in DOMAIN u : i + n \in DOMAIN v /\ v[i + n] = u[i]
  OBVIOUS
<1> HIDE DEF v, n
<1>2. \A k \in DOMAIN v :
        (k \in DOMAIN s /\ v[k] = s[k]) \/ (k - n \in DOMAIN u /\ v[k] = u[k - n])
  <2> TAKE k \in DOMAIN v
  <2>1. CASE k <= n
    BY <1>1, <2>1
  <2>2. CASE ~(k <= n)
    <3>1. k - n \in DOMAIN u /\ (k - n) + n = k
      BY <1>1, <2>2
    <3> QED BY <1>1, <3>1
  <2> QED BY <2>1, <2>2
<1>3. ToSet(v) \subseteq ToSet(s) \cup ToSet(u)
  BY <1>2 DEF ToSet
<1>4. ToSet(s) \cup ToSet(u) \subseteq ToSet(v)
  BY <1>1 DEF ToSet
<1> QED BY <1>3, <1>4 DEF v

LEMMA JoinsAnswers ==
  ASSUME TypeOK, TypeOK', AnswersInv, KernelInv, KernelInv', Joins,
         Head(re.commands).op = "flush"
  PROVE  AnswersInv'
<1> DEFINE p == re.pending
           P == re'.pending
           t == re.cohort
           c == Head(re.commands)
           X == ToSet(c.ids)
<1>0. /\ re.commands # <<>> /\ re'.commands = Tail(re.commands)
      /\ t # 0 /\ c.boundary <= p[t].last /\ re.pc = "dispatch"
      /\ re'.reads = re.reads /\ re'.appends = re.appends
      /\ re'.cohort = t /\ re'.failed = re.failed /\ re'.pc = "dispatch"
      /\ UNCHANGED <<answer, front, reqs, mailbox, log>>
  BY DEF Joins
<1>1. t \in DOMAIN p /\ p[t].op = "fence"
  BY <1>0 DEF AnswersInv, CohortOwned
<1>2. p[t] \in WorkT /\ p[t].ids \in Seq(Nat) /\ p[t].last \in Nat
  <2>1. p[t] \in WorkT
    BY <1>1, PendingElem DEF TypeOK, ReactorT
  <2> QED BY <2>1 DEF WorkT
<1>3. c \in CommandT /\ c.ids \in Seq(Nat) /\ c = re.commands[1]
      /\ 1 \in DOMAIN re.commands /\ c.boundary \in Nat
  BY <1>0, HeadType
<1>4. /\ DOMAIN P = DOMAIN p /\ (\A k \in DOMAIN p \ {t} : P[k] = p[k])
      /\ P[t].op = "fence" /\ P[t].last = p[t].last
      /\ ToSet(P[t].ids) = ToSet(p[t].ids) \cup X
  <2> DEFINE v == [p[t] EXCEPT !.ids = @ \o c.ids]
  <2>1. v.op = "fence" /\ v.last = p[t].last /\ v.ids = p[t].ids \o c.ids
    BY <1>1, <1>2 DEF WorkT
  <2>2. ToSet(v.ids) = ToSet(p[t].ids) \cup X
    BY <1>2, <1>3, <2>1, ConcatSet
  <2>3. P = [p EXCEPT ![t] = v]
    BY DEF Joins
  <2> HIDE DEF v, P, p, t, X
  <2> QED BY <1>1, <2>1, <2>2, <2>3
<1>5. Detached(X, Tail(re.commands), re.reads)
  BY <1>0, DetachHead DEF AnswersInv
<1>6. \A i \in X : reqs[i].kind = "flush" /\ reqs[i].boundary <= p[t].last
  <2>1. Carries(reqs, c)
    BY <1>3 DEF AnswersInv, Carried
  <2>2. \A i \in X : reqs[i].kind = "flush" /\ reqs[i].boundary = c.boundary
    BY <1>3, <2>1, CarriedIds
  <2> QED BY <1>0, <2>2
<1>7. Supported' /\ OneBarrier'
  <2>1. log.issued <= log'.issued
    BY <1>0 DEF TypeOK, LogT
  <2> QED BY <1>0, <2>1, TailSupported, TailBarrier
<1>8. Unanswered' = Unanswered /\ Fresh' /\ AnswersHonest'
  BY <1>0, Silent DEF AnswersInv
<1> HIDE DEF P, X, c
<1>9. OwnedOnce' /\ OwnedUnanswered'
  <2>1. Packed' = Packed /\ Apart(mailbox) /\ Apart(p)
        /\ Separate(Packed, IdsOf(mailbox), IdsOf(re.commands), IdsOf(re.reads), IdsOf(p))
    BY <1>0 DEF Packed, AnswersInv, OwnedOnce
  <2>2. IdsOf(P) = IdsOf(p) \cup X /\ Apart(P)
    <3>1. \A k \in DOMAIN p \ {t} : P[k].ids = p[k].ids
      BY <1>4
    <3>2. X \cap IdsOf(p) = {}
      BY <1>5 DEF Detached
    <3> HIDE DEF p, t
    <3> QED BY <1>1, <1>4, <2>1, <3>1, <3>2, JoinIds
  <2>3. /\ Packed \subseteq Unanswered /\ IdsOf(mailbox) \subseteq Unanswered
        /\ IdsOf(re.commands) \subseteq Unanswered
        /\ IdsOf(re.reads) \subseteq Unanswered /\ IdsOf(p) \subseteq Unanswered
    BY DEF AnswersInv, OwnedUnanswered
  <2> HIDE DEF p
  <2>4. Separate(Packed', IdsOf(mailbox'), IdsOf(re'.commands), IdsOf(re'.reads), IdsOf(P))
    BY <1>0, <1>5, <2>1, <2>2 DEF Separate, Detached, p
  <2>5. /\ Packed' \subseteq Unanswered' /\ IdsOf(mailbox') \subseteq Unanswered'
        /\ IdsOf(re'.commands) \subseteq Unanswered'
        /\ IdsOf(re'.reads) \subseteq Unanswered' /\ IdsOf(P) \subseteq Unanswered'
    BY <1>0, <1>5, <1>8, <2>1, <2>2, <2>3 DEF Detached
  <2>6. Apart(mailbox') /\ Apart(re'.commands) /\ Apart(re'.reads) /\ Apart(P)
    BY <1>0, <1>5, <2>1, <2>2 DEF Detached
  <2> QED BY <2>4, <2>5, <2>6, OwnersIntro DEF P
<1>10. Carried'
  <2>1. /\ \A i \in DOMAIN re'.commands :
             \E j \in DOMAIN re.commands : re'.commands[i] = re.commands[j]
        /\ \A i \in DOMAIN re'.reads :
             \E j \in DOMAIN re.reads : re'.reads[i] = re.reads[j]
    BY <1>0, <1>5 DEF Detached
  <2> QED BY <1>0, <2>1, CarriedKeep DEF AnswersInv
<1>11. PendingTrue'
  <2>1. ASSUME NEW k \in DOMAIN P
        PROVE  Truthful(reqs, P[k], re'.failed, log'.published)
    <3>0. k \in DOMAIN p /\ Truthful(reqs, p[k], re.failed, log.published)
      BY <1>4, <2>1 DEF AnswersInv, PendingTrue
    <3>1. CASE k = t
      <4>1. \A i \in ToSet(P[k].ids) : /\ reqs[i].kind = "flush"
                                       /\ re'.failed \/ reqs[i].boundary <= P[k].last
        BY <1>0, <1>1, <1>4, <1>6, <3>0, <3>1 DEF Truthful
      <4> QED BY <1>4, <3>1, <4>1 DEF Truthful
    <3>2. CASE k # t
      BY <1>0, <1>4, <3>0, <3>2
    <3> QED BY <3>1, <3>2
  <2> QED BY <1>0, <2>1 DEF PendingTrue, Truthful, P
<1>12. Frontier'
  <2>1. /\ log.published <= log.issued /\ log.durable <= log.issued
        /\ ~re.failed => Ascending(log, p, re.appends)
        /\ OneFence(log, p)
    BY DEF AnswersInv, Frontier
  <2>2. OneFence(log, P)
    BY <1>1, <1>4, <2>1 DEF OneFence
  <2>3. ASSUME ~re.failed
        PROVE  Ascending(log, P, re.appends)
    <3>1. \A i \in DOMAIN re.appends : re.appends[i] \in DOMAIN p
      BY <2>3 DEF KernelInv, OrderedAppends
    <3>2. \A i \in DOMAIN re.appends : P[re.appends[i]].last = p[re.appends[i]].last
      BY <1>4, <3>1
    <3> QED BY <2>1, <2>3, <3>2 DEF Ascending
  <2>4. OneFence(log, re.pending)' /\ (~re'.failed => Ascending(log, re.pending, re.appends)')
    BY <1>0, <2>2, <2>3 DEF OneFence, Ascending, P
  <2> QED BY <1>0, <2>1, <2>4 DEF Frontier
<1>13. CohortOwned'
  BY <1>0, <1>1, <1>4 DEF CohortOwned, P
<1> QED BY <1>7, <1>8, <1>9, <1>10, <1>11, <1>12, <1>13 DEF AnswersInv

\* An attachment has asked for its rotation.
LEMMA MarksAnswers ==
  ASSUME TypeOK, TypeOK', AnswersInv, KernelInv', Marks
  PROVE  AnswersInv'
<1> DEFINE C == re.commands
           D == re'.commands
<1>0. C \in Seq(CommandT) /\ C # <<>> /\ 1 \in DOMAIN C /\ C[1] \in CommandT
      /\ D = [C EXCEPT ![1] = [C[1] EXCEPT !.rotated = TRUE]]
      /\ re'.reads = re.reads /\ re'.pending = re.pending
      /\ re'.failed = re.failed /\ re'.cohort = re.cohort
      /\ re'.appends = re.appends
      /\ re.pc = "dispatch" /\ UNCHANGED <<front, reqs, answer, mailbox, log>>
  <2>1. C \in Seq(CommandT) /\ C # <<>>
    BY DEF TypeOK, ReactorT, Marks
  <2>2. 1 \in DOMAIN C /\ C[1] \in CommandT
    BY <2>1
  <2> QED BY <2>1, <2>2 DEF Marks
<1>1. /\ DOMAIN D = DOMAIN C
      /\ \A k \in DOMAIN C : /\ D[k].op = C[k].op /\ D[k].ids = C[k].ids
                             /\ D[k].boundary = C[k].boundary
  <2> DEFINE v == [C[1] EXCEPT !.rotated = TRUE]
  <2>1. v.op = C[1].op /\ v.ids = C[1].ids /\ v.boundary = C[1].boundary
    BY <1>0 DEF CommandT
  <2>2. D = [C EXCEPT ![1] = v]
    BY <1>0
  <2> HIDE DEF v, D
  <2> QED BY <1>0, <2>1, <2>2
<1>2. Unanswered' = Unanswered /\ Fresh' /\ AnswersHonest'
  BY <1>0, Silent DEF AnswersInv
<1> HIDE DEF C, D
<1>3. IdsOf(D) \subseteq IdsOf(C) /\ (Apart(C) => Apart(D))
  BY <1>1, SubIds
<1>4. OwnedOnce' /\ OwnedUnanswered'
  <2>1. Unanswered' = Unanswered \ {} /\ Packed' \subseteq Packed \ {}
    BY <1>0, <1>2 DEF Packed
  <2>2. /\ Apart(mailbox') /\ IdsOf(mailbox') \subseteq IdsOf(mailbox) \ {}
        /\ Apart(re'.commands) /\ IdsOf(re'.commands) \subseteq IdsOf(re.commands) \ {}
        /\ Apart(re'.reads) /\ IdsOf(re'.reads) \subseteq IdsOf(re.reads) \ {}
        /\ Apart(re'.pending) /\ IdsOf(re'.pending) \subseteq IdsOf(re.pending) \ {}
    BY <1>0, <1>3 DEF AnswersInv, OwnedOnce, C, D
  <2> QED BY <2>1, <2>2, OwnersShrink DEF AnswersInv
<1>5. Carried'
  <2>1. \A i \in DOMAIN D : Carries(reqs, D[i]) /\ D[i].op # "read"
    BY <1>1 DEF AnswersInv, Carried, Carries, C
  <2> QED BY <1>0, <2>1 DEF AnswersInv, Carried, D
<1>6. Supported'
  <2> SUFFICES ASSUME Live'
               PROVE  InOrder(reqs, log.issued, D, mailbox, front.packing,
                              front.admitted)
    BY <1>0 DEF Supported, D
  <2>1. InOrder(reqs, log.issued, C, mailbox, front.packing, front.admitted)
    BY <1>0 DEF Live, AnswersInv, Supported, C
  <2> QED BY <1>0, <2>1, OrderMark
<1>7. OneBarrier'
  <2>1. /\ Barriers(mailbox, C) => Barriers(mailbox, D)
        /\ NoBarriers(mailbox, C) => NoBarriers(mailbox, D)
    BY <1>1 DEF Barriers, NoBarriers, IsBarrier
  <2>2. /\ Barriers(mailbox', re'.commands)
        /\ front'.barrier = "none" => NoBarriers(mailbox', re'.commands)
        /\ front'.barrier # "none" => front'.packing = <<>>
    BY <1>0, <2>1 DEF AnswersInv, OneBarrier, C, D
  <2> QED BY <2>2 DEF OneBarrier, Barriers, NoBarriers
<1>8. PendingTrue' /\ Frontier' /\ CohortOwned'
  <2>1. Keeps(re.pending, re'.pending)
    BY <1>0, KeepsRefl
  <2>2. log' \in LogT /\ log.published <= log'.published
    BY <1>0 DEF TypeOK, LogT
  <2> QED BY <1>0, <2>1, <2>2, PendingKeep, FrontierSame, CohortKeep DEF AnswersInv
<1> QED BY <1>2, <1>4, <1>5, <1>6, <1>7, <1>8 DEF AnswersInv

\* The waiters of a fence, at most one, and the queue q they left.
Waits(q, waiters) ==
  /\ q.pending = re.pending /\ q.reads = re.reads /\ q.appends = re.appends
  /\ q.cohort = re.cohort /\ q.failed = re.failed
  /\ waiters \in Seq(Nat) /\ Len(waiters) <= 1
  /\ Detached(ToSet(waiters), q.commands, re.reads)
  /\ \A i \in ToSet(waiters) : /\ i \in DOMAIN reqs /\ reqs[i].kind = "flush"
                               /\ re.failed \/ reqs[i].boundary <= log.issued
  /\ Live => InOrder(reqs, log.issued, q.commands, mailbox, front.packing,
                     front.admitted)
  /\ Barriers(mailbox, q.commands)
  /\ front.barrier = "none" => NoBarriers(mailbox, q.commands)

\* The waiters are back at the head of the queue.
LEMMA RequeuedAnswers ==
  ASSUME TypeOK, TypeOK', AnswersInv, KernelInv', NEW q \in ReactorT, NEW waiters,
         Waits(q, waiters), Requeued(q, waiters), re.pc \in {"dispatch", "reads"},
         UNCHANGED <<front, reqs, mailbox, answer, log>>
  PROVE  AnswersInv'
<1> DEFINE X == ToSet(waiters)
           C == q.commands
           W == [i \in DOMAIN waiters |->
                   Command("flush", <<waiters[i]>>, reqs[waiters[i]].boundary)]
           D == re'.commands
<1>0. /\ C \in Seq(CommandT) /\ waiters \in Seq(Nat) /\ D = W \o C
      /\ Detached(X, C, re.reads) /\ DOMAIN W = DOMAIN waiters
      /\ re'.reads = re.reads /\ re'.pending = re.pending
      /\ re'.failed = re.failed /\ re'.cohort = re.cohort
      /\ re'.appends = re.appends
  BY DEF Waits, Requeued, ReactorT
<1>1. \A i \in DOMAIN waiters :
        /\ W[i].op = "flush" /\ W[i].ids = <<waiters[i]>>
        /\ W[i].boundary = reqs[waiters[i]].boundary
        /\ W[i] = Command("flush", <<waiters[i]>>, reqs[waiters[i]].boundary)
  BY DEF Command
<1>2. \A i \in DOMAIN waiters :
        /\ waiters[i] \in DOMAIN reqs /\ reqs[waiters[i]].kind = "flush"
        /\ reqs[waiters[i]] \in RequestT /\ waiters[i] \in X
        /\ re.failed \/ reqs[waiters[i]].boundary <= log.issued
  <2>1. \A i \in DOMAIN waiters : waiters[i] \in X
    BY DEF ToSet
  <2>2. \A i \in DOMAIN reqs : reqs[i] \in RequestT
    BY DEF TypeOK
  <2> QED BY <2>1, <2>2 DEF Waits
<1> HIDE DEF W
<1>3. W \in Seq(CommandT)
  <2>1. \A i \in 1..Len(waiters) : W[i] \in CommandT
    <3>1. \A i \in 1..Len(waiters) :
            /\ <<waiters[i]>> \in Seq(Nat) /\ reqs[waiters[i]].boundary \in Nat
            /\ i \in DOMAIN waiters
      BY <1>0, <1>2 DEF RequestT
    <3>2. \A i \in 1..Len(waiters) :
            Command("flush", <<waiters[i]>>, reqs[waiters[i]].boundary) \in CommandT
      BY <3>1 DEF Command, CommandT
    <3> QED BY <1>1, <3>1, <3>2
  <2>2. DOMAIN W = 1..Len(waiters) /\ Len(waiters) \in Nat
    BY <1>0
  <2>3. W = [i \in 1..Len(waiters) |-> W[i]]
    BY <1>0, <2>2 DEF W
  <2> QED BY <2>1, <2>2, <2>3, IsASeq
<1>4. IdsOf(W) = X /\ Apart(W)
  <2>1. \A i \in DOMAIN W : ToSet(W[i].ids) = {waiters[i]}
    <3>1. \A x : ToSet(<<x>>) = {x}
      BY DEF ToSet
    <3> QED BY <1>0, <1>1, <3>1
  <2>2. IdsOf(W) = X
    <3>1. \A x : x \in IdsOf(W) <=> \E i \in DOMAIN W : x \in ToSet(W[i].ids)
      BY DEF IdsOf
    <3>2. \A x : x \in X <=> \E i \in DOMAIN waiters : x = waiters[i]
      BY DEF ToSet
    <3>3. DOMAIN W = DOMAIN waiters
      BY <1>0
    <3> HIDE DEF X
    <3>4. \A x : x \in IdsOf(W) <=> x \in X
      BY <2>1, <3>1, <3>2, <3>3
    <3> QED BY <3>4
  <2>3. \A i, j \in DOMAIN W : i = j
    BY <1>0 DEF Waits
  <2> QED BY <2>2, <2>3 DEF Apart
<1>5. IdsOf(D) = X \cup IdsOf(C) /\ Apart(D)
  BY <1>0, <1>3, <1>4, ConcatIds DEF Detached
<1>6. \A k \in DOMAIN D : (\E i \in DOMAIN W : D[k] = W[i]) \/ (\E i \in DOMAIN C : D[k] = C[i])
  <2> DEFINE n == Len(W)
  <2>1. /\ n \in Nat /\ DOMAIN W = 1..n /\ Len(C) \in Nat /\ DOMAIN C = 1..Len(C)
        /\ DOMAIN D = 1..(n + Len(C))
        /\ \A i \in 1..n : D[i] = W[i]
        /\ \A i \in (n + 1)..(n + Len(C)) : D[i] = C[i - n]
    BY <1>0, <1>3
  <2> HIDE DEF n, D, C
  <2> TAKE k \in DOMAIN D
  <2>2. k \in 1..n \/ (k \in (n + 1)..(n + Len(C)) /\ k - n \in 1..Len(C))
    BY <2>1
  <2> QED BY <2>1, <2>2
<1>7. Unanswered' = Unanswered /\ Fresh' /\ AnswersHonest'
  BY Silent DEF AnswersInv
<1> HIDE DEF X, C, D
<1>8. OwnedOnce' /\ OwnedUnanswered'
  <2>1. Packed' = Packed /\ Apart(mailbox) /\ Apart(re.pending) /\ Apart(re.reads)
        /\ Separate(Packed, IdsOf(mailbox), IdsOf(re.commands), IdsOf(re.reads),
                    IdsOf(re.pending))
    BY DEF Packed, AnswersInv, OwnedOnce
  <2>2. /\ Packed \subseteq Unanswered /\ IdsOf(mailbox) \subseteq Unanswered
        /\ IdsOf(re.commands) \subseteq Unanswered
        /\ IdsOf(re.reads) \subseteq Unanswered /\ IdsOf(re.pending) \subseteq Unanswered
    BY DEF AnswersInv, OwnedUnanswered
  <2>3. X \cap IdsOf(re.reads) = {}
    BY <1>0 DEF Detached
  <2>4. Separate(Packed', IdsOf(mailbox'), IdsOf(D), IdsOf(re'.reads), IdsOf(re'.pending))
    BY <1>0, <1>5, <2>1, <2>3 DEF Separate, Detached
  <2>5. IdsOf(D) \subseteq Unanswered
    BY <1>0, <1>5, <2>2 DEF Detached
  <2> QED BY <1>0, <1>5, <1>7, <2>1, <2>2, <2>4, <2>5, OwnersIntro DEF D
<1>9. Carried'
  <2>1. \A i \in DOMAIN W : Carries(reqs, W[i]) /\ W[i].op # "read"
    <3>1. \A i \in DOMAIN W :
            reqs[waiters[i]] = [kind |-> "flush", boundary |-> reqs[waiters[i]].boundary]
      BY <1>0, <1>2 DEF RequestT
    <3>2. \A x : Len(<<x>>) = 1 /\ <<x>>[1] = x
      OBVIOUS
    <3> TAKE i \in DOMAIN W
    <3>3. W[i].op = "flush" /\ W[i].ids = <<waiters[i]>>
          /\ W[i].boundary = reqs[waiters[i]].boundary
      BY <1>0, <1>1
    <3>4. Len(W[i].ids) = 1 /\ W[i].ids[1] = waiters[i]
      BY <3>2, <3>3
    <3> QED BY <3>1, <3>3, <3>4 DEF Carries
  <2>2. \A i \in DOMAIN C : Carries(reqs, C[i]) /\ C[i].op # "read"
    BY <1>0 DEF Detached, AnswersInv, Carried
  <2>3. \A i \in DOMAIN D : Carries(reqs, D[i]) /\ D[i].op # "read"
    BY <1>6, <2>1, <2>2
  <2> QED BY <1>0, <2>3 DEF AnswersInv, Carried, D
<1>10. Supported'
  <2> SUFFICES ASSUME Live'
               PROVE  InOrder(reqs, log.issued, D, mailbox, front.packing,
                              front.admitted)
    BY DEF Supported, D
  <2>1. Live /\ ~re.failed
    BY <1>0 DEF Live
  <2>2. InOrder(reqs, log.issued, C, mailbox, front.packing, front.admitted)
    BY <2>1 DEF Waits, C
  <2>3. \A i \in DOMAIN W : Needs(reqs, W[i]) <= log.issued
    BY <1>0, <1>1, <1>2, <2>1 DEF Needs
  <2> QED BY <1>0, <1>3, <2>2, <2>3, OrderRequeue
<1>11. OneBarrier'
  <2>1. \A i \in DOMAIN W : ~IsBarrier(W[i])
    BY <1>0, <1>1 DEF IsBarrier
  <2>2. NoBarriers(mailbox, C) => NoBarriers(mailbox, D)
    BY <1>6, <2>1 DEF NoBarriers
  <2>3. Barriers(mailbox, C) => Barriers(mailbox, D)
    <3> DEFINE n == Len(W)
    <3>1. /\ n \in Nat /\ DOMAIN W = 1..n /\ Len(C) \in Nat /\ DOMAIN C = 1..Len(C)
          /\ DOMAIN D = 1..(n + Len(C))
          /\ \A i \in 1..n : D[i] = W[i]
          /\ \A i \in (n + 1)..(n + Len(C)) : D[i] = C[i - n]
      BY <1>0, <1>3
    <3> HIDE DEF n
    <3>2. \A k \in DOMAIN D : IsBarrier(D[k]) => k - n \in DOMAIN C /\ D[k] = C[k - n]
      <4> SUFFICES ASSUME NEW k \in DOMAIN D, IsBarrier(D[k])
                   PROVE  k - n \in DOMAIN C /\ D[k] = C[k - n]
        OBVIOUS
      <4>1. ~(k \in 1..n)
        BY <2>1, <3>1
      <4>2. k \in (n + 1)..(n + Len(C)) /\ k - n \in 1..Len(C)
        BY <3>1, <4>1
      <4> QED BY <3>1, <4>2
    <3>3. \A j, k \in DOMAIN D : j - n = k - n => j = k
      BY <3>1
    <3> QED BY <3>2, <3>3 DEF Barriers
  <2>4. /\ Barriers(mailbox', re'.commands)
        /\ front'.barrier = "none" => NoBarriers(mailbox', re'.commands)
        /\ front'.barrier # "none" => front'.packing = <<>>
    BY <2>2, <2>3 DEF AnswersInv, OneBarrier, Waits, C, D
  <2> QED BY <2>4 DEF OneBarrier, Barriers, NoBarriers
<1>12. PendingTrue' /\ Frontier' /\ CohortOwned'
  <2>1. Keeps(re.pending, re'.pending)
    BY <1>0, KeepsRefl
  <2>2. log' \in LogT /\ log.published <= log'.published
    BY DEF TypeOK, LogT
  <2> QED BY <1>0, <2>1, <2>2, PendingKeep, FrontierSame, CohortKeep DEF AnswersInv
<1> QED BY <1>7, <1>8, <1>9, <1>10, <1>11, <1>12 DEF AnswersInv

LEMMA FencedLogIs ==
  ASSUME log \in LogT, FencedLog
  PROVE  /\ log.cohort = NoCohort /\ log'.cohort = log.issued
         /\ log'.issued = log.issued /\ log'.published = log.published
         /\ log'.durable = log.durable
BY DEF FencedLog, LogT

\* start_fence, for the waiters of a FLUSH or for nobody.
LEMMA FenceAnswers ==
  ASSUME TypeOK, TypeOK', AnswersInv, KernelInv, KernelInv', NEW q \in ReactorT,
         NEW waiters, Waits(q, waiters), FenceOutcome(q, waiters),
         re.pc \in {"dispatch", "reads"}, UNCHANGED <<front, reqs, mailbox>>
  PROVE  AnswersInv'
<1> DEFINE X == ToSet(waiters)
           w == Work("fence", waiters, log.issued)
<1>0. /\ q.pending = re.pending /\ q.reads = re.reads /\ q.appends = re.appends
      /\ q.cohort = re.cohort /\ q.failed = re.failed /\ waiters \in Seq(Nat)
      /\ Detached(X, q.commands, q.reads) /\ log \in LogT /\ log.issued \in Nat
  BY DEF Waits, TypeOK, LogT
<1>1. w \in WorkT /\ w.op = "fence" /\ w.ids = waiters /\ w.last = log.issued
  BY <1>0, WorkType
<1>2. /\ FencedLog => \A t \in DOMAIN re.pending : re.pending[t].op # "fence"
      /\ FencedLog => /\ log.cohort = NoCohort /\ log'.cohort = log.issued
                      /\ log'.issued = log.issued /\ log'.published = log.published
                      /\ log'.durable = log.durable
  BY <1>0, FencedLogIs, NoFence DEF AnswersInv
<1>3. ASSUME re'.commands = q.commands
      PROVE  OneBarrier'
  <2>1. /\ Barriers(mailbox', re'.commands)
        /\ front'.barrier = "none" => NoBarriers(mailbox', re'.commands)
        /\ front'.barrier # "none" => front'.packing = <<>>
    BY <1>3 DEF AnswersInv, OneBarrier, Waits
  <2> QED BY <2>1 DEF OneBarrier, Barriers, NoBarriers
<1>4. ASSUME re'.commands = q.commands, re.failed => re'.failed,
             log'.issued = log.issued
      PROVE  Supported'
  <2> SUFFICES ASSUME Live'
               PROVE  InOrder(reqs, log.issued, q.commands, mailbox, front.packing,
                              front.admitted)
    BY <1>4 DEF Supported
  <2>1. Live
    BY <1>4 DEF Live
  <2> QED BY <2>1 DEF Waits
<1>5. CASE StoppedFence(q) /\ (log' = log \/ FencedLog)
  <2>1. /\ re'.commands = q.commands /\ re'.reads = q.reads
        /\ re'.pending = re.pending /\ re'.appends = re.appends
        /\ re'.failed = re.failed /\ re'.pc = "stop" /\ answer' = answer
    BY <1>0, <1>5 DEF StoppedFence, Same
  <2>2. /\ log'.issued = log.issued /\ log'.published = log.published
        /\ log'.durable = log.durable
    BY <1>2, <1>5
  <2>3. log'.cohort = log.cohort \/ \A t \in DOMAIN re.pending :
                                      re.pending[t].op # "fence"
    BY <1>2, <1>5
  <2>4. Frontier'
    BY <2>1, <2>2, <2>3, FrontierSame DEF AnswersInv
  <2>5. CohortOwned'
    BY <2>1 DEF CohortOwned
  <2>6. Supported' /\ OneBarrier'
    BY <1>3, <1>4, <2>1, <2>2
  <2> QED BY <1>0, <2>1, <2>2, <2>4, <2>5, <2>6, DroppedAway
<1>6. CASE Requeued(q, waiters) /\ UNCHANGED <<answer, health, kernel, log>>
  BY <1>6, RequeuedAnswers
<1>7. CASE FencedLog /\ NotOwned(q, w)
  <2>1. re'.commands = q.commands
    BY <1>7, FailingIs DEF NotOwned
  <2>2. OneBarrier' /\ log.issued <= log'.issued
    BY <1>0, <1>2, <1>3, <1>7, <2>1
  <2> HIDE DEF w
  <2> QED BY <1>0, <1>1, <1>2, <1>7, <2>2, NotOwnedAnswers
<1>8. ASSUME FencedLog, NEW t \in Nat \ {0}, OwnedAs(q, w, t)
      PROVE  AnswersInv'
  <2> HIDE DEF w
  <2>1. /\ re'.commands = q.commands /\ re'.reads = q.reads
        /\ re'.cohort = t /\ re'.failed = re.failed
        /\ re'.appends = re.appends /\ t \notin DOMAIN re.pending
        /\ answer' = answer
        /\ re'.pending = [k \in DOMAIN re.pending \cup {t} |->
                            IF k = t THEN w ELSE re.pending[k]]
    BY <1>0, <1>1, <1>8 DEF OwnedAs
  <2>2. Truthful(reqs, w, re'.failed, log'.published)
    BY <1>1, <2>1 DEF Truthful, Waits
  <2>3. Supported' /\ OneBarrier'
    BY <1>2, <1>3, <1>4, <1>8, <2>1
  <2>4. CohortOwned'
    <3>1. t \in DOMAIN re'.pending /\ re'.pending[t] = w
      BY <2>1
    <3> QED BY <1>1, <2>1, <3>1 DEF CohortOwned
  <2>5. Frontier'
    <3>1. log.issued <= log'.issued
      BY <1>0, <1>2, <1>8
    <3> QED BY <1>1, <1>2, <1>8, <2>1, <3>1, FrontierOwned DEF AnswersInv
  <2>6. /\ ToSet(w.ids) = X /\ log'.durable = log.durable
        /\ log'.published = log.published
    BY <1>1, <1>2, <1>8
  <2> HIDE DEF X
  <2> QED BY <1>0, <2>1, <2>2, <2>3, <2>4, <2>5, <2>6, OwnedAway
<1> QED BY <1>5, <1>6, <1>7, <1>8 DEF FenceOutcome

LEMMA FencesAloneAnswers ==
  ASSUME TypeOK, TypeOK', AnswersInv, KernelInv, KernelInv', FencesAlone
  PROVE  AnswersInv'
<1>1. PICK q \in ReactorT : Phase(q) /\ FenceOutcome(q, <<>>)
  BY DEF FencesAlone
<1>2. /\ q.pending = re.pending /\ q.reads = re.reads /\ q.appends = re.appends
      /\ q.cohort = re.cohort /\ q.failed = re.failed /\ q.commands = re.commands
  BY <1>1 DEF Phase, Same
<1>3. <<>> \in Seq(Nat) /\ Len(<<>>) <= 1 /\ ToSet(<<>>) = {}
  BY DEF ToSet
<1>4. Detached({}, re.commands, re.reads)
  BY DetachNothing DEF AnswersInv
<1>5. Waits(q, <<>>)
  BY <1>2, <1>3, <1>4 DEF Waits, AnswersInv, Supported, OneBarrier
<1> QED BY <1>1, <1>5, FenceAnswers DEF FencesAlone

LEMMA FlushFenceAnswers ==
  ASSUME TypeOK, TypeOK', AnswersInv, KernelInv, KernelInv', re.commands # <<>>,
         Head(re.commands).op = "flush", re.pc = "dispatch",
         FenceOutcome(Popped, Head(re.commands).ids),
         UNCHANGED <<front, reqs, mailbox>>
  PROVE  AnswersInv'
<1> DEFINE c == Head(re.commands)
           X == ToSet(c.ids)
<1>1. /\ Popped \in ReactorT /\ Popped.pending = re.pending
      /\ Popped.commands = Tail(re.commands) /\ Popped.reads = re.reads
      /\ Popped.appends = re.appends /\ Popped.failed = re.failed
      /\ Popped.cohort = re.cohort
  BY PoppedIs DEF TypeOK
<1>2. Detached(X, Tail(re.commands), re.reads)
  BY DetachHead DEF AnswersInv
<1>3. c \in CommandT /\ c = re.commands[1] /\ 1 \in DOMAIN re.commands
      /\ c.ids \in Seq(Nat) /\ re.commands \in Seq(CommandT)
  BY HeadType
<1>4. Carries(reqs, c)
  BY <1>3 DEF AnswersInv, Carried
<1>5. Len(c.ids) = 1 /\ \A i \in X : reqs[i].kind = "flush" /\ reqs[i].boundary = c.boundary
  BY <1>3, <1>4, CarriedIds DEF Carries
<1>6. Live => c.boundary <= log.issued
  <2> SUFFICES ASSUME Live PROVE c.boundary <= log.issued
    OBVIOUS
  <2>1. InOrder(reqs, log.issued, re.commands, mailbox, front.packing, front.admitted)
    BY DEF AnswersInv, Supported
  <2>2. Needs(reqs, c) <= log.issued
    BY <1>3, <2>1, HeadIssued
  <2> QED BY <2>2 DEF Needs
<1>7. \A i \in X : i \in DOMAIN reqs
  <2>1. X \subseteq IdsOf(re.commands)
    BY HeadIds DEF AnswersInv
  <2> QED BY <2>1, Requests DEF AnswersInv
<1>8. Live => InOrder(reqs, log.issued, Tail(re.commands), mailbox, front.packing,
                      front.admitted)
  <2> SUFFICES ASSUME Live
               PROVE  InOrder(reqs, log.issued, Tail(re.commands), mailbox,
                              front.packing, front.admitted)
    OBVIOUS
  <2>1. /\ Queue(reqs, re.commands) /\ Queue(reqs, mailbox)
        /\ IF front.packing = <<>> THEN front.admitted \in Int
           ELSE reqs[front.packing[1]].boundary \in Int
    BY Queues DEF AnswersInv
  <2>2. InOrder(reqs, log.issued, re.commands, mailbox, front.packing, front.admitted)
    BY DEF AnswersInv, Supported
  <2>3. log.issued \in Nat /\ log.issued <= log.issued /\ reqs \in Seq(RequestT)
    BY DEF TypeOK, LogT
  <2> QED BY <2>1, <2>2, <2>3, OrderTail
<1>9. /\ Barriers(mailbox, Tail(re.commands))
      /\ front.barrier = "none" => NoBarriers(mailbox, Tail(re.commands))
  BY <1>3, BarriersTail DEF AnswersInv, OneBarrier
<1>10. re.failed \/ Live
  BY DEF Live
<1>11. Waits(Popped, c.ids)
  <2>1. \A i \in X : /\ i \in DOMAIN reqs /\ reqs[i].kind = "flush"
                     /\ re.failed \/ reqs[i].boundary <= log.issued
    BY <1>5, <1>6, <1>7, <1>10
  <2>2. Len(c.ids) <= 1
    <3>1. Len(c.ids) = 1
      BY <1>5
    <3> HIDE DEF c
    <3> QED BY <3>1
  <2>3. /\ Detached(X, Popped.commands, re.reads)
        /\ Live => InOrder(reqs, log.issued, Popped.commands, mailbox, front.packing,
                           front.admitted)
        /\ Barriers(mailbox, Popped.commands)
        /\ front.barrier = "none" => NoBarriers(mailbox, Popped.commands)
    BY <1>1, <1>2, <1>8, <1>9
  <2>4. /\ Popped.pending = re.pending /\ Popped.reads = re.reads
        /\ Popped.appends = re.appends /\ Popped.failed = re.failed
        /\ Popped.cohort = re.cohort
    BY <1>1
  <2> QED BY <1>3, <2>1, <2>2, <2>3, <2>4 DEF Waits
<1> HIDE DEF c
<1>12. FenceOutcome(Popped, c.ids)
  BY DEF c
<1> QED BY <1>1, <1>11, <1>12, FenceAnswers


-----------------------------------------------------------------------------
(* The failed image's pass and the end of the reactor                      *)

LEMMA RejectedPending ==
  ASSUME TypeOK, AnswersInv, KernelInv, NEW n, Rejects(n)
  PROVE  /\ Keeps(re.pending, re'.pending)
         /\ DOMAIN re'.pending = DOMAIN re.pending \ ToSet(re.bulk)
         /\ ToSet(re.bulk) \subseteq DOMAIN re.pending
         /\ \A t \in ToSet(re.bulk) : re.pending[t].op # "fence"
                              /\ Doomed.pending[t].ids = re.pending[t].ids
<1>1. /\ DOMAIN Cancelled(re.pending) = DOMAIN re.pending
      /\ \A t \in DOMAIN re.pending :
           /\ Cancelled(re.pending)[t].op = re.pending[t].op
           /\ Cancelled(re.pending)[t].ids = re.pending[t].ids
           /\ Cancelled(re.pending)[t].last = re.pending[t].last
  BY CancelledIs
<1>2. \A t : t \in ToSet(re.bulk) <=> \E i \in DOMAIN re.bulk : re.bulk[i] = t
  BY DEF ToSet
<1>3. \A t \in ToSet(re.bulk) : t \in DOMAIN re.pending /\ re.pending[t].op # "fence"
  BY <1>2 DEF KernelInv, Queued
<1>4. DOMAIN re'.pending = DOMAIN re.pending \ ToSet(re.bulk)
      /\ \A t \in DOMAIN re'.pending : re'.pending[t] = Cancelled(re.pending)[t]
  BY DEF Rejects
<1>5. Doomed.pending = Cancelled(re.pending)
  BY DoomedIs
<1>6. Keeps(re.pending, re'.pending)
  BY <1>1, <1>4 DEF Keeps
<1> QED BY <1>1, <1>3, <1>4, <1>5, <1>6

LEMMA BarriersCut ==
  ASSUME NEW M, NEW C, NEW D, NEW n \in Nat, DOMAIN D \subseteq Nat,
         \A i \in DOMAIN D : i + n \in DOMAIN C /\ D[i] = C[i + n]
  PROVE  /\ Barriers(M, C) => Barriers(M, D)
         /\ NoBarriers(M, C) => NoBarriers(M, D)
         /\ \A i \in DOMAIN D : \E j \in DOMAIN C : D[i] = C[j]
<1>1. \A i, j \in DOMAIN D : i + n = j + n => i = j
  OBVIOUS
<1> QED BY <1>1 DEF Barriers, NoBarriers

LEMMA RejectedIds ==
  ASSUME TypeOK, AnswersInv, KernelInv, NEW n \in 0..Len(re.commands), Rejects(n)
  PROVE  \E X : /\ answer' = Answer(answer, X, "err") /\ X \subseteq Unanswered
                /\ X \cap Packed = {} /\ X \cap IdsOf(mailbox) = {}
                /\ X \cap IdsOf(re'.commands) = {}
                /\ X \cap IdsOf(re'.reads) = {} /\ X \cap IdsOf(re'.pending) = {}
                /\ IdsOf(re'.commands) \subseteq IdsOf(re.commands)
                /\ IdsOf(re'.reads) \subseteq IdsOf(re.reads)
                /\ IdsOf(re'.pending) \subseteq IdsOf(re.pending)
                /\ Apart(re'.commands) /\ Apart(re'.reads) /\ Apart(re'.pending)
<1> DEFINE B == UNION {ToSet(Doomed.pending[t].ids) : t \in ToSet(re.bulk)}
           A == IdsOf(SubSeq(re.commands, 1, n))
           C == IdsOf(re'.commands)
           R == IdsOf(re.reads)
           P == IdsOf(re'.pending)
<1>1. /\ IdsOf(re'.pending) \subseteq IdsOf(re.pending) /\ Apart(re'.pending)
      /\ \A k \in ToSet(re.bulk) : ToSet(re.pending[k].ids) \cap IdsOf(re'.pending) = {}
  BY RejectedPending, KeepsIds DEF AnswersInv, OwnedOnce
<1>2. B \subseteq IdsOf(re.pending) /\ B \cap P = {}
  <2>1. \A t \in ToSet(re.bulk) : /\ t \in DOMAIN re.pending
                                  /\ Doomed.pending[t].ids = re.pending[t].ids
    BY RejectedPending
  <2>2. ASSUME NEW x \in B
        PROVE  x \in IdsOf(re.pending) /\ x \notin P
    <3>1. PICK t \in ToSet(re.bulk) : x \in ToSet(Doomed.pending[t].ids)
      BY <2>2
    <3>2. t \in DOMAIN re.pending /\ x \in ToSet(re.pending[t].ids)
      BY <2>1, <3>1
    <3>3. x \in IdsOf(re.pending)
      BY <3>2 DEF IdsOf
    <3> QED BY <1>1, <3>1, <3>2, <3>3
  <2> HIDE DEF B, P
  <2> QED BY <2>2
<1>3. re.commands \in Seq(CommandT)
  BY DEF TypeOK, ReactorT
<1>4. /\ A \subseteq IdsOf(re.commands) /\ C \subseteq IdsOf(re.commands)
      /\ Apart(re'.commands) /\ A \cap C = {}
  <2>1. re'.commands = SubSeq(re.commands, n + 1, Len(re.commands))
    BY DEF Rejects
  <2>2. Apart(re.commands)
    BY DEF AnswersInv, OwnedOnce
  <2> QED BY <1>3, <2>1, <2>2, SplitIds
<1>5. Condemned(n) = B \cup A
  BY DEF Condemned
<1>6. Separate(Packed, IdsOf(mailbox), IdsOf(re.commands), R, IdsOf(re.pending))
      /\ Apart(re.reads)
  BY DEF AnswersInv, OwnedOnce
<1>7. IdsOf(re.commands) \subseteq Unanswered /\ R \subseteq Unanswered
      /\ IdsOf(re.pending) \subseteq Unanswered
  BY DEF AnswersInv, OwnedUnanswered
<1>8. IdsOf(<<>>) = {} /\ Apart(<<>>)
  BY DEF IdsOf, Apart
<1>9. \/ re'.reads = re.reads /\ answer' = Answer(answer, B \cup A, "err")
      \/ re'.reads = <<>> /\ answer' = Answer(answer, (B \cup A) \cup R, "err")
  BY <1>5 DEF Rejects
<1> HIDE DEF A, B, C, P, R
<1>10. CASE re'.reads = re.reads /\ answer' = Answer(answer, B \cup A, "err")
  <2>1. /\ B \cup A \subseteq Unanswered
        /\ (B \cup A) \cap Packed = {} /\ (B \cup A) \cap IdsOf(mailbox) = {}
        /\ (B \cup A) \cap C = {} /\ (B \cup A) \cap R = {} /\ (B \cup A) \cap P = {}
    BY <1>1, <1>2, <1>4, <1>6, <1>7 DEF Separate, P
  <2> QED BY <1>1, <1>4, <1>6, <1>10, <2>1 DEF C, P, R
<1>11. CASE re'.reads = <<>> /\ answer' = Answer(answer, (B \cup A) \cup R, "err")
  <2> DEFINE X == (B \cup A) \cup R
  <2>1. /\ X \subseteq Unanswered /\ X \cap Packed = {} /\ X \cap IdsOf(mailbox) = {}
        /\ X \cap C = {} /\ X \cap P = {} /\ X \cap {} = {}
    BY <1>1, <1>2, <1>4, <1>6, <1>7 DEF Separate, P
  <2>2. answer' = Answer(answer, X, "err")
    BY <1>11
  <2> HIDE DEF X
  <2>3. IdsOf(re'.reads) = {} /\ Apart(re'.reads)
    BY <1>8, <1>11
  <2> QED BY <1>1, <1>4, <2>1, <2>2, <2>3 DEF C, P
<1> QED BY <1>9, <1>10, <1>11

LEMMA RejectsAnswers ==
  ASSUME TypeOK, TypeOK', AnswersInv, KernelInv, KernelInv',
         NEW n \in 0..Len(re.commands), Rejects(n), UNCHANGED <<reqs, mailbox, log>>
  PROVE  AnswersInv'
<1>0. re.failed /\ re'.failed /\ re.pc \in {"reject", "close"}
      /\ (re.pc = "close" => re'.pc = "drop")
      /\ front'.packing = front.packing
      /\ (front'.barrier = "none" <=> front.barrier = "none")
  BY DEF Rejects, KernelInv, Failure
<1>1. PICK X : /\ answer' = Answer(answer, X, "err") /\ X \subseteq Unanswered
               /\ X \cap Packed = {} /\ X \cap IdsOf(mailbox) = {}
               /\ X \cap IdsOf(re'.commands) = {}
               /\ X \cap IdsOf(re'.reads) = {} /\ X \cap IdsOf(re'.pending) = {}
               /\ IdsOf(re'.commands) \subseteq IdsOf(re.commands)
               /\ IdsOf(re'.reads) \subseteq IdsOf(re.reads)
               /\ IdsOf(re'.pending) \subseteq IdsOf(re.pending)
               /\ Apart(re'.commands) /\ Apart(re'.reads) /\ Apart(re'.pending)
  BY RejectedIds
<1>2. log' \in LogT /\ log.durable <= log'.durable /\ log.published <= log'.published
  BY DEF TypeOK, LogT
<1>3. Unanswered' = Unanswered \ X /\ Fresh' /\ AnswersHonest'
  BY <1>1, <1>2, Answering DEF AnswersInv
<1>4. OwnedOnce' /\ OwnedUnanswered'
  <2>1. Packed' \subseteq Packed \ X
    BY <1>0, <1>1 DEF Packed
  <2>2. /\ Apart(mailbox') /\ IdsOf(mailbox') \subseteq IdsOf(mailbox) \ X
        /\ IdsOf(re'.commands) \subseteq IdsOf(re.commands) \ X
        /\ IdsOf(re'.reads) \subseteq IdsOf(re.reads) \ X
        /\ IdsOf(re'.pending) \subseteq IdsOf(re.pending) \ X
    BY <1>1 DEF AnswersInv, OwnedOnce
  <2> QED BY <1>1, <1>3, <2>1, <2>2, OwnersShrink DEF AnswersInv
<1>5. re.commands \in Seq(CommandT)
      /\ re'.commands = SubSeq(re.commands, n + 1, Len(re.commands))
  BY DEF TypeOK, ReactorT, Rejects
<1>6. /\ Barriers(mailbox, re.commands) => Barriers(mailbox, re'.commands)
      /\ NoBarriers(mailbox, re.commands) => NoBarriers(mailbox, re'.commands)
      /\ \A i \in DOMAIN re'.commands :
           \E j \in DOMAIN re.commands : re'.commands[i] = re.commands[j]
  <2> DEFINE C == re.commands
             D == re'.commands
  <2>1. C \in Seq(CommandT) /\ n \in 0..Len(C) /\ D = SubSeq(C, n + 1, Len(C))
    BY <1>5
  <2> HIDE DEF C, D
  <2>2. n \in Nat /\ DOMAIN D \subseteq Nat
        /\ \A i \in DOMAIN D : i + n \in DOMAIN C /\ D[i] = C[i + n]
    <3>1. /\ Len(C) \in Nat /\ n \in Nat /\ DOMAIN C = 1..Len(C)
          /\ DOMAIN D = 1..(Len(C) - n) /\ \A i \in DOMAIN D : D[i] = C[i + n]
      BY <2>1
    <3> QED BY <3>1
  <2>3. /\ Barriers(mailbox, C) => Barriers(mailbox, D)
        /\ NoBarriers(mailbox, C) => NoBarriers(mailbox, D)
        /\ \A i \in DOMAIN D : \E j \in DOMAIN C : D[i] = C[j]
    BY <2>2, BarriersCut
  <2> QED BY <2>3 DEF C, D
<1>7. Carried'
  <2>1. re'.reads = re.reads \/ re'.reads = <<>>
    BY DEF Rejects
  <2>2. \A i \in DOMAIN re'.reads : \E j \in DOMAIN re.reads : re'.reads[i] = re.reads[j]
    BY <2>1
  <2>3. front'.admitted = front.admitted
    BY DEF Rejects
  <2> QED BY <1>0, <1>6, <2>2, <2>3, CarriedKeep DEF AnswersInv
<1>8. Supported'
  BY <1>0 DEF Supported, Live
<1>9. PendingTrue' /\ Frontier'
  <2>1. Keeps(re.pending, re'.pending)
    BY RejectedPending
  <2>2. PendingTrue'
    BY <1>0, <1>2, <2>1, PendingKeep DEF AnswersInv
  <2>3. Frontier'
    BY <1>0, <2>1, FrontierKeep DEF AnswersInv
  <2> QED BY <2>2, <2>3
<1>10. CohortOwned'
  <2>1. CASE re.pc = "close"
    BY <1>0, <2>1 DEF CohortOwned
  <2>2. CASE re.pc = "reject"
    <3>1. re'.cohort = re.cohort
      BY DEF Rejects
    <3>2. re.cohort # 0 => re.cohort \in DOMAIN re.pending
                           /\ re.pending[re.cohort].op = "fence"
      BY <2>2 DEF AnswersInv, CohortOwned
    <3>3. re.cohort # 0 => re.cohort \in DOMAIN re'.pending
                           /\ re'.pending[re.cohort].op = "fence"
      BY <3>2, RejectedPending DEF Keeps
    <3> QED BY <3>1, <3>3 DEF CohortOwned
  <2> QED BY <1>0, <2>1, <2>2
<1>11. OneBarrier'
  BY <1>0, <1>6 DEF AnswersInv, OneBarrier
<1> QED BY <1>3, <1>4, <1>7, <1>8, <1>9, <1>10, <1>11 DEF AnswersInv

LEMMA DropsAnswers ==
  ASSUME TypeOK, TypeOK', AnswersInv, KernelInv, Drops
  PROVE  AnswersInv'
<1> DEFINE X == IdsOf(re.pending)
<1>0. /\ re'.commands = <<>> /\ re'.reads = <<>> /\ re'.pending = <<>>
      /\ re'.pc = "gone" /\ re'.failed /\ answer' = Answer(answer, X, "err")
      /\ UNCHANGED <<front, reqs, mailbox, log>>
  BY DEF Drops, KernelInv, Failure
<1>1. IdsOf(<<>>) = {} /\ Apart(<<>>) /\ DOMAIN <<>> = {}
  BY DEF IdsOf, Apart
<1>2. log' \in LogT /\ log.durable <= log'.durable /\ log.published <= log'.published
  BY <1>0 DEF TypeOK, LogT
<1>3. Unanswered' = Unanswered \ X /\ Fresh' /\ AnswersHonest'
  <2>1. X \subseteq Unanswered
    BY DEF AnswersInv, OwnedUnanswered
  <2> HIDE DEF X
  <2> QED BY <1>0, <1>2, <2>1, Answering DEF AnswersInv
<1>4. OwnedOnce' /\ OwnedUnanswered'
  <2>1. Separate(Packed, IdsOf(mailbox), IdsOf(re.commands), IdsOf(re.reads), X)
        /\ Apart(mailbox)
    BY DEF AnswersInv, OwnedOnce
  <2> HIDE DEF X
  <2>2. Packed' \subseteq Packed \ X
    BY <1>0, <2>1 DEF Separate, Packed
  <2>3. /\ Apart(mailbox') /\ IdsOf(mailbox') \subseteq IdsOf(mailbox) \ X
        /\ Apart(re'.commands) /\ IdsOf(re'.commands) \subseteq IdsOf(re.commands) \ X
        /\ Apart(re'.reads) /\ IdsOf(re'.reads) \subseteq IdsOf(re.reads) \ X
        /\ Apart(re'.pending) /\ IdsOf(re'.pending) \subseteq IdsOf(re.pending) \ X
    BY <1>0, <1>1, <2>1 DEF Separate
  <2> QED BY <1>3, <2>2, <2>3, OwnersShrink DEF AnswersInv
<1>5. Carried'
  BY <1>0, <1>1, CarriedKeep DEF AnswersInv
<1>6. Supported' /\ CohortOwned' /\ PendingTrue'
  BY <1>0, <1>1 DEF Supported, Live, CohortOwned, PendingTrue
<1>7. Frontier'
  BY <1>0, <1>1 DEF AnswersInv, Frontier, OneFence
<1>8. OneBarrier'
  BY <1>0, <1>1 DEF AnswersInv, OneBarrier, Barriers, NoBarriers
<1> HIDE DEF X
<1> QED BY <1>3, <1>4, <1>5, <1>6, <1>7, <1>8 DEF AnswersInv


-----------------------------------------------------------------------------
(* The queue thread's steps                                                *)

\* What the invariant says of the open batch K, the last ordinal admitted a,
\* the requests r, their answers A and the mailbox M.
Free(r, A) == {i \in DOMAIN r : A[i] = <<>>}
ClientTypes(K, a, r, A, M) ==
  /\ K \in Seq(Nat) /\ a \in Nat /\ r \in Seq(RequestT) /\ M \in Seq(CommandT)
  /\ A \in [Ids -> Seq({"ok", "err"})]
ClientOwned(K, r, A, M) ==
  /\ Apart(M)
  /\ Separate(ToSet(K), IdsOf(M), IdsOf(re.commands), IdsOf(re.reads),
              IdsOf(re.pending))
  /\ ToSet(K) \subseteq Free(r, A) /\ IdsOf(M) \subseteq Free(r, A)
  /\ IdsOf(re.commands) \subseteq Free(r, A) /\ IdsOf(re.reads) \subseteq Free(r, A)
  /\ IdsOf(re.pending) \subseteq Free(r, A)
ClientFresh(r, A) ==
  /\ Len(r) <= MaxRequests
  /\ \A i \in Ids : i \notin DOMAIN r => A[i] = <<>>
OpenBatch(K, a, r) ==
  K # <<>> => Batch(r, K) /\ a = r[K[1]].boundary + Len(K) - 1
ClientCarried(r, M) ==
  /\ \A i \in DOMAIN M : Carries(r, M[i])
  /\ \A i \in DOMAIN re.commands : Carries(r, re.commands[i])
  /\ \A i \in DOMAIN re.reads : Carries(r, re.reads[i])
ClientTrue(r) ==
  \A t \in DOMAIN re.pending : Truthful(r, re.pending[t], re.failed, log.published)
ClientHonest(r, A) ==
  \A i \in DOMAIN r :
    /\ Len(A[i]) <= 1
    /\ A[i] = <<"ok">> => IF r[i].kind = "flush" THEN log.durable >= r[i].boundary
                          ELSE log.published >= r[i].boundary
ClientInv(K, a, r, A, M) ==
  /\ ClientTypes(K, a, r, A, M) /\ ClientOwned(K, r, A, M) /\ ClientFresh(r, A)
  /\ OpenBatch(K, a, r) /\ ClientCarried(r, M) /\ ClientTrue(r) /\ ClientHonest(r, A)
  /\ Live => InOrder(r, log.issued, re.commands, M, K, a)

LEMMA ClientNow ==
  ASSUME TypeOK, AnswersInv
  PROVE  ClientInv(front.packing, front.admitted, reqs, answer, mailbox)
<1> DEFINE K == front.packing
           a == front.admitted
<1>1. ClientTypes(K, a, reqs, answer, mailbox)
  BY DEF TypeOK, FrontT, ClientTypes
<1>2. ClientOwned(K, reqs, answer, mailbox)
  BY DEF AnswersInv, OwnedOnce, OwnedUnanswered, Packed, Unanswered, ClientOwned, Free
<1>3. ClientFresh(reqs, answer)
  BY DEF AnswersInv, Fresh, ClientFresh
<1>4. OpenBatch(K, a, reqs) /\ ClientCarried(reqs, mailbox)
  BY DEF AnswersInv, Carried, OpenBatch, ClientCarried
<1>5. ClientTrue(reqs) /\ ClientHonest(reqs, answer)
  BY DEF AnswersInv, PendingTrue, AnswersHonest, ClientTrue, ClientHonest
<1>6. Live => InOrder(reqs, log.issued, re.commands, mailbox, K, a)
  BY DEF AnswersInv, Supported
<1> HIDE DEF K, a
<1>7. ClientInv(K, a, reqs, answer, mailbox)
  BY <1>1, <1>2, <1>3, <1>4, <1>5, <1>6 DEF ClientInv
<1> QED BY <1>7 DEF K, a

LEMMA ClientThen ==
  ASSUME AnswersInv, UNCHANGED <<re, log>>, OneBarrier',
         ClientInv(front'.packing, front'.admitted, reqs', answer', mailbox')
  PROVE  AnswersInv'
<1> DEFINE K == front'.packing
           a == front'.admitted
<1>1. ClientOwned(K, reqs', answer', mailbox') /\ ClientFresh(reqs', answer')
      /\ OpenBatch(K, a, reqs') /\ ClientCarried(reqs', mailbox')
      /\ ClientTrue(reqs') /\ ClientHonest(reqs', answer')
      /\ (Live => InOrder(reqs', log.issued, re.commands, mailbox', K, a))
  BY DEF ClientInv
<1>2. OwnedOnce' /\ OwnedUnanswered'
  <2>1. Packed' = ToSet(K) /\ Unanswered' = Free(reqs', answer')
    BY DEF Packed, Unanswered, Free
  <2>2. re' = re
    OBVIOUS
  <2>3. /\ Apart(re.commands) /\ Apart(re.reads) /\ Apart(re.pending)
    BY DEF AnswersInv, OwnedOnce
  <2> HIDE DEF K
  <2> QED BY <1>1, <2>1, <2>2, <2>3, OwnersIntro DEF ClientOwned
<1>3. Fresh'
  BY <1>1 DEF ClientFresh, Fresh
<1>4. Carried'
  BY <1>1 DEF AnswersInv, Carried, ClientCarried, OpenBatch
<1>5. PendingTrue' /\ AnswersHonest'
  BY <1>1 DEF PendingTrue, AnswersHonest, ClientTrue, ClientHonest
<1>6. Supported'
  BY <1>1 DEF Supported, Live
<1>7. Frontier' /\ CohortOwned'
  BY DEF AnswersInv, Frontier, CohortOwned
<1> QED BY <1>2, <1>3, <1>4, <1>5, <1>6, <1>7 DEF AnswersInv

\* A request that is not answered and that nobody owns yet.
Loose(id, K, r, A, M) ==
  /\ id \in Free(r, A) /\ id \in Nat /\ id \notin ToSet(K) /\ id \notin IdsOf(M)
  /\ id \notin IdsOf(re.commands) /\ id \notin IdsOf(re.reads)
  /\ id \notin IdsOf(re.pending)

LEMMA FreeType ==
  ASSUME NEW r \in Seq(RequestT), NEW A
  PROVE  /\ Free(r, A) \subseteq DOMAIN r /\ Free(r, A) \subseteq Nat
         /\ \A i \in Free(r, A) : r[i] \in RequestT /\ r[i].boundary \in Nat
<1>1. \A i \in DOMAIN r : i \in Nat /\ r[i] \in RequestT
  OBVIOUS
<1> QED BY <1>1 DEF Free, RequestT

\* One more request is accepted.
Accepts(r, x, s, id) == Len(r) < MaxRequests /\ s = Append(r, x) /\ id = Len(r) + 1

LEMMA ClientGrow ==
  ASSUME TypeOK, NEW K, NEW a, NEW r, NEW A, NEW M, ClientInv(K, a, r, A, M),
         NEW x \in RequestT, NEW s, NEW id, Accepts(r, x, s, id)
  PROVE  /\ ClientInv(K, a, s, A, M) /\ Loose(id, K, s, A, M) /\ s[id] = x
<1> Len(r) < MaxRequests /\ s = Append(r, x) /\ id = Len(r) + 1
  BY DEF Accepts
<1>0. /\ K \in Seq(Nat) /\ a \in Nat /\ r \in Seq(RequestT) /\ M \in Seq(CommandT)
      /\ A \in [Ids -> Seq({"ok", "err"})]
  BY DEF ClientInv, ClientTypes
<1>1. /\ Len(r) \in Nat /\ DOMAIN r = 1..Len(r) /\ Len(s) = Len(r) + 1
      /\ s \in Seq(RequestT) /\ DOMAIN s = 1..(Len(r) + 1) /\ s[id] = x
      /\ \A i \in DOMAIN r : s[i] = r[i]
  BY <1>0
<1>2. id \in Nat /\ id \notin DOMAIN r /\ id \in Ids /\ DOMAIN s = DOMAIN r \cup {id}
      /\ Len(s) <= MaxRequests
  BY <1>1, ReactorConstants DEF Ids
<1>3. A[id] = <<>>
  BY <1>2 DEF ClientInv, ClientFresh
<1>4. Free(s, A) = Free(r, A) \cup {id} /\ id \notin Free(r, A)
  BY <1>2, <1>3 DEF Free
<1>5. ClientTypes(K, a, s, A, M) /\ ClientOwned(K, s, A, M) /\ Loose(id, K, s, A, M)
  BY <1>0, <1>1, <1>2, <1>4 DEF ClientInv, ClientTypes, ClientOwned, Loose
<1>6. ClientFresh(s, A)
  BY <1>2 DEF ClientInv, ClientFresh
<1>7. /\ ToSet(K) \subseteq DOMAIN r /\ IdsOf(M) \subseteq DOMAIN r
      /\ IdsOf(re.commands) \subseteq DOMAIN r /\ IdsOf(re.reads) \subseteq DOMAIN r
      /\ IdsOf(re.pending) \subseteq DOMAIN r
  BY DEF ClientInv, ClientOwned, Free
<1>8. OpenBatch(K, a, s)
  <2> SUFFICES ASSUME K # <<>>
               PROVE  Batch(s, K) /\ a = s[K[1]].boundary + Len(K) - 1
    BY DEF OpenBatch
  <2>1. Batch(r, K) /\ a = r[K[1]].boundary + Len(K) - 1
    BY DEF ClientInv, OpenBatch
  <2>2. \A j \in DOMAIN K : K[j] \in DOMAIN r
    BY <1>7 DEF ToSet
  <2>3. 1 \in DOMAIN K
    BY <1>0
  <2> QED BY <1>1, <2>1, <2>2, <2>3 DEF Batch
<1>9. Queue(r, M) /\ Queue(r, re.commands) /\ Queue(r, re.reads)
  <2>1. re.commands \in Seq(CommandT) /\ re.reads \in Seq(CommandT)
    BY DEF TypeOK, ReactorT
  <2>2. /\ \A k \in DOMAIN M : ToSet(M[k].ids) \subseteq DOMAIN r
        /\ \A k \in DOMAIN re.commands : ToSet(re.commands[k].ids) \subseteq DOMAIN r
        /\ \A k \in DOMAIN re.reads : ToSet(re.reads[k].ids) \subseteq DOMAIN r
    BY <1>7 DEF IdsOf
  <2> QED BY <1>0, <2>1, <2>2 DEF Queue, ClientInv, ClientCarried
<1>10. ClientCarried(s, M)
  <2>1. \A q : Queue(r, q) => \A k \in DOMAIN q : Carries(s, q[k])
    <3> SUFFICES ASSUME NEW q, Queue(r, q), NEW k \in DOMAIN q
                 PROVE  Carries(s, q[k])
      OBVIOUS
    <3>1. q[k] \in CommandT /\ Carries(r, q[k]) /\ ToSet(q[k].ids) \subseteq DOMAIN r
      BY DEF Queue
    <3> QED BY <1>0, <3>1, CarriesGrows
  <2> QED BY <1>9, <2>1 DEF ClientCarried
<1>11. ClientTrue(s)
  <2> SUFFICES ASSUME NEW t \in DOMAIN re.pending
               PROVE  Truthful(s, re.pending[t], re.failed, log.published)
    BY DEF ClientTrue
  <2>1. \A i \in ToSet(re.pending[t].ids) : i \in DOMAIN r
    BY <1>7 DEF IdsOf
  <2>2. Truthful(r, re.pending[t], re.failed, log.published)
    BY DEF ClientInv, ClientTrue
  <2> QED BY <1>1, <2>1, <2>2 DEF Truthful
<1>12. ClientHonest(s, A)
  <2>1. Len(A[id]) <= 1 /\ A[id] # <<"ok">>
    BY <1>3
  <2>2. \A i \in DOMAIN r : s[i] = r[i]
    BY <1>1
  <2>3. ClientHonest(r, A)
    BY DEF ClientInv
  <2> QED BY <1>2, <2>1, <2>2, <2>3 DEF ClientHonest
<1>13. ASSUME Live
       PROVE  InOrder(s, log.issued, re.commands, M, K, a)
  BY <1>0, <1>7, <1>9, <1>13, OrderGrow DEF ClientInv
<1> QED BY <1>1, <1>5, <1>6, <1>8, <1>10, <1>11, <1>12, <1>13 DEF ClientInv


\* A mutation joins the open batch.
LEMMA ClientPack ==
  ASSUME NEW K, NEW a, NEW r, NEW A, NEW M, ClientInv(K, a, r, A, M),
         NEW id, Loose(id, K, r, A, M), r[id].kind \in {"write", "zero"},
         r[id].boundary = a + 1, NEW L, L = Append(K, id)
  PROVE  ClientInv(L, a + 1, r, A, M)
<1>0. /\ K \in Seq(Nat) /\ a \in Nat /\ r \in Seq(RequestT) /\ M \in Seq(CommandT)
      /\ A \in [Ids -> Seq({"ok", "err"})] /\ id \in Nat
  BY DEF ClientInv, ClientTypes, Loose
<1>1. /\ Len(K) \in Nat /\ DOMAIN K = 1..Len(K) /\ L \in Seq(Nat)
      /\ Len(L) = Len(K) + 1 /\ DOMAIN L = 1..(Len(K) + 1)
      /\ L[Len(K) + 1] = id /\ \A j \in DOMAIN K : L[j] = K[j]
  BY <1>0
<1>2. L # <<>> /\ 1 \in DOMAIN L
  BY <1>1
<1>3. ToSet(L) = ToSet(K) \cup {id}
  <2>1. \A j \in DOMAIN L : j \in DOMAIN K \/ j = Len(K) + 1
    BY <1>1
  <2>2. DOMAIN K \subseteq DOMAIN L /\ Len(K) + 1 \in DOMAIN L
    BY <1>1
  <2> QED BY <1>1, <2>1, <2>2 DEF ToSet
<1>4. ClientTypes(L, a + 1, r, A, M)
  BY <1>0, <1>1 DEF ClientTypes
<1>5. ClientOwned(L, r, A, M)
  BY <1>3 DEF ClientInv, ClientOwned, Separate, Loose
<1>6. OpenBatch(L, a + 1, r)
  <2>1. CASE K = <<>>
    <3>1. Len(K) = 0
      BY <2>1
    <3>2. L[1] = id /\ DOMAIN L = {1} /\ Len(L) = 1
      BY <1>1, <3>1
    <3>3. Batch(r, L)
      BY <1>0, <1>2, <3>2 DEF Batch
    <3> QED BY <1>0, <3>2, <3>3 DEF OpenBatch
  <2>2. CASE K # <<>>
    <3>1. 1 \in DOMAIN K
      BY <1>0, <2>2
    <3> DEFINE b == r[K[1]].boundary
    <3>2. Batch(r, K) /\ a = b + Len(K) - 1 /\ L[1] = K[1]
      BY <1>1, <2>2, <3>1 DEF ClientInv, OpenBatch
    <3>3. b \in Nat
      <4>1. K[1] \in Free(r, A)
        BY <3>1 DEF ClientInv, ClientOwned, ToSet
      <4> QED BY <1>0, <4>1, FreeType
    <3>4. \A j \in DOMAIN K : r[K[j]].kind \in {"write", "zero"}
                              /\ r[K[j]].boundary = b + j - 1
      BY <3>2 DEF Batch
    <3> HIDE DEF b
    <3>5. r[id].boundary = b + (Len(K) + 1) - 1 /\ a + 1 = b + Len(L) - 1
      BY <1>1, <3>2, <3>3
    <3>6. \A j \in DOMAIN L : r[L[j]].kind \in {"write", "zero"}
                              /\ r[L[j]].boundary = b + j - 1
      <4> TAKE j \in DOMAIN L
      <4>1. CASE j \in DOMAIN K
        BY <1>1, <3>4, <4>1
      <4>2. CASE j = Len(K) + 1
        BY <1>1, <3>5, <4>2
      <4> QED BY <1>1, <4>1, <4>2
    <3> QED BY <1>2, <3>2, <3>5, <3>6 DEF OpenBatch, Batch, b
  <2> QED BY <2>1, <2>2
<1>7. ASSUME Live
      PROVE  InOrder(r, log.issued, re.commands, M, L, a + 1)
  <2>1. K # <<>> => r[K[1]].boundary \in Nat
    <3> SUFFICES ASSUME K # <<>> PROVE r[K[1]].boundary \in Nat
      OBVIOUS
    <3>1. 1 \in DOMAIN K
      BY <1>0
    <3>2. K[1] \in Free(r, A)
      BY <3>1 DEF ClientInv, ClientOwned, ToSet
    <3> QED BY <1>0, <3>2, FreeType
  <2>2. InOrder(r, log.issued, re.commands, M, K, a)
    BY <1>7 DEF ClientInv
  <2> QED BY <1>0, <2>1, <2>2, OrderPack
<1> QED BY <1>4, <1>5, <1>6, <1>7 DEF ClientInv

\* A command is sent.
LEMMA ClientPost ==
  ASSUME TypeOK, NEW K, NEW a, NEW r, NEW A, NEW M, ClientInv(K, a, r, A, M),
         NEW c \in CommandT, Carries(r, c),
         Needs(r, c) = 0 \/ (K = <<>> /\ Needs(r, c) = a),
         \A i \in ToSet(c.ids) : Loose(i, K, r, A, M), NEW N, N = Append(M, c)
  PROVE  ClientInv(K, a, r, A, N)
<1>0. /\ K \in Seq(Nat) /\ a \in Nat /\ r \in Seq(RequestT) /\ M \in Seq(CommandT)
      /\ A \in [Ids -> Seq({"ok", "err"})]
  BY DEF ClientInv, ClientTypes
<1>1. /\ N \in Seq(CommandT)
      /\ \A i \in DOMAIN N : N[i] = c \/ \E j \in DOMAIN M : N[i] = M[j]
  <2>1. /\ Len(M) \in Nat /\ DOMAIN M = 1..Len(M) /\ N \in Seq(CommandT)
        /\ DOMAIN N = 1..(Len(M) + 1) /\ N[Len(M) + 1] = c
        /\ \A i \in DOMAIN M : N[i] = M[i]
    BY <1>0
  <2>2. \A i \in DOMAIN N : i \in DOMAIN M \/ i = Len(M) + 1
    BY <2>1
  <2> QED BY <2>1, <2>2
<1>2. /\ IdsOf(N) = IdsOf(M) \cup ToSet(c.ids)
      /\ Apart(M) /\ ToSet(c.ids) \cap IdsOf(M) = {} => Apart(N)
  BY <1>0, AppendIds
<1>3. ClientOwned(K, r, A, N)
  BY <1>2 DEF ClientInv, ClientOwned, Separate, Loose
<1>4. ClientTypes(K, a, r, A, N) /\ ClientCarried(r, N)
  BY <1>0, <1>1 DEF ClientTypes, ClientInv, ClientCarried
<1>5. ASSUME Live
      PROVE  InOrder(r, log.issued, re.commands, N, K, a)
  <2> DEFINE d == IF K = <<>> THEN a ELSE r[K[1]].boundary - 1
             C == re.commands
             n == log.issued
  <2>1. n \in Nat
    BY DEF TypeOK, LogT
  <2>2. InOrder(r, n, C, M, K, a)
    BY <1>5 DEF ClientInv
  <2>3. /\ \A k \in DOMAIN C : InCommands(r, n, C, k, Needs(r, C[k]))
        /\ \A k \in DOMAIN M : InMailbox(r, n, C, M, k, Needs(r, M[k]))
        /\ InMailbox(r, n, C, M, Len(M) + 1, d)
        /\ K # <<>> => a = r[K[1]].boundary + Len(K) - 1
    BY <2>2 DEF InOrder
  <2>4. Needs(r, c) \in {0, d}
    OBVIOUS
  <2> HIDE DEF d, C, n
  <2>5. InOrder(r, n, C, N, <<>>, d)
    BY <1>0, <2>1, <2>3, <2>4, OrderAppend
  <2>6. InOrder(r, n, C, N, K, a)
    BY <2>3, <2>5 DEF InOrder, d
  <2> QED BY <2>6 DEF C, n
<1> QED BY <1>3, <1>4, <1>5 DEF ClientInv

\* The open batch is handed over,
LEMMA ClientSeal ==
  ASSUME TypeOK, NEW K, NEW a, NEW r, NEW A, NEW M, ClientInv(K, a, r, A, M), K # <<>>,
         NEW N, N = Append(M, Command("append", K, 0))
  PROVE  /\ ClientInv(<<>>, a, r, A, N)
         /\ \A id : Loose(id, K, r, A, M) => Loose(id, <<>>, r, A, N)
<1>0. /\ K \in Seq(Nat) /\ a \in Nat /\ r \in Seq(RequestT) /\ M \in Seq(CommandT)
      /\ A \in [Ids -> Seq({"ok", "err"})]
  BY DEF ClientInv, ClientTypes
<1> DEFINE c == Command("append", K, 0)
<1>1. c \in CommandT /\ c.op = "append" /\ c.ids = K /\ N = Append(M, c)
  BY <1>0, CommandType DEF Command
<1> HIDE DEF c
<1>2. Batch(r, K)
  BY DEF ClientInv, OpenBatch
<1>3. Carries(r, c)
  BY <1>1, <1>2 DEF Carries
<1>4. /\ N \in Seq(CommandT)
      /\ \A i \in DOMAIN N : N[i] = c \/ \E j \in DOMAIN M : N[i] = M[j]
  <2>1. /\ Len(M) \in Nat /\ DOMAIN M = 1..Len(M) /\ N \in Seq(CommandT)
        /\ DOMAIN N = 1..(Len(M) + 1) /\ N[Len(M) + 1] = c
        /\ \A i \in DOMAIN M : N[i] = M[i]
    BY <1>0, <1>1
  <2>2. \A i \in DOMAIN N : i \in DOMAIN M \/ i = Len(M) + 1
    BY <2>1
  <2> QED BY <2>1, <2>2
<1>5. /\ IdsOf(N) = IdsOf(M) \cup ToSet(K)
      /\ Apart(M) /\ ToSet(K) \cap IdsOf(M) = {} => Apart(N)
  BY <1>0, <1>1, AppendIds
<1>6. ToSet(<<>>) = {} /\ <<>> \in Seq(Nat)
  BY DEF ToSet
<1>7. ClientOwned(<<>>, r, A, N)
      /\ \A id : Loose(id, K, r, A, M) => Loose(id, <<>>, r, A, N)
  BY <1>5, <1>6 DEF ClientInv, ClientOwned, Separate, Loose
<1>8. ClientTypes(<<>>, a, r, A, N) /\ ClientCarried(r, N) /\ OpenBatch(<<>>, a, r)
  BY <1>0, <1>3, <1>4, <1>6 DEF ClientTypes, ClientInv, ClientCarried, OpenBatch
<1>9. ASSUME Live
      PROVE  InOrder(r, log.issued, re.commands, N, <<>>, a)
  <2>1. log.issued \in Nat
    BY DEF TypeOK, LogT
  <2>2. ToSet(K) \subseteq DOMAIN r
    BY DEF ClientInv, ClientOwned, Free
  <2>3. InOrder(r, log.issued, re.commands, M, K, a)
    BY <1>9 DEF ClientInv
  <2> QED BY <1>0, <1>2, <2>1, <2>2, <2>3, OrderSeal
<1> QED BY <1>7, <1>8, <1>9 DEF ClientInv

\* or, to a closed reactor, answered with errors.
LEMMA ClientRefuse ==
  ASSUME TypeOK, ~Live, NEW K, NEW a, NEW r, NEW A, NEW M, ClientInv(K, a, r, A, M),
         NEW X, \A i \in X : i \in ToSet(K) \/ Loose(i, K, r, A, M),
         NEW B, B = Answer(A, X, "err")
  PROVE  /\ ClientInv(<<>>, a, r, B, M)
         /\ \A id : id \notin X /\ Loose(id, K, r, A, M) => Loose(id, <<>>, r, B, M)
<1>0. /\ K \in Seq(Nat) /\ a \in Nat /\ r \in Seq(RequestT) /\ M \in Seq(CommandT)
      /\ A \in [Ids -> Seq({"ok", "err"})]
  BY DEF ClientInv, ClientTypes
<1>1. /\ \A i \in X : i \in Free(r, A) /\ i \notin IdsOf(M) /\ i \notin IdsOf(re.commands)
                      /\ i \notin IdsOf(re.reads) /\ i \notin IdsOf(re.pending)
  BY DEF ClientInv, ClientOwned, Separate, Loose
<1>2. Len(r) \in Nat /\ DOMAIN r = 1..Len(r) /\ Len(r) <= MaxRequests
  BY <1>0 DEF ClientInv, ClientFresh
<1>3. DOMAIN r \subseteq Ids
  BY <1>2, ReactorConstants DEF Ids
<1>4. B \in [Ids -> Seq({"ok", "err"})]
      /\ \A i \in Ids : B[i] = IF i \in X THEN Append(A[i], "err") ELSE A[i]
  BY <1>0, AnswerType DEF Answer
<1>5. \A i \in X : i \in DOMAIN r /\ B[i] = <<"err">> /\ B[i] # <<>>
  <2> TAKE i \in X
  <2>1. i \in DOMAIN r /\ B[i] = Append(<<>>, "err")
    BY <1>1, <1>3, <1>4 DEF Free
  <2>2. Append(<<>>, "err") = <<"err">> /\ Append(<<>>, "err") # <<>>
    OBVIOUS
  <2> QED BY <2>1, <2>2
<1>6. Free(r, B) = Free(r, A) \ X
  <2>1. \A i \in DOMAIN r : B[i] = <<>> <=> (A[i] = <<>> /\ i \notin X)
    BY <1>3, <1>4, <1>5
  <2> QED BY <2>1 DEF Free
<1>7. ToSet(<<>>) = {} /\ <<>> \in Seq(Nat)
  BY DEF ToSet
<1>8. /\ ClientOwned(<<>>, r, B, M)
      /\ \A id : id \notin X /\ Loose(id, K, r, A, M) => Loose(id, <<>>, r, B, M)
  BY <1>1, <1>6, <1>7 DEF ClientInv, ClientOwned, Separate, Loose
<1>9. ClientTypes(<<>>, a, r, B, M) /\ OpenBatch(<<>>, a, r)
  BY <1>0, <1>4, <1>7 DEF ClientTypes, OpenBatch
<1>10. ClientFresh(r, B)
  BY <1>4, <1>5 DEF ClientInv, ClientFresh
<1>11. ClientHonest(r, B)
  <2>1. Len(<<"err">>) <= 1 /\ <<"err">> # <<"ok">>
    OBVIOUS
  <2>2. \A i \in DOMAIN r : B[i] = <<"err">> \/ B[i] = A[i]
    BY <1>3, <1>4, <1>5
  <2> QED BY <2>1, <2>2 DEF ClientInv, ClientHonest
<1> QED BY <1>8, <1>9, <1>10, <1>11 DEF ClientInv


LEMMA ClosedDead ==
  ASSUME KernelInv, Closed
  PROVE  ~Live
BY DEF KernelInv, Failure, Closed, Live

LEMMA SealedIds ==
  ASSUME NEW K \in Seq(Nat)
  PROVE  Sealed(K) \in Seq(CommandT) /\ IdsOf(Sealed(K)) = ToSet(K)
<1>1. CASE K = <<>>
  <2>1. ToSet(<<>>) = {} /\ IdsOf(<<>>) = {} /\ <<>> \in Seq(CommandT)
    BY DEF ToSet, IdsOf
  <2> QED BY <1>1, <2>1 DEF Sealed
<1>2. CASE K # <<>>
  <2> DEFINE c == Command("append", K, 0)
  <2>1. c \in CommandT /\ c.ids = K
    BY CommandType DEF Command
  <2>2. Sealed(K) = <<c>>
    BY <1>2 DEF Sealed
  <2> HIDE DEF c
  <2>3. <<c>> \in Seq(CommandT) /\ DOMAIN <<c>> = {1} /\ <<c>>[1] = c
    BY <2>1
  <2> QED BY <2>1, <2>2, <2>3 DEF IdsOf
<1> QED BY <1>1, <1>2

\* The batch joins the mailbox, when there is one.
LEMMA ClientSealed ==
  ASSUME TypeOK, NEW K, NEW a, NEW r, NEW A, NEW M, ClientInv(K, a, r, A, M),
         NEW N, N = M \o Sealed(K)
  PROVE  /\ ClientInv(<<>>, a, r, A, N)
         /\ \A id : Loose(id, K, r, A, M) => Loose(id, <<>>, r, A, N)
<1>0. K \in Seq(Nat) /\ M \in Seq(CommandT)
  BY DEF ClientInv, ClientTypes
<1>1. CASE K = <<>>
  <2>1. N = M
    BY <1>0, <1>1 DEF Sealed
  <2> QED BY <1>1, <2>1
<1>2. CASE K # <<>>
  <2> DEFINE c == Command("append", K, 0)
  <2>1. c \in CommandT
    BY <1>0, CommandType
  <2>2. Sealed(K) = <<c>>
    BY <1>2 DEF Sealed
  <2> HIDE DEF c
  <2>3. M \o <<c>> = Append(M, c)
    BY <1>0, <2>1
  <2>4. N = Append(M, c)
    BY <2>2, <2>3
  <2>5. N = Append(M, Command("append", K, 0))
    BY <2>4 DEF c
  <2> QED BY <1>2, <2>5, ClientSeal
<1> QED BY <1>1, <1>2

LEMMA SendSealed ==
  ASSUME TypeOK, KernelInv, NEW K, NEW a, NEW r, ClientInv(K, a, r, answer, mailbox),
         NEW w, Send(Sealed(K), w)
  PROVE  /\ ClientInv(<<>>, a, r, answer', mailbox')
         /\ \A id : Loose(id, K, r, answer, mailbox) => Loose(id, <<>>, r, answer', mailbox')
<1>0. K \in Seq(Nat)
  BY DEF ClientInv, ClientTypes
<1>1. CASE Closed
  <2> DEFINE X == ToSet(K)
  <2>1. answer' = Answer(answer, X, "err") /\ mailbox' = mailbox
    BY <1>0, <1>1, SealedIds DEF Send
  <2>2. \A id : Loose(id, K, r, answer, mailbox) => id \notin X
    BY DEF Loose
  <2>3. \A i \in X : i \in ToSet(K)
    OBVIOUS
  <2> HIDE DEF X
  <2>4. /\ ClientInv(<<>>, a, r, answer', mailbox)
        /\ \A id : id \notin X /\ Loose(id, K, r, answer, mailbox)
                     => Loose(id, <<>>, r, answer', mailbox)
    BY <1>1, <2>1, <2>3, ClosedDead, ClientRefuse
  <2> QED BY <2>1, <2>2, <2>4
<1>2. CASE ~Closed
  <2>1. mailbox' = mailbox \o Sealed(K) /\ answer' = answer
    BY <1>2 DEF Send
  <2> QED BY <2>1, ClientSealed
<1> QED BY <1>1, <1>2

LEMMA SendThen ==
  ASSUME TypeOK, KernelInv, NEW K, NEW a, NEW r, ClientInv(K, a, r, answer, mailbox),
         NEW c \in CommandT, Carries(r, c), Needs(r, c) \in {0, a},
         \A i \in ToSet(c.ids) : Loose(i, K, r, answer, mailbox),
         NEW w, Send(Append(Sealed(K), c), w)
  PROVE  ClientInv(<<>>, a, r, answer', mailbox')
<1>0. K \in Seq(Nat) /\ mailbox \in Seq(CommandT) /\ Sealed(K) \in Seq(CommandT)
      /\ IdsOf(Sealed(K)) = ToSet(K)
  BY SealedIds DEF ClientInv, ClientTypes
<1>1. CASE Closed
  <2> DEFINE X == IdsOf(Append(Sealed(K), c))
  <2>1. answer' = Answer(answer, X, "err") /\ mailbox' = mailbox
    BY <1>1 DEF Send
  <2>2. X = ToSet(K) \cup ToSet(c.ids)
    BY <1>0, AppendIds
  <2> HIDE DEF X
  <2>3. \A i \in X : i \in ToSet(K) \/ Loose(i, K, r, answer, mailbox)
    BY <2>2
  <2>4. ClientInv(<<>>, a, r, answer', mailbox)
    BY <1>1, <2>1, <2>3, ClosedDead, ClientRefuse
  <2> QED BY <2>1, <2>4
<1>2. CASE ~Closed
  <2> DEFINE N == mailbox \o Sealed(K)
  <2>1. mailbox' = mailbox \o Append(Sealed(K), c) /\ answer' = answer
    BY <1>2 DEF Send
  <2>2. mailbox' = Append(N, c)
    <3> DEFINE S == Sealed(K)
    <3>1. S \in Seq(CommandT) /\ mailbox' = mailbox \o Append(S, c)
      BY <1>0, <2>1
    <3> HIDE DEF S
    <3>2. mailbox \o Append(S, c) = Append(mailbox \o S, c)
      BY <1>0, <3>1
    <3> QED BY <3>1, <3>2 DEF S
  <2>3. /\ ClientInv(<<>>, a, r, answer, N)
        /\ \A id : Loose(id, K, r, answer, mailbox) => Loose(id, <<>>, r, answer, N)
    BY ClientSealed
  <2> HIDE DEF N
  <2>4. Needs(r, c) = 0 \/ (<<>> = <<>> /\ Needs(r, c) = a)
    OBVIOUS
  <2>5. \A i \in ToSet(c.ids) : Loose(i, <<>>, r, answer, N)
    BY <2>3
  <2>6. ClientInv(<<>>, a, r, answer, mailbox')
    BY <2>2, <2>3, <2>4, <2>5, ClientPost
  <2> QED BY <2>1, <2>6
<1> QED BY <1>1, <1>2

-----------------------------------------------------------------------------
(* The barriers a step of the queue thread sends                           *)

LEMMA BarriersAppend ==
  ASSUME NEW M \in Seq(CommandT), NEW c \in CommandT, NEW C, NoBarriers(M, C)
  PROVE  /\ Barriers(M, C) /\ Barriers(Append(M, c), C)
         /\ ~IsBarrier(c) => NoBarriers(Append(M, c), C)
<1> DEFINE N == Append(M, c)
<1>1. /\ Len(M) \in Nat /\ DOMAIN M = 1..Len(M) /\ DOMAIN N = 1..(Len(M) + 1)
      /\ N[Len(M) + 1] = c /\ \A i \in DOMAIN M : N[i] = M[i]
  OBVIOUS
<1> DEFINE t == Len(M) + 1
<1>2. DOMAIN N = DOMAIN M \cup {t} /\ N[t] = c
  BY <1>1
<1> HIDE DEF N, t
<1>3. \A i \in DOMAIN N : IsBarrier(N[i]) => i = t
  BY <1>1, <1>2 DEF NoBarriers
<1>4. Barriers(M, C)
  BY DEF NoBarriers, Barriers
<1>5. Barriers(N, C)
  BY <1>3 DEF NoBarriers, Barriers
<1>6. ~IsBarrier(c) => NoBarriers(N, C)
  BY <1>2, <1>3 DEF NoBarriers
<1> QED BY <1>4, <1>5, <1>6 DEF N

\* An open batch, then perhaps a command.
LEMMA BarriersSent ==
  ASSUME NEW M \in Seq(CommandT), NEW K \in Seq(Nat), NEW c \in CommandT, NEW C,
         NoBarriers(M, C)
  PROVE  /\ NoBarriers(M \o Sealed(K), C) /\ Barriers(M \o Sealed(K), C)
         /\ Barriers(M \o Append(Sealed(K), c), C)
         /\ ~IsBarrier(c) => NoBarriers(M \o Append(Sealed(K), c), C)
<1> DEFINE S == Sealed(K)
<1>1. /\ S \in Seq(CommandT) /\ M \o S \in Seq(CommandT)
      /\ NoBarriers(M \o S, C)
  <2>1. CASE K = <<>>
    <3>1. S = <<>> /\ M \o <<>> = M /\ <<>> \in Seq(CommandT)
      BY <2>1 DEF Sealed
    <3> QED BY <3>1
  <2>2. CASE K # <<>>
    <3> DEFINE b == Command("append", K, 0)
    <3>1. b \in CommandT /\ ~IsBarrier(b) /\ S = <<b>>
      BY <2>2, CommandType DEF Command, IsBarrier, Sealed
    <3> HIDE DEF b, S
    <3>2. M \o <<b>> = Append(M, b) /\ <<b>> \in Seq(CommandT)
          /\ Append(M, b) \in Seq(CommandT)
      BY <3>1
    <3>3. NoBarriers(Append(M, b), C)
      BY <3>1, BarriersAppend
    <3> QED BY <3>1, <3>2, <3>3
  <2> QED BY <2>1, <2>2
<1> HIDE DEF S
<1>2. M \o Append(S, c) = Append(M \o S, c)
  BY <1>1
<1> DEFINE N == M \o S
<1>3. N \in Seq(CommandT) /\ NoBarriers(N, C)
  BY <1>1
<1> HIDE DEF N
<1>4. /\ Barriers(N, C) /\ Barriers(Append(N, c), C)
      /\ ~IsBarrier(c) => NoBarriers(Append(N, c), C)
  BY <1>3, BarriersAppend
<1>5. M \o Append(S, c) = Append(N, c)
  BY <1>2 DEF N
<1>6. /\ Barriers(M \o Append(S, c), C)
      /\ ~IsBarrier(c) => NoBarriers(M \o Append(S, c), C)
  BY <1>4, <1>5
<1>7. NoBarriers(M \o S, C) /\ Barriers(M \o S, C)
  BY <1>3, <1>4 DEF N
<1> QED BY <1>6, <1>7 DEF S


LEMMA SentNothing ==
  ASSUME TypeOK, NEW w, Send(<<>>, w)
  PROVE  answer' = answer /\ mailbox' = mailbox
<1>1. mailbox \in Seq(CommandT) /\ answer \in [Ids -> Seq({"ok", "err"})]
  BY DEF TypeOK
<1>2. mailbox \o <<>> = mailbox /\ IdsOf(<<>>) = {}
  BY <1>1 DEF IdsOf
<1>3. Answer(answer, {}, "err") = answer
  BY <1>1 DEF Answer
<1> QED BY <1>2, <1>3 DEF Send

\* While no barrier is under way, the queue thread sends at most one.
LEMMA SentBarriers ==
  ASSUME TypeOK, AnswersInv, front.barrier = "none", re' = re, NEW c \in CommandT, NEW w
  PROVE  /\ Send(Sealed(front.packing), w) => NoBarriers(mailbox', re'.commands)
         /\ Send(Append(Sealed(front.packing), c), w) =>
              /\ Closed \/ ~IsBarrier(c) => NoBarriers(mailbox', re'.commands)
              /\ Barriers(mailbox', re'.commands)
         /\ NoBarriers(mailbox, re.commands) /\ Barriers(mailbox, re.commands)
<1> DEFINE K == front.packing
           M == mailbox
           C == re.commands
<1>1. NoBarriers(M, C) /\ Barriers(M, C) /\ M \in Seq(CommandT) /\ K \in Seq(Nat)
  BY DEF AnswersInv, OneBarrier, TypeOK, FrontT
<1> HIDE DEF K, M, C
<1>2. /\ NoBarriers(M \o Sealed(K), C) /\ Barriers(M \o Sealed(K), C)
      /\ Barriers(M \o Append(Sealed(K), c), C)
      /\ ~IsBarrier(c) => NoBarriers(M \o Append(Sealed(K), c), C)
  BY <1>1, BarriersSent
<1>3. Send(Sealed(K), w) => mailbox' = M \/ mailbox' = M \o Sealed(K)
  BY DEF Send, M
<1>4. Send(Append(Sealed(K), c), w) =>
        IF Closed THEN mailbox' = M ELSE mailbox' = M \o Append(Sealed(K), c)
  BY DEF Send, M
<1>5. re'.commands = C
  BY DEF C
<1>6. Send(Sealed(K), w) => NoBarriers(mailbox', re'.commands)
  BY <1>1, <1>2, <1>3, <1>5
<1>7. Send(Append(Sealed(K), c), w) =>
        /\ Closed \/ ~IsBarrier(c) => NoBarriers(mailbox', re'.commands)
        /\ Barriers(mailbox', re'.commands)
  BY <1>1, <1>2, <1>4, <1>5
<1> QED BY <1>1, <1>6, <1>7 DEF K, M, C

LEMMA NoneIntro ==
  ASSUME front'.barrier = "none", NoBarriers(mailbox', re'.commands)
  PROVE  OneBarrier'
<1>1. Barriers(mailbox', re'.commands)
  BY DEF Barriers, NoBarriers
<1> QED BY <1>1 DEF OneBarrier, Barriers, NoBarriers

LEMMA MutateAnswers ==
  ASSUME TypeOK, TypeOK', AnswersInv, KernelInv, NEW kind \in {"write", "zero"},
         Mutate(kind)
  PROVE  AnswersInv'
<1> DEFINE K == front.packing
           a == front.admitted
           c == Command("resume", <<>>, 0)
<1>0. /\ front \in FrontT /\ reqs \in Seq(RequestT) /\ K \in Seq(Nat) /\ a \in Nat
      /\ front.barrier = "none" /\ Len(reqs) < MaxRequests
      /\ UNCHANGED <<re, log>> /\ c \in CommandT
  <2>1. <<>> \in Seq(Nat)
    OBVIOUS
  <2>2. c \in CommandT
    BY <2>1, CommandType
  <2> QED BY <2>2 DEF TypeOK, FrontT, Mutate, CanSubmit
<1>1. ClientInv(K, a, reqs, answer, mailbox)
  BY ClientNow
<1>2. /\ \A w : Send(Sealed(K), w) => NoBarriers(mailbox', re'.commands)
      /\ NoBarriers(mailbox, re.commands)
  BY <1>0, SentBarriers
<1>3. CASE Refused(win, kind)
  <2>1. /\ Send(Sealed(K), Refusal(win)) /\ reqs' = reqs
        /\ front' = [front EXCEPT !.packing = <<>>]
    BY <1>3 DEF Mutate
  <2>2. front'.packing = <<>> /\ front'.admitted = a /\ front'.barrier = "none"
    BY <1>0, <2>1 DEF FrontT
  <2>3. ClientInv(<<>>, a, reqs, answer', mailbox')
    BY <1>1, <2>1, SendSealed
  <2>4. OneBarrier'
    BY <1>2, <2>1, <2>2, NoneIntro
  <2> QED BY <1>0, <2>1, <2>2, <2>3, <2>4, ClientThen
<1>4. CASE ~Refused(win, kind)
  <2> DEFINE id == Len(reqs) + 1
             full == Len(K) = PackLimit
             x == [kind |-> kind, boundary |-> a + 1]
             r == Append(reqs, x)
             L == IF full THEN <<id>> ELSE Append(K, id)
  <2>1. /\ reqs' = r
        /\ front' = [front EXCEPT !.admitted = a + 1, !.packing = L]
        /\ Send(IF full THEN Sealed(K) ELSE <<>>, Reservation(win, kind))
    BY <1>4 DEF Mutate
  <2>2. x \in RequestT /\ x.kind = kind /\ x.boundary = a + 1
    BY <1>0 DEF RequestT
  <2> HIDE DEF x
  <2>3. ClientInv(K, a, r, answer, mailbox) /\ Loose(id, K, r, answer, mailbox)
        /\ r[id] = x
    <3>1. Accepts(reqs, x, r, id)
      BY <1>0 DEF Accepts
    <3> HIDE DEF r, id, K, a
    <3> QED BY <1>1, <2>2, <3>1, ClientGrow
  <2>4. r[id].kind \in {"write", "zero"} /\ r[id].boundary = a + 1
    BY <2>2, <2>3
  <2>5. front'.packing = L /\ front'.admitted = a + 1 /\ front'.barrier = "none"
    <3> HIDE DEF L, a
    <3> QED BY <1>0, <2>1 DEF FrontT
  <2> HIDE DEF r, id
  <2>6. CASE full
    <3>1. Send(Sealed(K), Reservation(win, kind)) /\ L = <<id>>
      BY <2>1, <2>6
    <3>2. ClientInv(<<>>, a, r, answer', mailbox') /\ Loose(id, <<>>, r, answer', mailbox')
      BY <2>3, <3>1, SendSealed
    <3>3. L = Append(<<>>, id)
      BY <3>1
    <3> HIDE DEF L, a
    <3>4. ClientInv(L, a + 1, r, answer', mailbox')
      BY <2>4, <3>2, <3>3, ClientPack
    <3>5. OneBarrier'
      BY <1>2, <2>5, <3>1, NoneIntro
    <3> QED BY <1>0, <2>1, <2>5, <3>4, <3>5, ClientThen
  <2>7. CASE ~full
    <3>1. answer' = answer /\ mailbox' = mailbox
      BY <2>1, <2>7, SentNothing
    <3>2. L = Append(K, id)
      BY <2>7
    <3> HIDE DEF L, a, K
    <3>3. ClientInv(L, a + 1, r, answer, mailbox)
      BY <2>3, <2>4, <3>2, ClientPack
    <3>4. OneBarrier'
      BY <1>0, <1>2, <2>5, <3>1, NoneIntro
    <3> QED BY <1>0, <2>1, <2>5, <3>1, <3>3, <3>4, ClientThen
  <2> QED BY <2>6, <2>7
<1> QED BY <1>3, <1>4

LEMMA EnqueueAnswers ==
  ASSUME TypeOK, TypeOK', AnswersInv, KernelInv, NEW kind \in {"read", "flush"},
         Enqueue(kind)
  PROVE  AnswersInv'
<1> DEFINE K == front.packing
           a == front.admitted
           id == Len(reqs) + 1
           x == [kind |-> kind, boundary |-> a]
           r == Append(reqs, x)
           ids == <<id>>
           c == Command(kind, ids, a)
<1>0. /\ front \in FrontT /\ reqs \in Seq(RequestT) /\ K \in Seq(Nat) /\ a \in Nat
      /\ front.barrier = "none" /\ Len(reqs) < MaxRequests
      /\ UNCHANGED <<re, log>>
  BY DEF TypeOK, FrontT, Enqueue, CanSubmit
<1>1. ClientInv(K, a, reqs, answer, mailbox)
  BY ClientNow
<1>2. x \in RequestT
  BY <1>0 DEF RequestT
<1>3. /\ reqs' = r /\ front' = [front EXCEPT !.packing = <<>>]
      /\ Send(Append(Sealed(K), c), win)
  BY DEF Enqueue
<1>4. ids \in Seq(Nat) /\ ids[1] = id /\ Len(ids) = 1 /\ ToSet(ids) = {id}
  <2>1. id \in Nat
    BY <1>0
  <2> HIDE DEF id
  <2> QED BY <2>1 DEF ToSet
<1> HIDE DEF ids
<1>5. c \in CommandT /\ c.op = kind /\ c.ids = ids /\ c.boundary = a
  BY <1>0, <1>4, CommandType DEF Command
<1> HIDE DEF c
<1>6. ClientInv(K, a, r, answer, mailbox) /\ Loose(id, K, r, answer, mailbox)
      /\ r[id] = x
  <2>1. Accepts(reqs, x, r, id)
    BY <1>0 DEF Accepts
  <2> HIDE DEF x, r, id, K, a
  <2> QED BY <1>1, <1>2, <2>1, ClientGrow
<1> HIDE DEF r, id
<1>7. Carries(r, c) /\ Needs(r, c) \in {0, a} /\ ~IsBarrier(c)
  BY <1>4, <1>5, <1>6 DEF Carries, Needs, IsBarrier
<1>8. \A i \in ToSet(c.ids) : Loose(i, K, r, answer, mailbox)
  BY <1>4, <1>5, <1>6
<1>9. ClientInv(<<>>, a, r, answer', mailbox')
  BY <1>3, <1>5, <1>6, <1>7, <1>8, SendThen
<1>10. front'.packing = <<>> /\ front'.admitted = a /\ front'.barrier = "none"
  BY <1>0, <1>3 DEF FrontT
<1>11. NoBarriers(mailbox', re'.commands)
  BY <1>0, <1>3, <1>5, <1>7, SentBarriers
<1>12. OneBarrier'
  BY <1>10, <1>11, NoneIntro
<1> QED BY <1>0, <1>3, <1>9, <1>10, <1>12, ClientThen

LEMMA SealAnswers ==
  ASSUME TypeOK, TypeOK', AnswersInv, KernelInv, Seal \/ Close
  PROVE  AnswersInv'
<1> DEFINE K == front.packing
           a == front.admitted
           c == Command("resume", <<>>, 0)
<1>0. /\ front \in FrontT /\ K \in Seq(Nat) /\ c \in CommandT
      /\ UNCHANGED <<reqs, re, log>> /\ Send(Sealed(K), win)
      /\ \/ front' = [front EXCEPT !.packing = <<>>]
         \/ front' = [front EXCEPT !.open = FALSE, !.packing = <<>>]
  <2>1. <<>> \in Seq(Nat)
    OBVIOUS
  <2>2. c \in CommandT
    BY <2>1, CommandType
  <2> QED BY <2>2 DEF TypeOK, FrontT, Seal, Close
<1>1. front'.packing = <<>> /\ front'.admitted = a /\ front'.barrier = front.barrier
  BY <1>0 DEF FrontT
<1>2. ClientInv(<<>>, a, reqs, answer', mailbox')
  BY <1>0, ClientNow, SendSealed
<1>3. OneBarrier'
  <2>1. CASE front.barrier = "none"
    <3>1. NoBarriers(mailbox', re'.commands)
      BY <1>0, <2>1, SentBarriers
    <3> QED BY <1>1, <2>1, <3>1, NoneIntro
  <2>2. CASE front.barrier # "none"
    <3>1. K = <<>>
      BY <2>2 DEF AnswersInv, OneBarrier
    <3>2. Sealed(K) = <<>>
      BY <3>1 DEF Sealed
    <3>3. mailbox' = mailbox
      BY <1>0, <3>2, SentNothing
    <3> QED BY <1>0, <1>1, <3>1, <3>3, BarrierKeep DEF AnswersInv
  <2> QED BY <2>1, <2>2
<1> QED BY <1>0, <1>1, <1>2, <1>3, ClientThen

LEMMA BarrierAnswers ==
  ASSUME TypeOK, TypeOK', AnswersInv, KernelInv, NEW op \in {"pause", "attach"},
         Barrier(op)
  PROVE  AnswersInv'
<1> DEFINE K == front.packing
           a == front.admitted
           c == Command(op, <<>>, 0)
           b == IF Closed THEN "failed" ELSE op
<1>0. /\ front \in FrontT /\ K \in Seq(Nat) /\ UNCHANGED <<reqs, re, log>>
      /\ Send(Append(Sealed(K), c), win) /\ front.barrier = "none"
      /\ front' = [front EXCEPT !.packing = <<>>, !.barriers = @ + 1, !.barrier = b]
  BY DEF TypeOK, FrontT, Barrier
<1>1. c \in CommandT /\ c.op = op /\ c.ids = <<>>
  <2>1. <<>> \in Seq(Nat)
    OBVIOUS
  <2> QED BY <2>1, CommandType DEF Command
<1>2. Carries(reqs, c) /\ Needs(reqs, c) = 0 /\ ToSet(c.ids) = {}
  BY <1>1 DEF Carries, Needs, ToSet
<1> HIDE DEF c
<1>3. ClientInv(K, a, reqs, answer, mailbox)
  BY ClientNow
<1>4. ClientInv(<<>>, a, reqs, answer', mailbox')
  BY <1>0, <1>1, <1>2, <1>3, SendThen
<1>5. front'.packing = <<>> /\ front'.admitted = a /\ front'.barrier # "none"
  <2>1. b # "none"
    OBVIOUS
  <2> HIDE DEF b
  <2> QED BY <1>0, <2>1 DEF FrontT
<1>6. Barriers(mailbox', re'.commands)
  BY <1>0, <1>1, SentBarriers
<1>7. OneBarrier'
  BY <1>5, <1>6 DEF OneBarrier, Barriers
<1> QED BY <1>0, <1>4, <1>5, <1>7, ClientThen

LEMMA ResumeAnswers ==
  ASSUME TypeOK, TypeOK', AnswersInv, KernelInv, Resume
  PROVE  AnswersInv'
<1> DEFINE K == front.packing
           a == front.admitted
           c == Command("resume", <<>>, 0)
<1>0. /\ front \in FrontT /\ K \in Seq(Nat) /\ UNCHANGED <<reqs, re, log>>
      /\ Send(<<c>>, win) /\ front.barrier = "none" /\ mailbox \in Seq(CommandT)
      /\ front' = [front EXCEPT !.paused = FALSE]
  BY DEF TypeOK, FrontT, Resume
<1>1. c \in CommandT /\ c.op = "resume" /\ c.ids = <<>>
  <2>1. <<>> \in Seq(Nat)
    OBVIOUS
  <2> QED BY <2>1, CommandType DEF Command
<1>2. Carries(reqs, c) /\ Needs(reqs, c) = 0 /\ ToSet(c.ids) = {} /\ ~IsBarrier(c)
  BY <1>1 DEF Carries, Needs, ToSet, IsBarrier
<1> HIDE DEF c
<1>3. ClientInv(K, a, reqs, answer, mailbox)
  BY ClientNow
<1>4. front'.packing = K /\ front'.admitted = a /\ front'.barrier = "none"
  BY <1>0 DEF FrontT
<1>5. NoBarriers(mailbox, re.commands)
  BY <1>0 DEF AnswersInv, OneBarrier
<1>6. CASE Closed
  <2>1. answer \in [Ids -> Seq({"ok", "err"})]
    BY DEF TypeOK
  <2>2. IdsOf(<<c>>) = {}
    <3>1. DOMAIN <<c>> = {1} /\ <<c>>[1] = c
      OBVIOUS
    <3> QED BY <1>2, <3>1 DEF IdsOf
  <2>3. Answer(answer, {}, "err") = answer
    BY <2>1 DEF Answer
  <2>4. answer' = answer /\ mailbox' = mailbox
    BY <1>0, <1>6, <2>2, <2>3 DEF Send
  <2>5. OneBarrier'
    BY <1>0, <1>4, <1>5, <2>4, NoneIntro
  <2> HIDE DEF K, a
  <2> QED BY <1>0, <1>3, <1>4, <2>4, <2>5, ClientThen
<1>7. CASE ~Closed
  <2>1. mailbox' = mailbox \o <<c>> /\ answer' = answer
    BY <1>0, <1>7 DEF Send
  <2>2. mailbox \o <<c>> = Append(mailbox, c)
    BY <1>0, <1>1
  <2>3. mailbox' = Append(mailbox, c)
    BY <2>1, <2>2
  <2>4. NoBarriers(Append(mailbox, c), re.commands)
    BY <1>0, <1>1, <1>2, <1>5, BarriersAppend
  <2>5. NoBarriers(mailbox', re'.commands)
    BY <1>0, <2>3, <2>4
  <2>6. OneBarrier'
    BY <1>4, <2>5, NoneIntro
  <2> HIDE DEF K, a
  <2>7. ClientInv(K, a, reqs, answer, mailbox')
    BY <1>1, <1>2, <1>3, <2>3, ClientPost
  <2> QED BY <1>0, <1>4, <2>1, <2>6, <2>7, ClientThen
<1> QED BY <1>6, <1>7


-----------------------------------------------------------------------------
(* The invariant                                                           *)

Inv == TypeOK /\ KernelInv /\ AnswersInv

LEMMA InitInv ==
  ASSUME Init
  PROVE  Inv
<1>1. /\ front.packing = <<>> /\ front.admitted = 0 /\ front.barrier = "none"
      /\ front \in FrontT
  BY DEF Init, FrontT
<1>2. <<>> \in PendingT /\ <<>> \in Seq(CommandT) /\ <<>> \in Seq(Nat)
  BY EmptyPending
<1>3. /\ re \in ReactorT /\ re.pc = "wait" /\ re.commands = <<>> /\ re.reads = <<>>
      /\ re.pending = <<>> /\ re.appends = <<>> /\ re.bulk = <<>>
      /\ re.cohort = 0 /\ ~re.failed
  <2>1. re = [pc |-> "wait", commands |-> <<>>, reads |-> <<>>,
              pending |-> <<>>, appends |-> <<>>, bulk |-> <<>>, todo |-> {},
              token |-> 1, cohort |-> 0, failed |-> FALSE, closed |-> FALSE,
              held |-> FALSE, timed |-> FALSE]
    BY DEF Init
  <2> QED BY <1>2, <2>1 DEF ReactorT, Phases
<1>4. /\ log \in LogT /\ log.issued = 0 /\ log.published = 0 /\ log.durable = 0
  BY ReactorConstants DEF Init, InitLog, LogT, NoCohort
<1>5. port \in PortT /\ health = FALSE /\ kernel = {} /\ cqes = {}
      /\ reqs = <<>> /\ mailbox = <<>> /\ answer = [i \in Ids |-> <<>>]
  BY DEF Init, PortT, Events
<1>6. TypeOK
  <2>1. <<>> \in Seq(RequestT) /\ <<>> \in Seq({"ok", "err"})
    OBVIOUS
  <2>2. answer \in [Ids -> Seq({"ok", "err"})]
    BY <1>5, <2>1
  <2> QED BY <1>1, <1>2, <1>3, <1>4, <1>5, <2>1, <2>2 DEF TypeOK
<1>7. DOMAIN <<>> = {}
  OBVIOUS
<1>8. KernelInv
  BY <1>3, <1>5, <1>7 DEF KernelInv, InKernel, Queued, Completed, OrderedAppends,
                          AppendsApart, Failure
<1>9. IdsOf(<<>>) = {} /\ Apart(<<>>) /\ ToSet(<<>>) = {}
  BY <1>7 DEF IdsOf, Apart, ToSet
<1>10. OwnedOnce /\ OwnedUnanswered
  BY <1>1, <1>3, <1>5, <1>9 DEF OwnedOnce, OwnedUnanswered, Separate, Packed
<1>11. Fresh /\ AnswersHonest
  <2>1. Len(<<>>) = 0 /\ 0 <= MaxRequests
    BY ReactorConstants
  <2> QED BY <1>5, <1>7, <2>1 DEF Fresh, AnswersHonest
<1>12. Carried /\ PendingTrue /\ OneBarrier /\ CohortOwned
  BY <1>1, <1>3, <1>5, <1>7 DEF Carried, PendingTrue, OneBarrier, Barriers,
                                 NoBarriers, CohortOwned
<1>13. Supported
  BY <1>1, <1>3, <1>4, <1>5, <1>7 DEF Supported, InOrder, InMailbox, InCommands
<1>14. Frontier
  BY <1>3, <1>4, <1>7 DEF Frontier, Ascending, OneFence
<1> QED BY <1>6, <1>8, <1>10, <1>11, <1>12, <1>13, <1>14 DEF AnswersInv, Inv

\* The steps of the queue thread,
LEMMA ClientStep ==
  ASSUME Inv, Client \/ Seal
  PROVE  Inv'
<1>0. TypeOK /\ KernelInv /\ AnswersInv
  BY DEF Inv
<1>1. UNCHANGED <<re, kernel, cqes, health>>
  BY DEF Client, Mutate, Enqueue, Barrier, Resume, Close, Seal
<1>2. KernelInv'
  BY <1>0, <1>1, QuietKernel
<1>3. ASSUME NEW kind \in Kinds \cap {"write", "zero"}, Mutate(kind)
      PROVE  Inv'
  BY <1>0, <1>2, <1>3, MutateType, MutateAnswers DEF Inv
<1>4. ASSUME NEW kind \in Kinds \cap {"read", "flush"}, Enqueue(kind)
      PROVE  Inv'
  BY <1>0, <1>2, <1>4, EnqueueType, EnqueueAnswers DEF Inv
<1>5. ASSUME NEW op \in {"pause", "attach"}, Barrier(op)
      PROVE  Inv'
  BY <1>0, <1>2, <1>5, BarrierType, BarrierAnswers DEF Inv
<1>6. CASE Resume
  BY <1>0, <1>2, <1>6, ResumeType, ResumeAnswers DEF Inv
<1>7. CASE Seal \/ Close
  BY <1>0, <1>2, <1>7, SealType, SealAnswers DEF Inv
<1> QED BY <1>3, <1>4, <1>5, <1>6, <1>7 DEF Client

\* of the kernel, the worker, the collector and the gate,
LEMMA AroundStep ==
  ASSUME Inv,
         \/ BarrierTimeout \/ FailGate \/ Grant \/ WorkerIO \/ Hold
         \/ \E t \in kernel, ok \in BOOLEAN : Complete(t, ok)
  PROVE  Inv'
<1>0. TypeOK /\ KernelInv /\ AnswersInv
  BY DEF Inv
<1>1. CASE BarrierTimeout \/ FailGate \/ Grant \/ WorkerIO \/ Hold
  <2>1. /\ TypeOK' /\ UNCHANGED <<reqs, answer, mailbox, log, re, kernel, cqes>>
        /\ front'.packing = front.packing /\ front'.admitted = front.admitted
        /\ front.barrier # "none" => front'.barrier # "none"
        /\ front'.barrier # "none" => front.barrier # "none"
        /\ health => health'
    BY <1>0, <1>1, AroundType
  <2>2. KernelInv'
    BY <1>0, <2>1, QuietKernel
  <2>3. AnswersInv'
    BY <1>0, <2>1, <2>2, QuietAnswers
  <2> QED BY <2>1, <2>2, <2>3 DEF Inv
<1>2. ASSUME NEW t \in kernel, NEW ok \in BOOLEAN, Complete(t, ok)
      PROVE  Inv'
  <2>1. TypeOK' /\ KernelInv'
    BY <1>0, <1>2, CompleteType, CompleteKernel
  <2>2. UNCHANGED <<front, reqs, answer, mailbox, log, re>>
    BY <1>2 DEF Complete
  <2>3. AnswersInv'
    BY <1>0, <2>1, <2>2, QuietAnswers
  <2> QED BY <2>1, <2>3 DEF Inv
<1> QED BY <1>1, <1>2

\* and of the reactor's loop.
LEMMA SteadyStep ==
  ASSUME TypeOK, KernelInv, AnswersInv, TypeOK', Steady
  PROVE  Inv'
BY SteadyKernel, SteadyAnswers DEF Inv

LEMMA FencesStep ==
  ASSUME TypeOK, KernelInv, AnswersInv, TypeOK', FencesAlone
  PROVE  Inv'
BY FencesAloneKernel, FencesAloneAnswers DEF Inv

LEMMA PassesStep ==
  ASSUME TypeOK, KernelInv, AnswersInv, TypeOK', Passes
  PROVE  Inv'
<1>1. KernelInv'
  BY PopsKernel DEF Passes
<1> QED BY <1>1, PassesAnswers DEF Inv

LEMMA DispatchFlushStep ==
  ASSUME TypeOK, KernelInv, AnswersInv, DispatchFlush
  PROVE  Inv'
<1>1. /\ TypeOK'
      /\ re.commands # <<>> /\ Head(re.commands).op = "flush"
      /\ \/ Steady
         \/ /\ Pops /\ front' = front
            /\ answer' = Answer(answer, ToSet(Head(re.commands).ids), "ok")
            /\ log.durable >= Head(re.commands).boundary
         \/ Joins
         \/ /\ FenceOutcome(Popped, Head(re.commands).ids)
            /\ re.pc = "dispatch" /\ UNCHANGED <<front, reqs, mailbox, cqes>>
  BY DispatchFlushIs DEF AnswersInv
<1>2. CASE Steady
  BY <1>1, <1>2, SteadyStep
<1>3. CASE /\ Pops /\ front' = front
           /\ answer' = Answer(answer, ToSet(Head(re.commands).ids), "ok")
           /\ log.durable >= Head(re.commands).boundary
  <2>1. KernelInv'
    BY <1>3, PopsKernel
  <2> QED BY <1>1, <1>3, <2>1, FlushedAnswers DEF Inv
<1>4. CASE Joins
  <2>1. KernelInv'
    BY <1>4, JoinsKernel DEF AnswersInv
  <2> QED BY <1>1, <1>4, <2>1, JoinsAnswers DEF Inv
<1>5. CASE /\ FenceOutcome(Popped, Head(re.commands).ids)
           /\ re.pc = "dispatch" /\ UNCHANGED <<front, reqs, mailbox, cqes>>
  <2>1. KernelInv'
    BY <1>1, <1>5, FlushFenceKernel
  <2> QED BY <1>1, <1>5, <2>1, FlushFenceAnswers DEF Inv
<1> QED BY <1>1, <1>2, <1>3, <1>4, <1>5

LEMMA DispatchStep ==
  ASSUME TypeOK, KernelInv, AnswersInv,
         \/ DispatchAppend \/ DispatchPause \/ DispatchResume \/ DispatchAttach
         \/ Quiescing \/ DispatchTail
  PROVE  Inv'
<1>1. CASE DispatchAppend
  <2>1. TypeOK' /\ (Steady \/ Issues)
    BY <1>1, DispatchAppendIs
  <2>2. CASE Issues
    <3>1. KernelInv'
      BY <2>2, IssuesKernel
    <3> QED BY <2>1, <2>2, <3>1, IssuesAnswers DEF Inv
  <2> QED BY <2>1, <2>2, SteadyStep
<1>2. CASE DispatchPause
  <2>1. TypeOK' /\ (Steady \/ Passes)
    BY <1>2, DispatchPauseIs
  <2> QED BY <2>1, SteadyStep, PassesStep
<1>3. CASE DispatchResume
  <2>1. /\ TypeOK'
        /\ Steady \/ (Pops /\ Head(re.commands).op = "resume"
                           /\ UNCHANGED <<front, answer>>)
    BY <1>3, DispatchResumeIs
  <2>2. CASE Pops /\ Head(re.commands).op = "resume" /\ UNCHANGED <<front, answer>>
    <3>1. KernelInv'
      BY <2>2, PopsKernel
    <3> QED BY <2>1, <2>2, <3>1, ResumedAnswers DEF Inv
  <2> QED BY <2>1, <2>2, SteadyStep
<1>4. CASE DispatchAttach
  <2>1. TypeOK' /\ (Steady \/ FencesAlone \/ Marks \/ Passes)
    BY <1>4, DispatchAttachIs
  <2>2. CASE Marks
    <3>1. KernelInv'
      BY <2>2, PopsKernel
    <3> QED BY <2>1, <2>2, <3>1, MarksAnswers DEF Inv
  <2> QED BY <2>1, <2>2, SteadyStep, FencesStep, PassesStep
<1>5. CASE Quiescing \/ DispatchTail
  <2>1. TypeOK' /\ (Steady \/ FencesAlone)
    BY <1>5, QuiescingIs, DispatchTailIs
  <2> QED BY <2>1, SteadyStep, FencesStep
<1> QED BY <1>1, <1>2, <1>3, <1>4, <1>5

LEMMA RejectStep ==
  ASSUME TypeOK, KernelInv, AnswersInv, Reject \/ RejectClosed
  PROVE  Inv'
<1>1. /\ TypeOK' /\ \E n \in 0..Len(re.commands) : Rejects(n)
      /\ UNCHANGED <<reqs, mailbox, log, health, kernel, cqes>>
  BY RejectIs
<1>2. PICK n \in 0..Len(re.commands) : Rejects(n)
  BY <1>1
<1>3. KernelInv'
  BY <1>1, <1>2, RejectsKernel
<1>4. AnswersInv'
  BY <1>1, <1>2, <1>3, RejectsAnswers
<1> QED BY <1>1, <1>3, <1>4 DEF Inv

LEMMA LoopStep ==
  ASSUME Inv, Loop
  PROVE  Inv'
<1>0. TypeOK /\ KernelInv /\ AnswersInv
  BY DEF Inv
<1>1. CASE TakeCommand
  <2>1. TypeOK' /\ \E c \in CommandT : Took(c)
    BY <1>0, <1>1, TakeIs
  <2>2. PICK c \in CommandT : Took(c)
    BY <2>1
  <2>3. UNCHANGED <<front, reqs, answer, log, health, kernel, cqes>>
    BY <1>1 DEF TakeCommand
  <2>4. KernelInv'
    BY <1>0, <2>2, <2>3, TookKernel
  <2>5. AnswersInv'
    BY <1>0, <2>1, <2>2, <2>3, <2>4, TookAnswers
  <2> QED BY <2>1, <2>4, <2>5 DEF Inv
<1>2. CASE Receive
  <2>1. /\ TypeOK' /\ Reaping /\ cqes' = {}
        /\ UNCHANGED <<front, reqs, answer, mailbox, log, kernel>>
    BY <1>0, <1>2, ReceiveIs
  <2>2. KernelInv'
    BY <1>0, <2>1, ReapingKernel
  <2>3. AnswersInv'
    BY <1>0, <2>1, <2>2, ReapingAnswers
  <2> QED BY <2>1, <2>2, <2>3 DEF Inv
<1>3. CASE PollEvent \/ PollTurn \/ Published \/ DispatchNone \/ Submitted
  <2>1. TypeOK' /\ Steady
    BY <1>0, <1>3, PollEventIs, PollTurnIs, PublishedIs, DispatchNoneIs, SubmittedIs
  <2> QED BY <1>0, <2>1, SteadyStep
<1>4. CASE PublishAppend
  <2>1. TypeOK' /\ KernelInv'
    BY <1>0, <1>4, PublishAppendIs, PublishKernel
  <2> QED BY <1>0, <1>4, <2>1, PublishAnswers DEF Inv
<1>5. CASE Finish
  <2>1. TypeOK' /\ KernelInv'
    BY <1>0, <1>5, FinishIs, FinishKernel
  <2> QED BY <1>0, <1>5, <2>1, FinishAnswers DEF Inv
<1>6. CASE DispatchFlush
  BY <1>0, <1>6, DispatchFlushStep
<1>7. CASE \/ DispatchAppend \/ DispatchPause \/ DispatchResume \/ DispatchAttach
           \/ Quiescing \/ DispatchTail
  BY <1>0, <1>7, DispatchStep
<1>8. CASE StartRead
  <2>1. TypeOK' /\ Reads
    BY <1>0, <1>8, StartReadIs
  <2>2. KernelInv'
    BY <1>0, <2>1, ReadsKernel
  <2> QED BY <1>0, <2>1, <2>2, ReadsAnswers DEF Inv
<1>9. CASE SubmitBulk
  <2>1. TypeOK' /\ KernelInv'
    BY <1>0, <1>9, SubmitBulkIs, SubmitBulkKernel
  <2> QED BY <1>0, <1>9, <2>1, SubmitBulkAnswers DEF Inv
<1>10. CASE Stop
  <2>1. TypeOK' /\ KernelInv'
    BY <1>0, <1>10, StopIs, StopKernel
  <2> QED BY <1>0, <1>10, <2>1, StopAnswers DEF Inv
<1>11. CASE Reject \/ RejectClosed
  BY <1>0, <1>11, RejectStep
<1>12. CASE Drop
  <2>1. TypeOK' /\ Drops
    BY <1>0, <1>12, DropIs
  <2>2. KernelInv'
    BY <1>0, <2>1, DropsKernel
  <2> QED BY <1>0, <2>1, <2>2, DropsAnswers DEF Inv
<1> QED BY <1>1, <1>2, <1>3, <1>4, <1>5, <1>6, <1>7, <1>8, <1>9, <1>10, <1>11,
           <1>12 DEF Loop

\* Every step keeps the invariant.
THEOREM ReactorInvariant == Spec => []Inv
<1>1. Init => Inv
  BY InitInv
<1>2. Inv /\ [Next]_vars => Inv'
  <2> SUFFICES ASSUME Inv, [Next]_vars
               PROVE  Inv'
    OBVIOUS
  <2>1. CASE UNCHANGED vars
    <3>1. TypeOK'
      BY <2>1 DEF Inv, TypeOK, vars
    <3>2. KernelInv'
      BY <2>1, QuietKernel DEF Inv, vars
    <3>3. AnswersInv'
      BY <2>1, <3>1, <3>2, QuietAnswers DEF Inv, vars
    <3> QED BY <3>1, <3>2, <3>3 DEF Inv
  <2>2. CASE Next
    BY <2>2, ClientStep, AroundStep, LoopStep DEF Next
  <2> QED BY <2>1, <2>2
<1> QED BY <1>1, <1>2, PTL DEF Spec

\* Whatever the kernel may still read or write has an owner that has not been
\* completed: on every error path, a cancelled dependency, a failed gate, a
\* stopped and a dropped reactor included, no buffer is freed under a transfer.
THEOREM KernelAlwaysOwned == Spec => []KernelOwned
<1>1. Inv => KernelOwned
  BY DEF Inv, KernelInv, InKernel, KernelOwned
<1> QED BY <1>1, ReactorInvariant, PTL

\* No request is answered twice, whatever fails, and a successful answer is
\* true: what a FLUSH promises is durable and what a WRITE or READ saw is
\* published, for every number of requests, packing limit, slots and capacity.
THEOREM AnswersAlwaysHonest == Spec => []AnswersHonest
<1>1. Inv => AnswersHonest
  BY DEF Inv, AnswersInv
<1> QED BY <1>1, ReactorInvariant, PTL
=============================================================================
