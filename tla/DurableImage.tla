---------------------------- MODULE DurableImage ----------------------------
(***************************************************************************)
(* What one image promises its guest, independent of segments, manifests   *)
(* and recovery: a sequence of mutations of which a prefix is published    *)
(* (visible to reads) and a prefix is durable.  AppendLog implements it.   *)
(***************************************************************************)
EXTENDS Integers, Sequences

CONSTANT Mutations   \* what a guest may write

VARIABLES
  log,    \* accepted mutations
  pub,    \* published prefix; meaningful while up
  dur,    \* prefix a FLUSH has reported durable
  up,     \* the image is served
  held    \* the guest still holds its inflight carrier

avars == <<log, pub, dur, up, held>>

AInit == log = <<>> /\ pub = 0 /\ dur = 0 /\ up = TRUE /\ held = FALSE

\* One more mutation is accepted, behind those before it.
Accept ==
  /\ up /\ held
  /\ Len(log') = Len(log) + 1 /\ log'[Len(log')] \in Mutations
  /\ log' = Append(log, log'[Len(log')])
  /\ UNCHANGED <<pub, dur, up, held>>

Publish(n) ==
  /\ up
  /\ pub < n /\ n <= Len(log) /\ pub' = n
  /\ UNCHANGED <<log, dur, up, held>>

\* A completed FLUSH covers the published prefix; recovery flushes too.
Flush(n) ==
  /\ dur < n /\ n <= (IF up THEN pub ELSE Len(log)) /\ dur' = n
  /\ UNCHANGED <<log, pub, up, held>>

\* The carrier is handed out or returned only with everything durable.
Exchange ==
  /\ up /\ dur = pub /\ pub = Len(log)
  /\ held' = ~held
  /\ UNCHANGED <<log, pub, dur, up>>

\* The daemon or the host stops; only the former keeps the carrier.
Stop ==
  /\ up' = FALSE /\ pub' = 0
  /\ held' \in {held, FALSE}
  /\ UNCHANGED <<log, dur>>

\* Without a carrier, mutations never reported durable may be forgotten.
Forget(n) ==
  /\ ~up /\ ~held
  /\ dur <= n /\ n < Len(log)
  /\ log' = SubSeq(log, 1, n)
  /\ UNCHANGED <<pub, dur, up, held>>

\* Service resumes with everything remembered published and durable.
Resume ==
  /\ ~up /\ dur = Len(log)
  /\ up' = TRUE /\ pub' = Len(log)
  /\ UNCHANGED <<log, dur, held>>

ANext ==
  \/ Accept
  \/ \E n \in 1..Len(log) : Publish(n) \/ Flush(n)
  \/ \E n \in 0..Len(log) : Forget(n)
  \/ Exchange \/ Stop \/ Resume

ASpec == AInit /\ [][ANext]_avars
=============================================================================
