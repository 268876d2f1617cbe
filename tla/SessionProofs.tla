--------------------------- MODULE SessionProofs ---------------------------
(***************************************************************************)
(* Recovery of any number of images through any number of processes:       *)
(* images are repaired together, every guest write is applied once, and a  *)
(* guest is served only on a carrier no failure has marked.                *)
(***************************************************************************)
EXTENDS Session, FiniteSetTheorems, WellFoundedInduction, TLAPS

USE DEF Attaching

-----------------------------------------------------------------------------
(* The inductive invariant.                                                *)

Carrier ==
  [epoch : Nat \ {0}, failed : BOOLEAN, pub : Nat, issued : Nat,
   answered : Nat, init : SUBSET Nat]
Disk == [epoch : Nat \ {0}, log : Nat]
Tags == {"memory", "queue", "epoch", "attach"}
ImageType ==
  [svc : {"off", "listen", "accepted", "connected", "closing", "ended"},
   canceled : BOOLEAN, failed : BOOLEAN, broken : BOOLEAN,
   phase : {"AwaitingFd", "Fresh", "Replay", "Waiting", "Active"},
   storage : {"opening", "local"}, out : BOOLEAN, attached : BOOLEAN,
   event : BOOLEAN, change : {<<>>} \cup (Tags \X Nat),
   limit : BOOLEAN, mem : Nat, saved : Nat, queues : SUBSET Nat,
   frozen : SUBSET Nat]
RecType ==
  [mode : {"none", "cold", "retained"},
   stage : {"none", "collect", "repair", "attach", "send", "notify", "ok", "failed"},
   seen : [Images -> Disk \cup {0}], got : SUBSET Images, inputs : SUBSET Images,
   left : [Images -> Int], next : Nat, fenced : SUBSET Images, sent : SUBSET Images]

TypeInv ==
  /\ disk \in [Images -> Disk]
  /\ guest \in [Images -> Carrier \cup {None}]
  /\ img \in [Images -> ImageType]
  /\ rec \in RecType
  /\ sup \in [stage : {"down", "recover", "serve", "drop"}, canceled : BOOLEAN]
  /\ gate \in BOOLEAN

\* The stages in which every image has been repaired and is being activated.
Activating == rec.stage \in {"send", "notify", "ok"}

\* The recovery thread: what each stage has established.
RecInv ==
  /\ rec.mode = "none" <=> sup.stage = "down"
  /\ rec.mode = "none" => rec.stage = "none"
  /\ rec.mode = "cold" => rec.stage \in {"repair", "attach", "ok"}
  /\ rec.mode = "cold" /\ rec.stage # "ok" => sup.stage = "recover"
  /\ rec.mode = "retained" =>
       /\ sup.stage \in {"serve", "drop"}
       /\ rec.stage # "none"
       /\ rec.seen \in [Images -> Disk]
       /\ rec.stage \notin {"collect", "failed"} => rec.got = Images
  /\ rec.next >= 1 /\ rec.fenced = {j \in Images : j < rec.next}
  /\ rec.stage = "collect" => rec.next = 1
  /\ rec.stage = "send" => rec.sent # Images
  /\ rec.stage \in {"attach", "send", "notify", "ok"} => rec.fenced = Images
  /\ rec.stage \in {"collect", "repair", "attach"} => rec.sent = {}

\* What an image that is not served yet shares with the recovery thread.
Opening(i) ==
  /\ rec.mode # "cold" /\ img[i].phase \in {"AwaitingFd", "Replay", "Waiting"} =>
       /\ rec.mode = "retained" => disk[i].epoch = rec.seen[i].epoch
       /\ rec.stage = "collect" => disk[i] = rec.seen[i]
  /\ i \in rec.inputs \cup rec.got => img[i].phase \in {"Waiting", "Fresh", "Active"}
  /\ rec.mode = "retained" /\ img[i].phase = "Waiting"
       /\ rec.stage \in {"repair", "attach", "send", "notify", "ok"} =>
       /\ rec.left[i] >= 0 /\ rec.left[i] + disk[i].log = guest[i].issued
       /\ guest[i].answered <= disk[i].log
       /\ i \in rec.fenced => rec.left[i] = 0
  /\ img[i].phase = "Waiting" =>
       /\ img[i].mem = img[i].saved /\ img[i].frozen \subseteq img[i].queues
       /\ img[i].change # <<>> => img[i].change[1] = "queue"

\* Which images may be activated, and by whom.
Served(i) ==
  /\ rec.mode = "none" => img[i].phase = "AwaitingFd" /\ img[i].svc = "off"
  /\ rec.mode = "cold" /\ rec.stage # "ok" =>
       img[i].phase = "AwaitingFd" /\ img[i].svc = "off"
  /\ rec.mode = "cold" /\ img[i].svc # "off" => img[i].storage = "local"
  /\ rec.mode = "cold" => img[i].phase \in {"AwaitingFd", "Fresh", "Active"}
  /\ img[i].out => /\ rec.mode = "retained" /\ sup.stage = "serve"
                   /\ Activating /\ i \in rec.sent
  /\ rec.mode = "retained" /\
       (img[i].phase \in {"Fresh", "Active"} \/ img[i].storage = "local") =>
       \/ Activating /\ i \in rec.sent
       \/ rec.stage = "failed" /\ sup.stage = "drop"
  /\ sup.stage = "drop" => img[i].svc = "ended"

\* The carrier a guest holds against the log of its image.
Applied(i) ==
  /\ guest[i].epoch <= disk[i].epoch
  /\ Holds(img[i]) =>
       guest[i] # None /\ (img[i].phase = "Active" \/ guest[i].epoch = disk[i].epoch)
  /\ Attaching(i) => img[i].phase = "Active"
  /\ guest[i] # None /\ guest[i].epoch = disk[i].epoch =>
       guest[i].answered <= disk[i].log /\ disk[i].log <= guest[i].issued

SessionInv ==
  /\ TypeInv /\ RecInv
  /\ \A i \in Images : Opening(i) /\ Served(i) /\ Applied(i)

\* The number of images is a natural number.
LEMMA Count == Cardinality(Images) \in Nat
BY SessionConstants, FS_CardinalityType

\* No image has repaired, been served or been answered before the first start.
LEMMA InitInv == ASSUME Init PROVE SessionInv
<1> USE DEF Init, Unstarted, Idle, Down, None
<1>1. disk \in [Images -> Disk]
  BY SessionConstants DEF Disk
<1>2. guest \in [Images -> Carrier \cup {None}]
  BY DEF Carrier
<1>3. img \in [Images -> ImageType]
  BY DEF ImageType
<1>4. rec \in RecType
  BY DEF RecType
<1>5. TypeInv
  BY <1>1, <1>2, <1>3, <1>4 DEF TypeInv
<1>6. RecInv
  BY SessionConstants, Count DEF RecInv
<1>7. \A i \in Images : Opening(i) /\ Served(i) /\ Applied(i)
  BY DEF Opening, Served, Applied, Holds, Activating
<1> QED BY <1>5, <1>6, <1>7 DEF SessionInv

\* A step that leaves disks, recovery and supervisor alone and rewrites one image
\* keeps the invariant when it does so for that image.
LEMMA OneImageOfHost ==
  ASSUME SessionInv, NEW i \in Images,
         NEW im \in ImageType, NEW g \in Carrier \cup {None},
         img' = [img EXCEPT ![i] = im], guest' = [guest EXCEPT ![i] = g],
         UNCHANGED <<disk, rec, sup>>, gate' \in BOOLEAN,
         Opening(i)', Served(i)', Applied(i)'
  PROVE  SessionInv'
<1>1. TypeInv'
  BY DEF SessionInv, TypeInv
<1>2. RecInv'
  BY DEF SessionInv, RecInv
<1>3. ASSUME NEW j \in Images PROVE Opening(j)' /\ Served(j)' /\ Applied(j)'
  <2>1. CASE j = i
    BY <2>1
  <2>2. CASE j # i
    <3>1. img'[j] = img[j] /\ guest'[j] = guest[j]
      BY <2>2 DEF SessionInv, TypeInv
    <3>2. Opening(j) /\ Served(j) /\ Applied(j)
      BY DEF SessionInv
    <3> QED BY <3>1, <3>2 DEF Opening, Served, Applied, Holds, Activating
  <2> QED BY <2>1, <2>2
<1> QED BY <1>1, <1>2, <1>3 DEF SessionInv

\* And when the host's gate does not change either.
LEMMA OneImage ==
  ASSUME SessionInv, NEW i \in Images,
         NEW im \in ImageType, NEW g \in Carrier \cup {None},
         img' = [img EXCEPT ![i] = im], guest' = [guest EXCEPT ![i] = g],
         UNCHANGED <<disk, rec, sup, gate>>,
         Opening(i)', Served(i)', Applied(i)'
  PROVE  SessionInv'
<1>1. gate' \in BOOLEAN
  BY DEF SessionInv, TypeInv
<1> QED BY <1>1, OneImageOfHost

\* A failed backend is a backend.
LEMMA FailedType ==
  ASSUME NEW im \in ImageType PROVE BackendFailed(im) \in ImageType
BY DEF BackendFailed, ImageType

\* Backend::fail of one image.
LEMMA FailInv ==
  ASSUME SessionInv, NEW i \in Images,
         img' = [img EXCEPT ![i] = BackendFailed(@)],
         guest' = [guest EXCEPT ![i] = CarrierFailed(i, img[i])],
         UNCHANGED <<disk, rec, gate, sup>>
  PROVE  SessionInv'
<1> DEFINE im == BackendFailed(img[i])
           g == CarrierFailed(i, img[i])
<1>1. img[i] \in ImageType /\ guest[i] \in Carrier \cup {None}
  BY DEF SessionInv, TypeInv
<1>2. im \in ImageType
  BY <1>1 DEF BackendFailed, ImageType
<1>3. g \in Carrier \cup {None}
  BY <1>1 DEF CarrierFailed, Carrier
<1>4. img'[i] = im /\ guest'[i] = g
  BY DEF SessionInv, TypeInv
<1>5. Opening(i) /\ Served(i) /\ Applied(i)
  BY DEF SessionInv
<1>6. g = guest[i] \/ (guest[i] # None /\ g = [guest[i] EXCEPT !.failed = TRUE])
  BY DEF CarrierFailed
<1>7. Opening(i)' /\ Served(i)' /\ Applied(i)'
  BY <1>1, <1>4, <1>5, <1>6 DEF BackendFailed, Opening, Served, Applied,
    Holds, Activating, ImageType, Carrier, None
<1> QED BY <1>2, <1>3, <1>7, OneImage

\* What the invariant says of one image.
LEMMA AtImage ==
  ASSUME SessionInv, NEW i \in Images
  PROVE  /\ img[i] \in ImageType /\ guest[i] \in Carrier \cup {None}
         /\ disk[i] \in Disk
         /\ Opening(i) /\ Served(i) /\ Applied(i)
         /\ Holds(img[i]) => guest[i] \in Carrier
BY DEF SessionInv, TypeInv, Applied

\* A frontend is accepted.
LEMMA AcceptInv ==
  ASSUME SessionInv, NEW i \in Images, Accept(i)
  PROVE  SessionInv'
<1> DEFINE im == [img[i] EXCEPT !.svc = "accepted"]
           g == guest[i]
<1>1. /\ img[i] \in ImageType /\ guest[i] \in Carrier \cup {None}
      /\ disk[i] \in Disk
      /\ Opening(i) /\ Served(i) /\ Applied(i)
      /\ Holds(img[i]) => guest[i] \in Carrier
  BY AtImage
<1>2. im \in ImageType
  BY <1>1 DEF ImageType
<1>3. g \in Carrier \cup {None}
  BY <1>1 DEF Carrier, Holds, Accept
<1>4. /\ img' = [img EXCEPT ![i] = im] /\ guest' = [guest EXCEPT ![i] = g]
      /\ UNCHANGED <<disk, rec, sup, gate>>
  BY <1>1 DEF SessionInv, TypeInv, Accept
<1>5. img'[i] = im /\ guest'[i] = g
  BY <1>4 DEF SessionInv, TypeInv
<1>6. Opening(i)' /\ Served(i)' /\ Applied(i)'
  BY <1>1, <1>4, <1>5 DEF Opening, Served, Applied, Holds, Activating,
    ImageType, Carrier, None, Accept
<1> QED BY <1>2, <1>3, <1>4, <1>6, OneImage

\* A refused or late connection, or one that ends in an error, closes.
LEMMA ClosingInv ==
  ASSUME SessionInv, NEW i \in Images, img[i].svc \in {"listen", "accepted", "connected"},
         img' = [img EXCEPT ![i] = BackendFailed([@ EXCEPT !.svc = "closing"])],
         guest' = [guest EXCEPT ![i] = CarrierFailed(i, img[i])],
         UNCHANGED <<disk, rec, gate, sup>>
  PROVE  SessionInv'
<1> DEFINE im == BackendFailed([img[i] EXCEPT !.svc = "closing"])
           g == CarrierFailed(i, img[i])
<1>1. /\ img[i] \in ImageType /\ guest[i] \in Carrier \cup {None}
      /\ disk[i] \in Disk
      /\ Opening(i) /\ Served(i) /\ Applied(i)
      /\ Holds(img[i]) => guest[i] \in Carrier
  BY AtImage
<1>2. im \in ImageType
  BY <1>1 DEF ImageType, BackendFailed, CarrierFailed
<1>3. g \in Carrier \cup {None}
  BY <1>1 DEF Carrier, Holds, BackendFailed, CarrierFailed
<1>4. /\ img' = [img EXCEPT ![i] = im] /\ guest' = [guest EXCEPT ![i] = g]
      /\ UNCHANGED <<disk, rec, sup, gate>>
  BY <1>1 DEF SessionInv, TypeInv
<1>5. img'[i] = im /\ guest'[i] = g
  BY <1>4 DEF SessionInv, TypeInv
<1>6. Opening(i)' /\ Served(i)' /\ Applied(i)'
  BY <1>1, <1>4, <1>5 DEF Opening, Served, Applied, Holds, Activating,
    ImageType, Carrier, None, BackendFailed, CarrierFailed
<1> QED BY <1>2, <1>3, <1>4, <1>6, OneImage

\* A frontend is served.
LEMMA ConnectedInv ==
  ASSUME SessionInv, NEW i \in Images, Connect(i),
         ~img[i].failed
  PROVE  SessionInv'
<1> DEFINE im == [img[i] EXCEPT !.svc = "connected"]
           g == guest[i]
<1>1. /\ img[i] \in ImageType /\ guest[i] \in Carrier \cup {None}
      /\ disk[i] \in Disk
      /\ Opening(i) /\ Served(i) /\ Applied(i)
      /\ Holds(img[i]) => guest[i] \in Carrier
  BY AtImage
<1>2. im \in ImageType
  BY <1>1 DEF ImageType
<1>3. g \in Carrier \cup {None}
  BY <1>1 DEF Carrier, Holds, Connect
<1>4. /\ img' = [img EXCEPT ![i] = im] /\ guest' = [guest EXCEPT ![i] = g]
      /\ UNCHANGED <<disk, rec, sup, gate>>
  BY <1>1 DEF SessionInv, TypeInv, Connect
<1>5. img'[i] = im /\ guest'[i] = g
  BY <1>4 DEF SessionInv, TypeInv
<1>6. Opening(i)' /\ Served(i)' /\ Applied(i)'
  BY <1>1, <1>4, <1>5 DEF Opening, Served, Applied, Holds, Activating,
    ImageType, Carrier, None, Connect
<1> QED BY <1>2, <1>3, <1>4, <1>6, OneImage

\* A failed connection is shut down.
LEMMA ShutInv ==
  ASSUME SessionInv, NEW i \in Images, Shut(i)
  PROVE  SessionInv'
<1> DEFINE im == [img[i] EXCEPT !.svc = "closing"]
           g == guest[i]
<1>1. /\ img[i] \in ImageType /\ guest[i] \in Carrier \cup {None}
      /\ disk[i] \in Disk
      /\ Opening(i) /\ Served(i) /\ Applied(i)
      /\ Holds(img[i]) => guest[i] \in Carrier
  BY AtImage
<1>2. im \in ImageType
  BY <1>1 DEF ImageType
<1>3. g \in Carrier \cup {None}
  BY <1>1 DEF Carrier, Holds, Shut
<1>4. /\ img' = [img EXCEPT ![i] = im] /\ guest' = [guest EXCEPT ![i] = g]
      /\ UNCHANGED <<disk, rec, sup, gate>>
  BY <1>1 DEF SessionInv, TypeInv, Shut
<1>5. img'[i] = im /\ guest'[i] = g
  BY <1>4 DEF SessionInv, TypeInv
<1>6. Opening(i)' /\ Served(i)' /\ Applied(i)'
  BY <1>1, <1>4, <1>5 DEF Opening, Served, Applied, Holds, Activating,
    ImageType, Carrier, None, Shut
<1> QED BY <1>2, <1>3, <1>4, <1>6, OneImage

\* A frontend leaves.
LEMMA LeaveInv ==
  ASSUME SessionInv, NEW i \in Images, Leave(i)
  PROVE  SessionInv'
<1> DEFINE im == [img[i] EXCEPT !.svc = "closing"]
           g == guest[i]
<1>1. /\ img[i] \in ImageType /\ guest[i] \in Carrier \cup {None}
      /\ disk[i] \in Disk
      /\ Opening(i) /\ Served(i) /\ Applied(i)
      /\ Holds(img[i]) => guest[i] \in Carrier
  BY AtImage
<1>2. im \in ImageType
  BY <1>1 DEF ImageType
<1>3. g \in Carrier \cup {None}
  BY <1>1 DEF Carrier, Holds, Leave
<1>4. /\ img' = [img EXCEPT ![i] = im] /\ guest' = [guest EXCEPT ![i] = g]
      /\ UNCHANGED <<disk, rec, sup, gate>>
  BY <1>1 DEF SessionInv, TypeInv, Leave
<1>5. img'[i] = im /\ guest'[i] = g
  BY <1>4 DEF SessionInv, TypeInv
<1>6. Opening(i)' /\ Served(i)' /\ Applied(i)'
  BY <1>1, <1>4, <1>5 DEF Opening, Served, Applied, Holds, Activating,
    ImageType, Carrier, None, Leave
<1> QED BY <1>2, <1>3, <1>4, <1>6, OneImage

\* The service of an image ends.
LEMMA DrainInv ==
  ASSUME SessionInv, NEW i \in Images, Drain(i)
  PROVE  SessionInv'
<1> DEFINE im == Ended(img[i])
           g == guest[i]
<1>1. /\ img[i] \in ImageType /\ guest[i] \in Carrier \cup {None}
      /\ disk[i] \in Disk
      /\ Opening(i) /\ Served(i) /\ Applied(i)
      /\ Holds(img[i]) => guest[i] \in Carrier
  BY AtImage
<1>2. im \in ImageType
  <2>1. ASSUME NEW b \in BOOLEAN, NEW s PROVE (b /\ s # "local") \in BOOLEAN
    OBVIOUS
  <2>2. img[i].attached \in BOOLEAN
    BY <1>1 DEF ImageType
  <2>3. (img[i].attached /\ img[i].storage # "local") \in BOOLEAN
    BY <2>1, <2>2, Zenon
  <2>4. ASSUME NEW b \in BOOLEAN
        PROVE  [Unstarted EXCEPT !.svc = "ended", !.failed = img[i].failed,
                  !.broken = img[i].broken, !.phase = img[i].phase, !.out = img[i].out,
                  !.storage = img[i].storage, !.attached = b] \in ImageType
    <3>1. Unstarted \in ImageType
      BY DEF ImageType, Unstarted
    <3> QED BY <1>1, <3>1, ZenonT(60) DEF ImageType
  <2> QED BY <2>3, <2>4, Zenon DEF Ended
<1>3. g \in Carrier \cup {None}
  BY <1>1 DEF Carrier, Holds, Drain, Ended, Unstarted
<1>4. /\ img' = [img EXCEPT ![i] = im] /\ guest' = [guest EXCEPT ![i] = g]
      /\ UNCHANGED <<disk, rec, sup, gate>>
  BY <1>1 DEF SessionInv, TypeInv, Drain
<1>5. img'[i] = im /\ guest'[i] = g
  BY <1>4 DEF SessionInv, TypeInv
<1>6. Opening(i)' /\ Served(i)' /\ Applied(i)'
  BY <1>1, <1>4, <1>5 DEF Opening, Served, Applied, Holds, Activating,
    ImageType, Carrier, None, Drain, Ended, Unstarted
<1> QED BY <1>2, <1>3, <1>4, <1>6, OneImage

\* GET exports a carrier of the log's epoch.
LEMMA ExportedInv ==
  ASSUME SessionInv, NEW i \in Images, Get(i),
         img[i].storage = "local"
  PROVE  SessionInv'
<1> DEFINE im == [img[i] EXCEPT !.phase = "Fresh"]
           g == Fresh(i)
<1>1. /\ img[i] \in ImageType /\ guest[i] \in Carrier \cup {None}
      /\ disk[i] \in Disk
      /\ Opening(i) /\ Served(i) /\ Applied(i)
      /\ Holds(img[i]) => guest[i] \in Carrier
  BY AtImage
<1>2. im \in ImageType
  BY <1>1 DEF ImageType, Fresh, Disk
<1>3. g \in Carrier \cup {None}
  BY <1>1 DEF Carrier, Holds, Get, Fresh, Disk
<1>4. /\ img' = [img EXCEPT ![i] = im] /\ guest' = [guest EXCEPT ![i] = g]
      /\ UNCHANGED <<disk, rec, sup, gate>>
  BY <1>1 DEF SessionInv, TypeInv, Get
<1>5. img'[i] = im /\ guest'[i] = g
  BY <1>4 DEF SessionInv, TypeInv
<1>6. Opening(i)' /\ Served(i)' /\ Applied(i)'
  BY <1>1, <1>4, <1>5 DEF Opening, Served, Applied, Holds, Activating,
    ImageType, Carrier, None, Get, Talks, Fresh, Disk
<1> QED BY <1>2, <1>3, <1>4, <1>6, OneImage

\* SET takes a carrier of the inspected epoch.
LEMMA RestoredInv ==
  ASSUME SessionInv, NEW i \in Images, Set(i),
         img[i].storage = "opening", guest[i].epoch = rec.seen[i].epoch,
         ~guest[i].failed
  PROVE  SessionInv'
<1> DEFINE im == [img[i] EXCEPT !.phase = "Replay"]
           g == guest[i]
<1>1. /\ img[i] \in ImageType /\ guest[i] \in Carrier \cup {None}
      /\ disk[i] \in Disk
      /\ Opening(i) /\ Served(i) /\ Applied(i)
      /\ Holds(img[i]) => guest[i] \in Carrier
  BY AtImage
<1>2. im \in ImageType
  BY <1>1 DEF ImageType
<1>3. g \in Carrier \cup {None}
  BY <1>1 DEF Carrier, Holds, Set
<1>4. /\ img' = [img EXCEPT ![i] = im] /\ guest' = [guest EXCEPT ![i] = g]
      /\ UNCHANGED <<disk, rec, sup, gate>>
  BY <1>1 DEF SessionInv, TypeInv, Set
<1>5. img'[i] = im /\ guest'[i] = g
  BY <1>4 DEF SessionInv, TypeInv
<1>6. /\ RecInv /\ rec \in RecType
  BY DEF SessionInv, TypeInv
<1>7. Opening(i)'
  BY <1>1, <1>4, <1>5, <1>6 DEF Opening, Holds, ImageType, Carrier, None, RecType,
    RecInv, Set, Talks
<1>8. Served(i)'
  BY <1>1, <1>4, <1>5, <1>6 DEF Served, Activating, ImageType, RecType, RecInv,
    Set, Talks
<1>9. Applied(i)'
  BY <1>1, <1>3, <1>4, <1>5, <1>6 DEF Applied, Opening, Served, Activating, Holds,
    ImageType, Carrier, Disk, None, RecType, RecInv, Set, Talks
<1> QED BY <1>2, <1>3, <1>4, <1>7, <1>8, <1>9, OneImage

\* A permitted change begins.
LEMMA ChangingInv ==
  ASSUME SessionInv, NEW i \in Images, NEW change \in {"memory", "queue"} \X Nat,
         Begin(i, change),
         PermitsChange(i, change) /\ ~Overdue(img[i])
  PROVE  SessionInv'
<1> DEFINE im == [img[i] EXCEPT !.change = change]
           g == guest[i]
<1>1. /\ img[i] \in ImageType /\ guest[i] \in Carrier \cup {None}
      /\ disk[i] \in Disk
      /\ Opening(i) /\ Served(i) /\ Applied(i)
      /\ Holds(img[i]) => guest[i] \in Carrier
  BY AtImage
<1>2. im \in ImageType
  BY <1>1 DEF ImageType, Tags
<1>3. g \in Carrier \cup {None}
  BY <1>1 DEF Carrier, Holds, Begin
<1>4. /\ img' = [img EXCEPT ![i] = im] /\ guest' = [guest EXCEPT ![i] = g]
      /\ UNCHANGED <<disk, rec, sup, gate>>
  BY <1>1 DEF SessionInv, TypeInv, Begin
<1>5. img'[i] = im /\ guest'[i] = g
  BY <1>4 DEF SessionInv, TypeInv
<1>6. Opening(i)' /\ Served(i)' /\ Applied(i)'
  BY <1>1, <1>4, <1>5 DEF Opening, Served, Applied, Holds, Activating,
    ImageType, Carrier, None, Begin, PermitsChange
<1> QED BY <1>2, <1>3, <1>4, <1>6, OneImage

\* A change ends.
LEMMA EndInv ==
  ASSUME SessionInv, NEW i \in Images, End(i)
  PROVE  SessionInv'
<1> DEFINE im == [Configured(img[i]) EXCEPT !.event = Renotify(Configured(img[i]))]
           g == guest[i]
<1>1. /\ img[i] \in ImageType /\ guest[i] \in Carrier \cup {None}
      /\ disk[i] \in Disk
      /\ Opening(i) /\ Served(i) /\ Applied(i)
      /\ Holds(img[i]) => guest[i] \in Carrier
  BY AtImage
<1>2. im \in ImageType
  <2>1. Configured(img[i]) \in ImageType
    <3>1. img[i].change \in Tags \X Nat
      BY <1>1 DEF ImageType, End
    <3>2. img[i].change[2] \in Nat
      BY <3>1
    <3>3. img[i].mem + 1 \in Nat /\ img[i].queues \cup {img[i].change[2]} \in SUBSET Nat
      BY <1>1, <3>2 DEF ImageType
    <3> QED BY <1>1, <3>3, ZenonT(60) DEF ImageType, Configured
  <2>2. Renotify(Configured(img[i])) \in BOOLEAN
    BY <2>1 DEF ImageType, Renotify
  <2> QED BY <2>1, <2>2 DEF ImageType
<1>3. g \in Carrier \cup {None}
  BY <1>1 DEF Carrier, Holds, End, Configured, Renotify, End
<1>4. /\ img' = [img EXCEPT ![i] = im] /\ guest' = [guest EXCEPT ![i] = g]
      /\ UNCHANGED <<disk, rec, sup, gate>>
  BY <1>1 DEF SessionInv, TypeInv, End
<1>5. img'[i] = im /\ guest'[i] = g
  BY <1>4 DEF SessionInv, TypeInv
<1>6. Opening(i)' /\ Served(i)' /\ Applied(i)'
  BY <1>1, <1>4, <1>5 DEF Opening, Served, Applied, Holds, Activating,
    ImageType, Carrier, None, End, Configured
<1> QED BY <1>2, <1>3, <1>4, <1>6, OneImage

\* An event without work.
LEMMA ConsumedInv ==
  ASSUME SessionInv, NEW i \in Images, Consumed(i)
  PROVE  SessionInv'
<1> DEFINE im == [img[i] EXCEPT !.event = FALSE]
           g == guest[i]
<1>1. /\ img[i] \in ImageType /\ guest[i] \in Carrier \cup {None}
      /\ disk[i] \in Disk
      /\ Opening(i) /\ Served(i) /\ Applied(i)
      /\ Holds(img[i]) => guest[i] \in Carrier
  BY AtImage
<1>2. im \in ImageType
  BY <1>1 DEF ImageType
<1>3. g \in Carrier \cup {None}
  BY <1>1 DEF Carrier, Holds, Consumed
<1>4. /\ img' = [img EXCEPT ![i] = im] /\ guest' = [guest EXCEPT ![i] = g]
      /\ UNCHANGED <<disk, rec, sup, gate>>
  BY <1>1 DEF SessionInv, TypeInv, Consumed
<1>5. img'[i] = im /\ guest'[i] = g
  BY <1>4 DEF SessionInv, TypeInv
<1>6. Opening(i)' /\ Served(i)' /\ Applied(i)'
  BY <1>1, <1>4, <1>5 DEF Opening, Served, Applied, Holds, Activating,
    ImageType, Carrier, None, Consumed
<1> QED BY <1>2, <1>3, <1>4, <1>6, OneImage

\* A fresh carrier is activated.
LEMMA ActivateFreshInv ==
  ASSUME SessionInv, NEW i \in Images, ActivateFresh(i),
         img[i].phase = "Fresh"
  PROVE  SessionInv'
<1> DEFINE im == [img[i] EXCEPT !.phase = "Active", !.limit = FALSE, !.event = FALSE]
           g == [guest[i] EXCEPT !.init = img[i].queues]
<1>1. /\ img[i] \in ImageType /\ guest[i] \in Carrier \cup {None}
      /\ disk[i] \in Disk
      /\ Opening(i) /\ Served(i) /\ Applied(i)
      /\ Holds(img[i]) => guest[i] \in Carrier
  BY AtImage
<1>2. im \in ImageType
  BY <1>1 DEF ImageType
<1>3. g \in Carrier \cup {None}
  BY <1>1 DEF Carrier, Holds, ActivateFresh, ImageType
<1>4. /\ img' = [img EXCEPT ![i] = im] /\ guest' = [guest EXCEPT ![i] = g]
      /\ UNCHANGED <<disk, rec, sup, gate>>
  BY <1>1 DEF SessionInv, TypeInv, ActivateFresh
<1>5. img'[i] = im /\ guest'[i] = g
  BY <1>4 DEF SessionInv, TypeInv
<1>6. /\ RecInv /\ rec \in RecType
  BY DEF SessionInv, TypeInv
<1>7. Opening(i)'
  BY <1>1, <1>4, <1>5, <1>6 DEF Opening, Holds, ImageType, Carrier, None, RecType,
    RecInv, ActivateFresh
<1>8. Served(i)'
  BY <1>1, <1>4, <1>5, <1>6, ZenonT(60) DEF Served, Activating, ImageType, RecType, RecInv,
    ActivateFresh
<1>9. Applied(i)'
  BY <1>1, <1>3, <1>4, <1>5, <1>6 DEF Applied, Opening, Served, Activating, Holds,
    ImageType, Carrier, Disk, None, RecType, RecInv, ActivateFresh
<1> QED BY <1>2, <1>3, <1>4, <1>7, <1>8, <1>9, OneImage

\* A replayed carrier is answered and activated.
LEMMA FinishedInv ==
  ASSUME SessionInv, NEW i \in Images, Finish(i),
         img[i].phase = "Waiting", img[i].out, img[i].saved = img[i].mem
  PROVE  SessionInv'
<1> DEFINE im == [img[i] EXCEPT !.phase = "Active", !.storage = "local", !.out = FALSE,
                   !.limit = FALSE, !.event = FALSE, !.saved = 0, !.frozen = {}]
           g == Replied(i)
<1>1. /\ img[i] \in ImageType /\ guest[i] \in Carrier \cup {None}
      /\ disk[i] \in Disk
      /\ Opening(i) /\ Served(i) /\ Applied(i)
      /\ Holds(img[i]) => guest[i] \in Carrier
  BY AtImage
<1>2. im \in ImageType
  BY <1>1 DEF ImageType, Replied
<1>3. g \in Carrier \cup {None}
  BY <1>1 DEF Carrier, Holds, Finish, Replied, ImageType
<1>4. /\ img' = [img EXCEPT ![i] = im] /\ guest' = [guest EXCEPT ![i] = g]
      /\ UNCHANGED <<disk, rec, sup, gate>>
  BY <1>1 DEF SessionInv, TypeInv, Finish
<1>5. img'[i] = im /\ guest'[i] = g
  BY <1>4 DEF SessionInv, TypeInv
<1>6. /\ RecInv /\ rec \in RecType
  BY DEF SessionInv, TypeInv
<1>7. Opening(i)'
  <2>1. img'[i].phase = "Active"
    BY <1>1, <1>5 DEF ImageType
  <2> QED BY <1>4, <2>1 DEF Opening
<1>8. Served(i)'
  BY <1>1, <1>4, <1>5, <1>6 DEF Served, Activating, ImageType, RecType, RecInv,
    Finish, Replied
<1>9. Applied(i)'
  <2>1. guest[i] \in Carrier /\ guest[i].epoch = disk[i].epoch
    BY <1>1 DEF Applied, Holds
  <2>2. rec.mode = "retained" /\ Activating /\ i \in rec.fenced
    BY <1>1, <1>6 DEF Served, RecInv, Activating
  <2>3. disk[i].log = guest[i].issued
    BY <1>1, <2>1, <2>2 DEF Opening, Activating, Carrier, Disk
  <2>4. /\ g.epoch = guest[i].epoch /\ g.epoch # 0
        /\ g.answered = guest[i].issued /\ g.issued = guest[i].issued
    BY <2>1 DEF Replied, Carrier
  <2> QED BY <1>1, <1>4, <1>5, <2>1, <2>3, <2>4 DEF Applied, Disk, None
<1> QED BY <1>2, <1>3, <1>4, <1>7, <1>8, <1>9, OneImage

\* A guest issues a write.
LEMMA WriteInv ==
  ASSUME SessionInv, NEW i \in Images, Write(i)
  PROVE  SessionInv'
<1> DEFINE im == img[i]
           g == [guest[i] EXCEPT !.issued = @ + 1]
<1>1. /\ img[i] \in ImageType /\ guest[i] \in Carrier \cup {None}
      /\ disk[i] \in Disk
      /\ Opening(i) /\ Served(i) /\ Applied(i)
      /\ Holds(img[i]) => guest[i] \in Carrier
  BY AtImage
<1>2. im \in ImageType
  BY <1>1 DEF ImageType, Write
<1>3. g \in Carrier \cup {None}
  BY <1>1 DEF Carrier, Holds, Write, Write
<1>4. /\ img' = [img EXCEPT ![i] = im] /\ guest' = [guest EXCEPT ![i] = g]
      /\ UNCHANGED <<disk, rec, sup, gate>>
  BY <1>1 DEF SessionInv, TypeInv, Write
<1>5. img'[i] = im /\ guest'[i] = g
  BY <1>4 DEF SessionInv, TypeInv
<1>6. /\ RecInv /\ rec \in RecType
  BY DEF SessionInv, TypeInv
<1>7. Opening(i)'
  BY <1>1, <1>4, <1>5, <1>6 DEF Opening, Holds, ImageType, Carrier, None, RecType,
    RecInv, Write
<1>8. Served(i)'
  BY <1>1, <1>4, <1>5, <1>6 DEF Served, Activating, ImageType, RecType, RecInv,
    Write
<1>9. Applied(i)'
  BY <1>1, <1>3, <1>4, <1>5, <1>6, SMTT(30) DEF Applied, Opening, Served, Activating, Holds,
    ImageType, Carrier, Disk, None, RecType, RecInv, Write
<1> QED BY <1>2, <1>3, <1>4, <1>7, <1>8, <1>9, OneImage

\* A published write is answered.
LEMMA AnswerInv ==
  ASSUME SessionInv, NEW i \in Images, Answer(i)
  PROVE  SessionInv'
<1> DEFINE im == img[i]
           g == [guest[i] EXCEPT !.answered = disk[i].log, !.pub = disk[i].log]
<1>1. /\ img[i] \in ImageType /\ guest[i] \in Carrier \cup {None}
      /\ disk[i] \in Disk
      /\ Opening(i) /\ Served(i) /\ Applied(i)
      /\ Holds(img[i]) => guest[i] \in Carrier
  BY AtImage
<1>2. im \in ImageType
  BY <1>1 DEF ImageType, Disk
<1>3. g \in Carrier \cup {None}
  BY <1>1 DEF Carrier, Holds, Answer, Disk
<1>4. /\ img' = [img EXCEPT ![i] = im] /\ guest' = [guest EXCEPT ![i] = g]
      /\ UNCHANGED <<disk, rec, sup, gate>>
  BY <1>1 DEF SessionInv, TypeInv, Answer
<1>5. img'[i] = im /\ guest'[i] = g
  BY <1>4 DEF SessionInv, TypeInv
<1>6. Opening(i)' /\ Served(i)' /\ Applied(i)'
  BY <1>1, <1>4, <1>5, ZenonT(60) DEF Opening, Served, Applied, Holds, Activating,
    ImageType, Carrier, None, Answer, Disk
<1> QED BY <1>2, <1>3, <1>4, <1>6, OneImage

\* A guest without the host forgets its carrier.
LEMMA RebootInv ==
  ASSUME SessionInv, NEW i \in Images, Reboot(i)
  PROVE  SessionInv'
<1> DEFINE im == img[i]
           g == None
<1>1. /\ img[i] \in ImageType /\ guest[i] \in Carrier \cup {None}
      /\ disk[i] \in Disk
      /\ Opening(i) /\ Served(i) /\ Applied(i)
      /\ Holds(img[i]) => guest[i] \in Carrier
  BY AtImage
<1>2. im \in ImageType
  BY <1>1 DEF ImageType
<1>3. g \in Carrier \cup {None}
  BY <1>1 DEF Carrier, Holds, Reboot
<1>4. /\ img' = [img EXCEPT ![i] = im] /\ guest' = [guest EXCEPT ![i] = g]
      /\ UNCHANGED <<disk, rec, sup, gate>>
  BY <1>1 DEF SessionInv, TypeInv, Reboot
<1>5. img'[i] = im /\ guest'[i] = g
  BY <1>4 DEF SessionInv, TypeInv
<1>6. /\ RecInv /\ rec \in RecType
  BY DEF SessionInv, TypeInv
<1>7. Opening(i)'
  BY <1>1, <1>4, <1>5, <1>6 DEF Opening, Holds, ImageType, Carrier, None, RecType,
    RecInv, Reboot
<1>8. Served(i)'
  BY <1>1, <1>4, <1>5, <1>6 DEF Served, Activating, ImageType, RecType, RecInv,
    Reboot
<1>9. Applied(i)'
  BY <1>1, <1>3, <1>4, <1>5, <1>6 DEF Applied, Opening, Served, Activating, Holds,
    ImageType, Carrier, Disk, None, RecType, RecInv, Reboot
<1> QED BY <1>2, <1>3, <1>4, <1>7, <1>8, <1>9, OneImage

\* A replayed carrier's requests go to the recovery thread.
LEMMA SubmitInv ==
  ASSUME SessionInv, NEW i \in Images, Submit(i),
         img[i].phase = "Replay", img[i].change = <<>>
  PROVE  SessionInv'
<1>1. /\ img[i] \in ImageType /\ guest[i] \in Carrier \cup {None}
      /\ disk[i] \in Disk
      /\ Opening(i) /\ Served(i) /\ Applied(i)
      /\ Holds(img[i]) => guest[i] \in Carrier
  BY AtImage
<1>2. TypeInv /\ RecInv
  BY DEF SessionInv
<1>3. TypeInv'
  <2>1. img' \in [Images -> ImageType]
    BY <1>1, <1>2, ZenonT(60) DEF TypeInv, ImageType, Submit
  <2>2. rec' \in RecType
    BY <1>2 DEF TypeInv, RecType, Submit
  <2> QED BY <1>2, <2>1, <2>2 DEF TypeInv, Submit
<1>4. /\ rec'.mode = rec.mode /\ rec'.stage = rec.stage /\ rec'.seen = rec.seen
      /\ rec'.got = rec.got /\ rec'.left = rec.left /\ rec'.next = rec.next
      /\ rec'.fenced = rec.fenced /\ rec'.sent = rec.sent
      /\ rec'.inputs = rec.inputs \cup {i}
      /\ UNCHANGED <<disk, guest, gate, sup>>
  BY <1>2 DEF TypeInv, RecType, Submit
<1>5. RecInv'
  BY <1>2, <1>4 DEF RecInv
<1>6. /\ img'[i].phase = "Waiting" /\ img'[i].frozen = img[i].queues
      /\ img'[i].saved = img[i].mem /\ img'[i].mem = img[i].mem
      /\ img'[i].queues = img[i].queues /\ img'[i].change = <<>>
      /\ img'[i].svc = img[i].svc /\ img'[i].storage = img[i].storage
      /\ img'[i].out = img[i].out
  BY <1>1, <1>2 DEF TypeInv, ImageType, Submit
<1>7. Opening(i)'
  BY <1>1, <1>2, <1>4, <1>6 DEF Opening, RecInv
<1>8. Served(i)' /\ Applied(i)'
  BY <1>1, <1>2, <1>4, <1>6 DEF Served, Applied, Holds, Activating
<1>9. ASSUME NEW j \in Images, j # i PROVE Opening(j)' /\ Served(j)' /\ Applied(j)'
  <2>1. img'[j] = img[j]
    BY <1>2, <1>9 DEF TypeInv, Submit
  <2>2. Opening(j) /\ Served(j) /\ Applied(j)
    BY DEF SessionInv
  <2> QED BY <1>4, <1>9, <2>1, <2>2 DEF Opening, Served, Applied, Holds, Activating
<1> QED BY <1>3, <1>5, <1>7, <1>8, <1>9 DEF SessionInv

\* A step on the log of a guest's active image.
LEMMA LogStep ==
  ASSUME SessionInv, NEW i \in Images, NEW d \in Disk,
         NEW im \in ImageType, NEW g \in Carrier,
         img[i].phase = "Active", im.phase = "Active",
         im.svc = img[i].svc, im.storage = img[i].storage, im.out = img[i].out,
         g.epoch <= d.epoch,
         g.epoch = d.epoch => g.answered <= d.log /\ d.log <= g.issued,
         img' = [img EXCEPT ![i] = im], guest' = [guest EXCEPT ![i] = g],
         disk' = [disk EXCEPT ![i] = d], UNCHANGED <<rec, sup, gate>>
  PROVE  SessionInv'
<1>1. TypeInv'
  BY DEF SessionInv, TypeInv
<1>2. RecInv'
  BY DEF SessionInv, RecInv
<1>3. img'[i] = im /\ guest'[i] = g /\ disk'[i] = d
  BY DEF SessionInv, TypeInv
<1>4. Opening(i) /\ Served(i) /\ Applied(i)
  BY DEF SessionInv
<1>5. Opening(i)' /\ Served(i)' /\ Applied(i)'
  BY <1>3, <1>4 DEF Opening, Served, Applied, Holds, Activating, Carrier, Disk, None
<1>6. ASSUME NEW j \in Images, j # i PROVE Opening(j)' /\ Served(j)' /\ Applied(j)'
  <2>1. img'[j] = img[j] /\ guest'[j] = guest[j] /\ disk'[j] = disk[j]
    BY <1>6 DEF SessionInv, TypeInv
  <2>2. Opening(j) /\ Served(j) /\ Applied(j)
    BY DEF SessionInv
  <2> QED BY <2>1, <2>2 DEF Opening, Served, Applied, Holds, Activating
<1> QED BY <1>1, <1>2, <1>5, <1>6 DEF SessionInv

\* GET of an active guest: a new epoch, which its carrier does not have.
LEMMA ReplaceInv ==
  ASSUME SessionInv, NEW i \in Images, Replace(i) PROVE SessionInv'
<1> DEFINE d == [disk[i] EXCEPT !.epoch = @ + 1]
           im == [img[i] EXCEPT !.change = <<"epoch", 0>>]
<1>1. img[i] \in ImageType /\ disk[i] \in Disk /\ Applied(i) /\ guest[i] \in Carrier
  BY AtImage DEF Replace, Holds
<1>2. d \in Disk /\ im \in ImageType
  BY <1>1 DEF Disk, ImageType, Tags
<1>3. guest[i].epoch <= d.epoch /\ guest[i].epoch # d.epoch
  BY <1>1 DEF Disk, Carrier, Applied
<1>4. /\ img' = [img EXCEPT ![i] = im] /\ guest' = [guest EXCEPT ![i] = guest[i]]
      /\ disk' = [disk EXCEPT ![i] = d] /\ UNCHANGED <<rec, sup, gate>>
  BY <1>1 DEF SessionInv, TypeInv, Replace
<1>5. /\ img[i].phase = "Active" /\ im.phase = "Active"
      /\ im.svc = img[i].svc /\ im.storage = img[i].storage /\ im.out = img[i].out
  BY <1>1 DEF Replace, ImageType
<1> HIDE DEF d, im
<1> QED BY <1>1, <1>2, <1>3, <1>4, <1>5, LogStep

\* The carrier of that epoch is exported.
LEMMA ReplacedInv ==
  ASSUME SessionInv, NEW i \in Images, Attaching(i),
         guest' = [guest EXCEPT ![i] = Fresh(i)],
         img' = [img EXCEPT ![i].phase = "Fresh", ![i].queues = {},
                            ![i].change = <<"attach", 0>>],
         UNCHANGED <<disk, rec, gate, sup>>
  PROVE  SessionInv'
<1>1. /\ img[i] \in ImageType /\ disk[i] \in Disk
      /\ Opening(i) /\ Served(i) /\ Applied(i)
  BY AtImage
<1>2. <<"attach", 0>> \in Tags \X Nat /\ <<"attach", 0>>[1] = "attach"
  BY DEF Tags
<1>3. PICK c \in Tags \X Nat : c = <<"attach", 0>> /\ c[1] = "attach"
  BY <1>2
<1> DEFINE im == [img[i] EXCEPT !.phase = "Fresh", !.queues = {}, !.change = c]
           g == Fresh(i)
<1>4. im \in ImageType
  BY <1>1 DEF ImageType
<1>5. g \in Carrier \cup {None}
  BY <1>1 DEF Carrier, Fresh, Disk
<1>6. img' = [img EXCEPT ![i] = im] /\ guest' = [guest EXCEPT ![i] = g]
  BY <1>1, <1>3 DEF SessionInv, TypeInv
<1>7. img'[i] = im /\ guest'[i] = g
  BY <1>6 DEF SessionInv, TypeInv
<1>8. img[i].phase = "Active"
  BY <1>1 DEF Applied
<1>9. /\ img'[i].phase = "Fresh" /\ img'[i].change[1] = "attach"
      /\ img'[i].svc = img[i].svc /\ img'[i].storage = img[i].storage
      /\ img'[i].out = img[i].out
  <2>1. im.phase = "Fresh" /\ im.change = c
    BY <1>1 DEF ImageType
  <2>2. im.svc = img[i].svc /\ im.storage = img[i].storage /\ im.out = img[i].out
    BY <1>1 DEF ImageType
  <2> QED BY <1>3, <1>7, <2>1, <2>2
<1>10. /\ guest'[i].epoch = disk[i].epoch /\ guest'[i].answered = disk[i].log
       /\ guest'[i].issued = disk[i].log /\ guest'[i] # None
       /\ disk[i].epoch \in Nat /\ disk[i].log \in Nat
  BY <1>1, <1>7 DEF Fresh, Disk, None
<1> HIDE DEF im, g
<1>11. Opening(i)' /\ Served(i)'
  BY <1>1, <1>8, <1>9 DEF Opening, Served, Activating
<1>12. guest'[i].epoch <= disk'[i].epoch
  BY <1>10
<1>13. Applied(i)'
  BY <1>9, <1>10, <1>12 DEF Applied, Holds
<1> QED BY <1>4, <1>5, <1>6, <1>11, <1>13, OneImage

\* A wait on another image's fetch is interrupted.
LEMMA InterruptedInv ==
  ASSUME SessionInv, NEW i \in Images, Interrupted(i) PROVE SessionInv'
<1> DEFINE g == CarrierFailed(i, img[i])
<1>1. /\ img[i] \in ImageType /\ guest[i] \in Carrier
      /\ Opening(i) /\ Served(i) /\ Applied(i)
  BY AtImage DEF Interrupted, Holds
<1>2. (img[i].svc = "connected") \in BOOLEAN
  OBVIOUS
<1>3. PICK e \in BOOLEAN : e = (img[i].svc = "connected")
  BY <1>2
<1> DEFINE im == [img[i] EXCEPT !.broken = TRUE, !.event = e]
<1>4. im \in ImageType
  BY <1>1 DEF ImageType
<1>5. g \in Carrier \cup {None}
  BY <1>1 DEF CarrierFailed, Carrier
<1>6. /\ img' = [img EXCEPT ![i] = im] /\ guest' = [guest EXCEPT ![i] = g]
      /\ gate' \in BOOLEAN /\ UNCHANGED <<disk, rec, sup>>
  BY <1>1, <1>3 DEF SessionInv, TypeInv, Interrupted
<1>7. img'[i] = im /\ guest'[i] = g
  BY <1>6 DEF SessionInv, TypeInv
<1>8. Opening(i)' /\ Served(i)' /\ Applied(i)'
  BY <1>1, <1>6, <1>7 DEF Opening, Served, Applied, Holds, Activating,
    ImageType, Carrier, None, CarrierFailed
<1> QED BY <1>4, <1>5, <1>6, <1>8, OneImageOfHost

\* The append of an accepted write.
LEMMA AppendInv ==
  ASSUME SessionInv, NEW i \in Images, Append(i) PROVE SessionInv'
<1> DEFINE d == [disk[i] EXCEPT !.log = @ + 1]
<1>1. img[i] \in ImageType /\ disk[i] \in Disk /\ Applied(i) /\ guest[i] \in Carrier
  BY AtImage DEF Append, Holds
<1>2. d \in Disk /\ d.epoch = disk[i].epoch /\ d.log = disk[i].log + 1
  BY <1>1 DEF Disk
<1>3. /\ guest[i].epoch <= d.epoch
      /\ guest[i].epoch = d.epoch =>
           guest[i].answered <= d.log /\ d.log <= guest[i].issued
  BY <1>1, <1>2 DEF Disk, Carrier, Append, Applied, Holds, None
<1>4. /\ img' = [img EXCEPT ![i] = img[i]] /\ guest' = [guest EXCEPT ![i] = guest[i]]
      /\ disk' = [disk EXCEPT ![i] = d] /\ UNCHANGED <<rec, sup, gate>>
  BY <1>1 DEF SessionInv, TypeInv, Append
<1>5. img[i].phase = "Active"
  BY DEF Append
<1> HIDE DEF d
<1> QED BY <1>1, <1>2, <1>3, <1>4, <1>5, LogStep

\* Backend::process, whatever it finds.
LEMMA HandleInv ==
  ASSUME SessionInv, NEW i \in Images, Handle(i) PROVE SessionInv'
<1>1. Fail(i) => SessionInv'
  BY FailInv DEF Fail
<1>2. Consumed(i) => SessionInv'
  BY ConsumedInv
<1>3. img[i].phase = "Waiting" /\ Activated(i) /\ Finish(i) => SessionInv'
  BY <1>1, FinishedInv DEF Activated, Finish
<1>4. img[i].phase = "Fresh" /\ ActivateFresh(i) => SessionInv'
  BY ActivateFreshInv
<1>5. img[i].change = <<>> /\ img[i].phase = "Replay" /\ Submit(i) => SessionInv'
  BY SubmitInv
<1> QED BY <1>1, <1>2, <1>3, <1>4, <1>5 DEF Handle

\* Every step of a service thread, a backend or a guest.
LEMMA ImageStep ==
  ASSUME SessionInv, NEW i \in Images,
         Service(i) \/ Backend(i) \/ Guest(i) \/ Interrupted(i)
  PROVE  SessionInv'
<1>1. Fail(i) => SessionInv'
  BY FailInv DEF Fail
<1>2. CASE Service(i)
  <2>1. CASE Refuse(i)
    BY <2>1, ClosingInv DEF Refuse, Closing
  <2>2. CASE Connect(i)
    BY <2>2, ClosingInv, ConnectedInv DEF Connect, Closing
  <2> QED BY <1>2, <2>1, <2>2, ShutInv, DrainInv DEF Service
<1>3. CASE Backend(i)
  <2>1. CASE Process(i)
    BY <2>1, HandleInv DEF Process
  <2>2. CASE Timer(i)
    BY <1>1, <2>2 DEF Timer
  <2>3. CASE Export(i)
    BY <1>1, <2>3, ReplacedInv DEF Export
  <2> QED BY <1>3, <2>1, <2>2, <2>3, EndInv, AppendInv, AnswerInv DEF Backend
<1>4. CASE Guest(i)
  <2>1. CASE Get(i)
    BY <1>1, <2>1, ExportedInv DEF Get
  <2>2. CASE Set(i)
    BY <1>1, <2>2, RestoredInv DEF Set
  <2>3. CASE Kick(i)
    BY <2>3, HandleInv DEF Kick
  <2>4. ASSUME NEW change \in Changes(i), Begin(i, change) PROVE SessionInv'
    <3>1. change \in {"memory", "queue"} \X Nat
      BY DEF Changes
    <3>2. CASE PermitsChange(i, change) /\ ~Overdue(img[i])
      BY <2>4, <3>1, <3>2, ChangingInv
    <3>3. CASE ~(PermitsChange(i, change) /\ ~Overdue(img[i]))
      BY <2>4, <3>3, FailInv DEF Begin
    <3> QED BY <3>2, <3>3
  <2>5. CASE Error(i)
    BY <2>5, ClosingInv DEF Error
  <2> QED BY <1>4, <2>1, <2>2, <2>3, <2>4, <2>5, AcceptInv, LeaveInv, ReplaceInv, WriteInv,
             RebootInv DEF Guest
<1> QED BY <1>2, <1>3, <1>4, InterruptedInv

-----------------------------------------------------------------------------
(* The recovery thread and the supervisor.                                 *)

\* A new process: nothing of the last one is left but disks and guests.
LEMMA StartInv ==
  ASSUME SessionInv, NEW mode \in {"cold", "retained"}, Start(mode)
  PROVE  SessionInv'
<1>1. TypeInv /\ RecInv
  BY DEF SessionInv
<1>2. Unstarted \in ImageType /\ [Unstarted EXCEPT !.svc = "listen"] \in ImageType
  BY DEF Unstarted, ImageType
<1>3. rec' \in RecType
  <2>1. Idle \in RecType
    BY DEF RecType, Idle
  <2>2. disk \in [Images -> Disk \cup {0}]
    BY <1>1 DEF TypeInv
  <2> QED BY <2>1, <2>2 DEF Start, RecType, Scanned
<1>4. TypeInv'
  BY <1>1, <1>2, <1>3 DEF TypeInv, Start, Down, Openings
<1>5. /\ rec'.mode = mode /\ rec'.seen = disk /\ rec'.got = {} /\ rec'.inputs = {}
      /\ rec'.next = 1 /\ rec'.fenced = {} /\ rec'.sent = {}
      /\ rec'.stage = IF mode = "cold" THEN "repair" ELSE "collect"
      /\ sup'.stage = IF mode = "cold" THEN "recover" ELSE "serve"
      /\ UNCHANGED <<disk, guest>>
  BY DEF Start, Idle, Scanned, Down
<1>6. {j \in Images : j < 1} = {}
  BY SessionConstants, Count
<1>7. RecInv'
  BY <1>1, <1>5, <1>6 DEF RecInv, TypeInv
<1>8. ASSUME NEW i \in Images PROVE Opening(i)' /\ Served(i)' /\ Applied(i)'
  <2>1. /\ img'[i].phase = "AwaitingFd" /\ img'[i].storage = "opening"
        /\ ~img'[i].out /\ img'[i].change = <<>> /\ (mode = "cold" => img'[i].svc = "off")
    BY DEF Start, Unstarted, Openings
  <2>2. Applied(i)
    BY DEF SessionInv
  <2> QED BY <1>5, <2>1, <2>2 DEF Opening, Served, Applied, Holds, Activating
<1> QED BY <1>4, <1>7, <1>8 DEF SessionInv

\* A process that has ended.
LEMMA GoneInv ==
  ASSUME SessionInv, Gone, UNCHANGED <<disk, guest>> PROVE SessionInv'
<1>1. TypeInv
  BY DEF SessionInv
<1>2. Unstarted \in ImageType
  BY DEF Unstarted, ImageType
<1>3. rec' \in RecType
  BY DEF Gone, RecType, Idle
<1>4. TypeInv'
  BY <1>1, <1>2, <1>3 DEF TypeInv, Gone, Down
<1>5. {j \in Images : j < 1} = {}
  BY SessionConstants, Count
<1>6. RecInv'
  BY <1>5 DEF RecInv, Gone, Idle, Down
<1>7. ASSUME NEW i \in Images PROVE Opening(i)' /\ Served(i)' /\ Applied(i)'
  <2>1. Applied(i)
    BY DEF SessionInv
  <2> QED BY <2>1 DEF Opening, Served, Applied, Holds, Activating, Gone, Idle, Down, Unstarted
<1> QED BY <1>4, <1>6, <1>7 DEF SessionInv

\* A conjunction is a truth value.
LEMMA Truth ==
  ASSUME NEW a, NEW b PROVE (~a /\ ~b) \in BOOLEAN /\ (a /\ ~b) \in BOOLEAN
OBVIOUS

\* A step of the recovery thread or the supervisor that changes, of the images,
\* only flags the invariant does not read.
LEMMA FlagsInv ==
  ASSUME SessionInv, img' \in [Images -> ImageType],
         \A i \in Images :
           /\ img'[i].phase = img[i].phase /\ img'[i].svc = img[i].svc
           /\ img'[i].storage = img[i].storage /\ img'[i].out = img[i].out
           /\ img'[i].mem = img[i].mem /\ img'[i].saved = img[i].saved
           /\ img'[i].queues = img[i].queues /\ img'[i].frozen = img[i].frozen
           /\ img'[i].change = img[i].change,
         UNCHANGED <<disk, guest, sup>>, gate' \in BOOLEAN,
         rec' \in RecType, RecInv',
         rec'.mode = rec.mode, rec'.seen = rec.seen, rec'.left = rec.left,
         rec'.inputs \cup rec'.got = rec.inputs \cup rec.got,
         rec'.fenced = rec.fenced, rec'.sent = rec.sent,
         \/ rec'.stage = rec.stage
         \/ rec.stage = "repair" /\ rec'.stage = "attach"
         \/ rec.stage = "attach" /\ rec'.stage = "send"
         \/ rec.stage = "notify" /\ rec'.stage = "ok" /\ rec.mode # "cold"
  PROVE  SessionInv'
<1>1. TypeInv'
  BY DEF SessionInv, TypeInv
<1>2. ASSUME NEW i \in Images PROVE Opening(i)' /\ Served(i)' /\ Applied(i)'
  <2>1. Opening(i) /\ Served(i) /\ Applied(i)
    BY DEF SessionInv
  <2>2. RecInv
    BY DEF SessionInv
  <2>3. Opening(i)'
    BY <2>1 DEF Opening
  <2>4. Served(i)'
    BY <2>1, <2>2 DEF Served, Activating, RecInv
  <2>5. Applied(i)'
    BY <2>1 DEF Applied, Holds
  <2> QED BY <2>3, <2>4, <2>5
<1> QED BY <1>1, <1>2 DEF SessionInv

\* An input is collected.
LEMMA CollectInv ==
  ASSUME SessionInv, NEW i \in Images, Collect(i) PROVE SessionInv'
<1>1. TypeInv /\ RecInv
  BY DEF SessionInv
<1>2. /\ rec'.mode = rec.mode /\ rec'.stage = rec.stage /\ rec'.seen = rec.seen
      /\ rec'.got = rec.got \cup {i} /\ rec'.inputs = rec.inputs \ {i}
      /\ rec'.left = rec.left /\ rec'.next = rec.next
      /\ rec'.fenced = rec.fenced /\ rec'.sent = rec.sent /\ rec' \in RecType
      /\ i \in rec.inputs /\ rec.stage = "collect"
      /\ UNCHANGED <<disk, guest, img, gate, sup>>
  BY <1>1 DEF TypeInv, RecType, Collect
<1>3. RecInv'
  BY <1>1, <1>2 DEF RecInv
<1>4. rec'.inputs \cup rec'.got = rec.inputs \cup rec.got
  BY <1>2
<1>5. img' \in [Images -> ImageType] /\ gate' \in BOOLEAN
  BY <1>1, <1>2 DEF TypeInv
<1> QED BY <1>2, <1>3, <1>4, <1>5, FlagsInv

\* The last fence: every image is below the next.
LEMMA RepairDoneInv ==
  ASSUME SessionInv, RepairDone PROVE SessionInv'
<1>1. TypeInv /\ RecInv
  BY DEF SessionInv
<1>2. /\ rec'.mode = rec.mode /\ rec'.stage = "attach" /\ rec'.seen = rec.seen
      /\ rec'.got = rec.got /\ rec'.inputs = rec.inputs
      /\ rec'.left = rec.left /\ rec'.next = rec.next
      /\ rec'.fenced = rec.fenced /\ rec'.sent = rec.sent /\ rec' \in RecType
      /\ rec.stage = "repair" /\ rec.next > Cardinality(Images)
      /\ UNCHANGED <<disk, guest, img, gate, sup>>
  BY <1>1 DEF TypeInv, RecType, RepairDone
<1>3. rec.fenced = Images
  BY <1>1, <1>2, SessionConstants, Count DEF RecInv, TypeInv, RecType
<1>4. RecInv'
  BY <1>1, <1>2, <1>3 DEF RecInv
<1>5. img' \in [Images -> ImageType] /\ gate' \in BOOLEAN
  BY <1>1, <1>2 DEF TypeInv
<1> QED BY <1>2, <1>4, <1>5, FlagsInv

\* The host owns every recovered image.
LEMMA AttachAllInv ==
  ASSUME SessionInv, AttachAll PROVE SessionInv'
<1>1. TypeInv /\ RecInv
  BY DEF SessionInv
<1>2. /\ rec'.mode = rec.mode /\ rec'.stage = "send" /\ rec'.seen = rec.seen
      /\ rec'.got = rec.got /\ rec'.inputs = rec.inputs
      /\ rec'.left = rec.left /\ rec'.next = rec.next
      /\ rec'.fenced = rec.fenced /\ rec'.sent = rec.sent /\ rec' \in RecType
      /\ rec.stage = "attach" /\ rec.mode = "retained"
      /\ UNCHANGED <<disk, guest, gate, sup>>
  BY <1>1 DEF TypeInv, RecType, AttachAll
<1>3. RecInv'
  BY <1>1, <1>2, SessionConstants DEF RecInv
<1>4. ASSUME NEW i \in Images
      PROVE  /\ [img[i] EXCEPT !.attached = TRUE] \in ImageType
             /\ img'[i] = [img[i] EXCEPT !.attached = TRUE]
             /\ img[i] \in ImageType
  <2>1. img[i] \in ImageType
    BY <1>1 DEF TypeInv
  <2>2. img'[i] = [img[i] EXCEPT !.attached = TRUE]
    BY DEF AttachAll
  <2>3. [img[i] EXCEPT !.attached = TRUE] \in ImageType
    BY <2>1 DEF ImageType
  <2> QED BY <2>1, <2>2, <2>3
<1>5. img' \in [Images -> ImageType] /\ gate' \in BOOLEAN
  BY <1>1, <1>2, <1>4 DEF TypeInv, AttachAll
<1>6. \A i \in Images :
           /\ img'[i].phase = img[i].phase /\ img'[i].svc = img[i].svc
           /\ img'[i].storage = img[i].storage /\ img'[i].out = img[i].out
           /\ img'[i].mem = img[i].mem /\ img'[i].saved = img[i].saved
           /\ img'[i].queues = img[i].queues /\ img'[i].frozen = img[i].frozen
           /\ img'[i].change = img[i].change
  <2> TAKE i \in Images
  <2>1. img'[i] = [img[i] EXCEPT !.attached = TRUE] /\ img[i] \in ImageType
    BY <1>4
  <2> QED BY <2>1 DEF ImageType
<1> QED BY <1>2, <1>3, <1>5, <1>6, FlagsInv

\* A notification only raises events.
LEMMA NotifiedFlags ==
  ASSUME TypeInv, img' = Notified
  PROVE  /\ img' \in [Images -> ImageType]
         /\ \A i \in Images :
              /\ img'[i].phase = img[i].phase /\ img'[i].svc = img[i].svc
              /\ img'[i].storage = img[i].storage /\ img'[i].out = img[i].out
              /\ img'[i].mem = img[i].mem /\ img'[i].saved = img[i].saved
              /\ img'[i].queues = img[i].queues /\ img'[i].frozen = img[i].frozen
              /\ img'[i].change = img[i].change
<1>1. ASSUME NEW i \in Images
      PROVE  /\ img[i] \in ImageType /\ img'[i] \in ImageType
             /\ \E b \in BOOLEAN : img'[i] = [img[i] EXCEPT !.event = b]
  <2>1. img[i] \in ImageType
    BY DEF TypeInv
  <2>2. (~img[i].failed /\ img[i].svc # "ended") \in BOOLEAN
    BY Truth, Zenon
  <2>3. \A b \in BOOLEAN : [img[i] EXCEPT !.event = b] \in ImageType
    BY <2>1 DEF ImageType
  <2>4. img'[i] = [img[i] EXCEPT !.event = ~img[i].failed /\ img[i].svc # "ended"]
    BY DEF Notified
  <2> QED BY <2>1, <2>2, <2>3, <2>4, Zenon
<1>2. DOMAIN img' = Images /\ img' = [i \in Images |-> img'[i]]
  BY DEF Notified
<1>3. img' \in [Images -> ImageType]
  BY <1>1, <1>2
<1> QED BY <1>1, <1>3 DEF ImageType

\* The thread ends with the host.
LEMMA NotifyInv ==
  ASSUME SessionInv, Notify PROVE SessionInv'
<1>1. TypeInv /\ RecInv
  BY DEF SessionInv
<1>2. /\ rec'.mode = rec.mode /\ rec'.stage = "ok" /\ rec'.seen = rec.seen
      /\ rec'.got = rec.got /\ rec'.inputs = rec.inputs
      /\ rec'.left = rec.left /\ rec'.next = rec.next
      /\ rec'.fenced = rec.fenced /\ rec'.sent = rec.sent /\ rec' \in RecType
      /\ rec.stage = "notify" /\ img' = Notified
      /\ UNCHANGED <<disk, guest, gate, sup>>
  BY <1>1 DEF TypeInv, RecType, Notify
<1>3. rec.mode # "cold"
  BY <1>1, <1>2 DEF RecInv
<1>4. RecInv'
  BY <1>1, <1>2 DEF RecInv
<1>5. gate' \in BOOLEAN
  BY <1>1, <1>2 DEF TypeInv
<1> QED BY <1>1, <1>2, <1>3, <1>4, <1>5, FlagsInv, NotifiedFlags

\* The complete set is validated: what is left to replay is what the log lacks.
LEMMA PrepareInv ==
  ASSUME SessionInv, Prepare PROVE SessionInv'
<1>1. TypeInv /\ RecInv
  BY DEF SessionInv
<1>2. rec.mode = "retained" /\ rec.seen \in [Images -> Disk]
  BY <1>1 DEF Prepare, RecInv, TypeInv, RecType
<1>3. ASSUME NEW i \in Images
      PROVE  /\ guest[i] \in Carrier /\ Remaining(i) \in Int
             /\ rec.seen[i] \in Disk
  BY <1>1, <1>2 DEF Prepare, Prepared, TypeInv, Remaining, Carrier, Disk
<1>4. [i \in Images |-> Remaining(i)] \in [Images -> Int]
  BY <1>3
<1>5. /\ rec'.mode = rec.mode /\ rec'.stage = "repair" /\ rec'.seen = rec.seen
      /\ rec'.got = rec.got /\ rec'.inputs = rec.inputs
      /\ rec'.left = [i \in Images |-> Remaining(i)] /\ rec'.next = rec.next
      /\ rec'.fenced = rec.fenced /\ rec'.sent = rec.sent /\ rec' \in RecType
      /\ rec.stage = "collect" /\ rec.got = Images
      /\ UNCHANGED <<disk, guest, img, gate, sup>>
  BY <1>1, <1>4 DEF TypeInv, RecType, Prepare
<1>6. TypeInv'
  BY <1>1, <1>5 DEF TypeInv
<1>7. RecInv'
  BY <1>1, <1>5 DEF RecInv
<1>8. rec.fenced = {}
  BY <1>1, <1>5, SessionConstants, Count DEF RecInv
<1>9. ASSUME NEW i \in Images PROVE Opening(i)' /\ Served(i)' /\ Applied(i)'
  <2>1. Opening(i) /\ Served(i) /\ Applied(i)
    BY DEF SessionInv
  <2>2. Prepared(i) /\ disk[i] \in Disk
    BY <1>1 DEF Prepare, TypeInv
  <2>3. rec'.left[i] = guest[i].issued - rec.seen[i].log
    BY <1>5 DEF Remaining
  <2>4. img[i].phase = "Waiting" =>
          /\ rec'.left[i] >= 0 /\ rec'.left[i] + disk[i].log = guest[i].issued
          /\ guest[i].answered <= disk[i].log
    BY <1>2, <1>3, <1>5, <2>1, <2>2, <2>3 DEF Opening, Prepared, Carrier, Disk
  <2>5. Opening(i)'
    BY <1>2, <1>5, <1>8, <2>1, <2>4 DEF Opening
  <2>6. Served(i)' /\ Applied(i)'
    BY <1>2, <1>5, <2>1 DEF Served, Applied, Activating, Holds
  <2> QED BY <2>5, <2>6
<1> QED BY <1>6, <1>7, <1>9 DEF SessionInv

\* Repair of one image at a time.
LEMMA RepairInv ==
  ASSUME SessionInv, NEW i \in Images, i = rec.next, rec.stage = "repair",
         UNCHANGED <<img, gate, sup>>,
         ColdFence(i) \/ ReplayNext(i) \/ LiveFence(i)
  PROVE  SessionInv'
<1>1. TypeInv /\ RecInv
  BY DEF SessionInv
<1>2. rec.next = i /\ rec.stage = "repair" /\ UNCHANGED <<img, gate, sup>>
  OBVIOUS
<1>3. /\ img[i] \in ImageType /\ guest[i] \in Carrier \cup {None}
      /\ disk[i] \in Disk
      /\ Opening(i) /\ Served(i) /\ Applied(i)
      /\ Holds(img[i]) => guest[i] \in Carrier
  BY <1>2, AtImage
<1>4. i \in Nat /\ i \notin rec.fenced /\ Images \subseteq Nat
  BY <1>1, <1>2, SessionConstants, Count DEF RecInv, TypeInv, RecType
<1>5. {j \in Images : j < i + 1} = {j \in Images : j < i} \cup {i}
  BY <1>2, <1>4
<1>6. CASE ColdFence(i)
  <2>1. /\ rec'.mode = rec.mode /\ rec'.stage = rec.stage /\ rec'.seen = rec.seen
        /\ rec'.got = rec.got /\ rec'.inputs = rec.inputs
        /\ rec'.left = rec.left /\ rec'.next = i + 1
        /\ rec'.fenced = rec.fenced \cup {i} /\ rec'.sent = rec.sent
        /\ rec' \in RecType /\ rec.mode = "cold" /\ guest' = guest
    <3>1. rec.next + 1 \in Nat /\ rec.fenced \cup {i} \in SUBSET Images
      BY <1>1, <1>2, <1>4 DEF TypeInv, RecType
    <3>2. rec' \in RecType
      BY <1>1, <1>6, <3>1 DEF TypeInv, RecType, ColdFence
    <3> QED BY <1>1, <1>2, <1>6, <3>2 DEF TypeInv, RecType, ColdFence
  <2>2. /\ disk' \in [Images -> Disk] /\ disk'[i].epoch = disk[i].epoch + 1
        /\ \A j \in Images \ {i} : disk'[j] = disk[j]
    BY <1>1, <1>2, <1>3, <1>6 DEF ColdFence, TypeInv, Disk
  <2>3. TypeInv' /\ RecInv'
    BY <1>1, <1>2, <1>4, <1>5, <2>1, <2>2 DEF TypeInv, RecInv
  <2>4. ASSUME NEW j \in Images PROVE Opening(j)' /\ Served(j)' /\ Applied(j)'
    <3>1. /\ Opening(j) /\ Served(j) /\ Applied(j)
          /\ guest[j] \in Carrier \cup {None} /\ disk[j] \in Disk
      BY AtImage
    <3>2. Opening(j)' /\ Served(j)'
      BY <1>2, <2>1, <3>1 DEF Opening, Served, Activating
    <3>3. img[j].phase = "AwaitingFd" /\ img'[j] = img[j]
      BY <1>2, <2>1, <3>1 DEF Served
    <3>4. ~Attaching(j)
      BY <3>1, <3>3 DEF Applied
    <3>5. disk[j].epoch \in Nat /\ guest[j].epoch \in Nat
      BY <3>1 DEF Disk, Carrier, None
    <3>6. disk'[j] = disk[j] \/ disk'[j].epoch = disk[j].epoch + 1
      BY <2>2
    <3>7. guest[j].epoch <= disk[j].epoch
      BY <3>1 DEF Applied
    <3>8. disk'[j] = disk[j] => Applied(j)'
      BY <2>1, <3>1, <3>3, <3>4 DEF Applied, Holds
    <3>9. disk'[j].epoch = disk[j].epoch + 1 => Applied(j)'
      BY <2>1, <3>3, <3>4, <3>5, <3>7 DEF Applied, Holds
    <3> QED BY <3>2, <3>6, <3>8, <3>9
  <2> QED BY <2>3, <2>4 DEF SessionInv
<1>7. ASSUME rec.mode = "retained"
      PROVE  img[i].phase = "Waiting" /\ guest[i] \in Carrier
  BY <1>1, <1>2, <1>3, <1>7 DEF RecInv, Opening, Served, Activating, Holds
<1>8. CASE ReplayNext(i)
  <2>1. /\ rec'.mode = rec.mode /\ rec'.stage = rec.stage /\ rec'.seen = rec.seen
        /\ rec'.got = rec.got /\ rec'.inputs = rec.inputs
        /\ rec'.next = i /\ rec'.fenced = rec.fenced /\ rec'.sent = rec.sent
        /\ rec' \in RecType /\ rec.mode = "retained" /\ rec.left[i] > 0
        /\ rec'.left[i] = rec.left[i] - 1 /\ rec.left[i] \in Int
        /\ \A j \in Images \ {i} : rec'.left[j] = rec.left[j]
    BY <1>1, <1>2, <1>8 DEF TypeInv, RecType, ReplayNext
  <2>2. /\ disk' \in [Images -> Disk]
        /\ disk'[i].epoch = disk[i].epoch /\ disk'[i].log = disk[i].log + 1
        /\ \A j \in Images \ {i} : disk'[j] = disk[j]
    BY <1>1, <1>2, <1>3, <1>8 DEF ReplayNext, TypeInv, Disk
  <2>3. /\ guest' \in [Images -> Carrier \cup {None}] /\ guest'[i] \in Carrier
        /\ guest'[i].epoch = guest[i].epoch /\ guest'[i].issued = guest[i].issued
        /\ guest'[i].answered = guest[i].answered
        /\ \A j \in Images \ {i} : guest'[j] = guest[j]
    <3> DEFINE g == [guest[i] EXCEPT !.pub = disk[i].log + 1]
    <3>1. /\ g \in Carrier /\ g.epoch = guest[i].epoch /\ g.issued = guest[i].issued
          /\ g.answered = guest[i].answered
      BY <1>3, <1>7, <2>1 DEF Disk, Carrier
    <3>2. guest' = [guest EXCEPT ![i] = g]
      BY <1>8 DEF ReplayNext
    <3> HIDE DEF g
    <3> QED BY <1>1, <3>1, <3>2 DEF TypeInv
  <2>4. TypeInv' /\ RecInv'
    BY <1>1, <1>2, <1>4, <2>1, <2>2, <2>3 DEF TypeInv, RecInv
  <2>5. Opening(i)' /\ Served(i)' /\ Applied(i)'
    <3>1. /\ rec.left[i] + disk[i].log = guest[i].issued
          /\ guest[i].answered <= disk[i].log
      BY <1>2, <1>3, <1>7, <2>1 DEF Opening
    <3>2. /\ rec'.left[i] >= 0 /\ rec'.left[i] + disk'[i].log = guest'[i].issued
          /\ guest'[i].answered <= disk'[i].log /\ disk'[i].log <= guest'[i].issued
      <4>1. disk[i].log \in Nat /\ guest[i].issued \in Nat /\ guest[i].answered \in Nat
        BY <1>3, <1>7, <2>1 DEF Disk, Carrier
      <4> QED BY <2>1, <2>2, <2>3, <3>1, <4>1
    <3>3. Opening(i)'
      BY <1>2, <1>3, <1>4, <2>1, <2>2, <3>2 DEF Opening
    <3>4. Served(i)' /\ Applied(i)'
      BY <1>2, <1>3, <1>7, <2>1, <2>2, <2>3, <3>2 DEF Served, Applied, Holds, Activating,
        Carrier, Disk, None
    <3> QED BY <3>3, <3>4
  <2>6. ASSUME NEW j \in Images, j # i PROVE Opening(j)' /\ Served(j)' /\ Applied(j)'
    <3>1. Opening(j) /\ Served(j) /\ Applied(j)
      BY AtImage
    <3> QED BY <1>2, <2>1, <2>2, <2>3, <2>6, <3>1 DEF Opening, Served, Applied, Holds,
               Activating
  <2> QED BY <2>4, <2>5, <2>6 DEF SessionInv
<1>9. CASE LiveFence(i)
  <2>1. /\ rec'.mode = rec.mode /\ rec'.stage = rec.stage /\ rec'.seen = rec.seen
        /\ rec'.got = rec.got /\ rec'.inputs = rec.inputs /\ rec'.left = rec.left
        /\ rec'.next = i + 1 /\ rec'.fenced = rec.fenced \cup {i}
        /\ rec'.sent = rec.sent /\ rec' \in RecType /\ rec.mode = "retained"
        /\ rec.left[i] = 0 /\ disk' = disk
    <3>1. rec.next + 1 \in Nat /\ rec.fenced \cup {i} \in SUBSET Images
      BY <1>1, <1>2, <1>4 DEF TypeInv, RecType
    <3>2. rec' \in RecType
      BY <1>1, <1>9, <3>1 DEF TypeInv, RecType, LiveFence
    <3> QED BY <1>1, <1>2, <1>9, <3>2 DEF TypeInv, RecType, LiveFence
  <2>2. /\ guest' \in [Images -> Carrier \cup {None}] /\ guest'[i] \in Carrier
        /\ guest'[i].epoch = guest[i].epoch /\ guest'[i].issued = guest[i].issued
        /\ guest'[i].answered = guest[i].answered
        /\ \A j \in Images \ {i} : guest'[j] = guest[j]
    BY <1>1, <1>2, <1>3, <1>7, <1>9, <2>1 DEF LiveFence, TypeInv, Disk, Carrier
  <2>3. TypeInv' /\ RecInv'
    BY <1>1, <1>2, <1>4, <1>5, <2>1, <2>2 DEF TypeInv, RecInv
  <2>4. Opening(i)' /\ Served(i)' /\ Applied(i)'
    BY <1>2, <1>3, <1>4, <1>7, <2>1, <2>2 DEF Opening, Served, Applied, Holds,
       Activating, Disk, Carrier, None
  <2>5. ASSUME NEW j \in Images, j # i PROVE Opening(j)' /\ Served(j)' /\ Applied(j)'
    <3>1. Opening(j) /\ Served(j) /\ Applied(j)
      BY AtImage
    <3> QED BY <1>2, <2>1, <2>2, <2>5, <3>1 DEF Opening, Served, Applied, Holds,
               Activating
  <2> QED BY <2>3, <2>4, <2>5 DEF SessionInv
<1> QED BY <1>2, <1>6, <1>8, <1>9

\* An Activated value is sent.
LEMMA SendInv ==
  ASSUME SessionInv, Send PROVE SessionInv'
<1>1. TypeInv /\ RecInv
  BY DEF SessionInv
<1>2. Images \ rec.sent # {} /\ Images \subseteq Nat
  <2>1. rec.sent \in SUBSET Images /\ rec.sent # Images
    BY <1>1 DEF Send, RecInv, TypeInv, RecType
  <2>2. Images \subseteq Nat
    BY SessionConstants, Count
  <2> QED BY <2>1, <2>2
<1>3. \E i \in Images \ rec.sent : \A j \in Images \ rec.sent : i <= j
  <2> DEFINE R == OpToRel(<, Nat)
             T == Images \ rec.sent
  <2>1. T \subseteq Nat /\ T # {} /\ IsWellFoundedOn(R, Nat)
    BY <1>2, NatLessThanWellFounded
  <2>2. \E i \in T : \A j \in T : ~(<<j, i>> \in R)
    <3> HIDE DEF R, T
    <3> QED BY <2>1, WFMin
  <2>3. \A a, b \in Nat : <<a, b>> \in R <=> a < b
    BY DEF OpToRel
  <2>4. PICK i \in T : \A j \in T : ~(<<j, i>> \in R)
    BY <2>2
  <2>5. ASSUME NEW j \in T PROVE i <= j
    <3>1. i \in Nat /\ j \in Nat /\ ~(<<j, i>> \in R)
      BY <2>1, <2>4
    <3>2. ~(j < i)
      <4> HIDE DEF R
      <4> QED BY <2>3, <3>1
    <3>3. i \in Nat /\ j \in Nat
      BY <2>1
    <3> QED BY <3>2, <3>3
  <2> QED BY <2>5
<1>4. PICK i \in Images \ rec.sent :
        /\ rec' = [rec EXCEPT !.sent = @ \cup {i},
                     !.stage = IF Images \ rec.sent = {i} THEN "notify" ELSE @]
        /\ img' = [img EXCEPT ![i].out = TRUE]
  BY <1>3 DEF Send
<1>5. /\ rec'.mode = rec.mode /\ rec'.seen = rec.seen
      /\ rec'.got = rec.got /\ rec'.inputs = rec.inputs
      /\ rec'.left = rec.left /\ rec'.next = rec.next
      /\ rec'.fenced = rec.fenced /\ rec'.sent = rec.sent \cup {i} /\ rec' \in RecType
      /\ rec'.stage = IF Images \ rec.sent = {i} THEN "notify" ELSE "send"
      /\ rec.stage = "send" /\ sup.stage = "serve"
      /\ UNCHANGED <<disk, guest, gate, sup>>
  <2>1. rec.sent \cup {i} \in SUBSET Images
    BY <1>1 DEF TypeInv, RecType
  <2> QED BY <1>1, <1>4, <2>1 DEF TypeInv, RecType, Send
<1>6. rec.mode = "retained"
  BY <1>1, <1>5 DEF RecInv, TypeInv, RecType
<1>7. img[i] \in ImageType
  BY <1>1 DEF TypeInv
<1>8. [img[i] EXCEPT !.out = TRUE] \in ImageType /\ img'[i] = [img[i] EXCEPT !.out = TRUE]
  BY <1>1, <1>4, <1>7 DEF TypeInv, ImageType
<1>9. TypeInv'
  BY <1>1, <1>4, <1>5, <1>8 DEF TypeInv
<1>10. RecInv'
  BY <1>1, <1>5, <1>6 DEF RecInv
<1>11. ASSUME NEW j \in Images
       PROVE  /\ img'[j].phase = img[j].phase /\ img'[j].svc = img[j].svc
              /\ img'[j].storage = img[j].storage
              /\ img'[j].mem = img[j].mem /\ img'[j].saved = img[j].saved
              /\ img'[j].queues = img[j].queues /\ img'[j].frozen = img[j].frozen
              /\ img'[j].change = img[j].change
              /\ img'[j].out => img[j].out \/ j = i
  <2>1. CASE j = i
    BY <1>7, <1>8, <2>1 DEF ImageType
  <2>2. CASE j # i
    BY <1>1, <1>4, <2>2 DEF TypeInv
  <2> QED BY <2>1, <2>2
<1>12. ASSUME NEW j \in Images PROVE Opening(j)' /\ Served(j)' /\ Applied(j)'
  <2>1. Opening(j) /\ Served(j) /\ Applied(j)
    BY DEF SessionInv
  <2>2. Opening(j)' /\ Applied(j)'
    BY <1>5, <1>11, <2>1 DEF Opening, Applied, Holds
  <2>3. Served(j)'
    BY <1>5, <1>6, <1>11, <2>1 DEF Served, Activating
  <2> QED BY <2>2, <2>3
<1> QED BY <1>9, <1>10, <1>12 DEF SessionInv

\* The thread ends with an error: no image holds an activation.
LEMMA RefusedInv ==
  ASSUME SessionInv, RecoveryRefused PROVE SessionInv'
<1>1. TypeInv /\ RecInv
  BY DEF SessionInv
<1>2. /\ img' \in [Images -> ImageType]
      /\ \A i \in Images :
           /\ img'[i].phase = img[i].phase /\ img'[i].svc = img[i].svc
           /\ img'[i].storage = img[i].storage /\ img'[i].out = img[i].out
           /\ img'[i].mem = img[i].mem /\ img'[i].saved = img[i].saved
           /\ img'[i].queues = img[i].queues /\ img'[i].frozen = img[i].frozen
           /\ img'[i].change = img[i].change
  BY <1>1, NotifiedFlags DEF RecoveryRefused, RecoveryFails
<1>3. Idle \in RecType
  BY DEF Idle, RecType
<1>4. /\ rec'.mode = "retained" /\ rec'.stage = "failed" /\ rec'.seen = rec.seen
      /\ rec'.got = {} /\ rec'.inputs = {} /\ rec'.next = 1
      /\ rec'.fenced = {} /\ rec'.sent = {} /\ rec' \in RecType
      /\ rec.mode = "retained" /\ gate' = TRUE /\ UNCHANGED <<disk, guest, sup>>
  BY <1>1, <1>3 DEF RecoveryRefused, RecoveryFails, Idle, TypeInv, RecType
<1>5. TypeInv'
  BY <1>1, <1>2, <1>4 DEF TypeInv
<1>6. {j \in Images : j < 1} = {}
  BY SessionConstants, Count
<1>7. RecInv'
  BY <1>1, <1>4, <1>6 DEF RecInv
<1>8. rec.sent = {} \/ sup.stage = "drop"
  BY <1>1 DEF RecoveryRefused, RecInv
<1>9. ASSUME NEW i \in Images PROVE Opening(i)' /\ Served(i)' /\ Applied(i)'
  <2>1. Opening(i) /\ Served(i) /\ Applied(i)
    BY DEF SessionInv
  <2>2. Opening(i)' /\ Applied(i)'
    BY <1>2, <1>4, <2>1 DEF Opening, Applied, Holds
  <2>3. Served(i)'
    BY <1>2, <1>4, <1>8, <2>1 DEF Served, Activating, RecoveryRefused
  <2> QED BY <2>2, <2>3
<1> QED BY <1>5, <1>7, <1>9 DEF SessionInv

\* A cold recovery is served.
LEMMA ColdServesInv ==
  ASSUME SessionInv, ColdServes PROVE SessionInv'
<1>1. TypeInv /\ RecInv
  BY DEF SessionInv
<1>2. /\ rec'.mode = rec.mode /\ rec'.seen = rec.seen
      /\ rec'.got = rec.got /\ rec'.inputs = rec.inputs
      /\ rec'.left = rec.left /\ rec'.next = rec.next
      /\ rec'.fenced = rec.fenced /\ rec'.sent = rec.sent /\ rec' \in RecType
      /\ rec'.stage = "ok" /\ rec.stage = "attach"
      /\ sup.stage = "recover" /\ sup'.stage = "serve" /\ sup'.canceled = sup.canceled
      /\ UNCHANGED <<disk, guest, gate>>
  BY <1>1 DEF TypeInv, RecType, ColdServes
<1>3. rec.mode = "cold"
  BY <1>1, <1>2 DEF RecInv, TypeInv, RecType
<1>4. ASSUME NEW i \in Images
      PROVE  /\ img'[i] \in ImageType /\ img'[i].storage = "local"
             /\ img'[i].phase = img[i].phase /\ img'[i].out = img[i].out
             /\ img'[i].change = img[i].change
  <2>1. img[i] \in ImageType /\ img'[i] = ColdAttachment(img[i])
    BY <1>1 DEF TypeInv, ColdServes
  <2>2. ColdAttachment(img[i]) \in ImageType
    BY <2>1 DEF ImageType, ColdAttachment
  <2> QED BY <2>1, <2>2 DEF ImageType, ColdAttachment
<1>5. TypeInv'
  <2>1. img' = [i \in Images |-> img'[i]]
    BY DEF ColdServes
  <2>2. img' \in [Images -> ImageType]
    BY <1>4, <2>1
  <2> QED BY <1>1, <1>2, <2>2 DEF TypeInv, ColdServes
<1>6. RecInv'
  BY <1>1, <1>2, <1>3 DEF RecInv
<1>7. ASSUME NEW i \in Images PROVE Opening(i)' /\ Served(i)' /\ Applied(i)'
  <2>1. Opening(i) /\ Served(i) /\ Applied(i)
    BY DEF SessionInv
  <2>2. img[i].phase = "AwaitingFd" /\ ~img[i].out
    BY <1>2, <1>3, <2>1 DEF Served
  <2> QED BY <1>2, <1>3, <1>4, <2>1, <2>2 DEF Opening, Served, Applied, Holds, Activating
<1> QED BY <1>5, <1>6, <1>7 DEF SessionInv

\* Every image is canceled, and every carrier the host holds fails.
LEMMA CancelInv ==
  ASSUME SessionInv, Cancel PROVE SessionInv'
<1>1. TypeInv /\ RecInv
  BY DEF SessionInv
<1>2. ASSUME NEW i \in Images
      PROVE  /\ img[i] \in ImageType /\ img'[i] \in ImageType
             /\ img'[i].svc = img[i].svc /\ img'[i].phase = img[i].phase
             /\ img'[i].storage = img[i].storage /\ img'[i].out = img[i].out
             /\ img'[i].mem = 0 /\ img'[i].saved = 0 /\ img'[i].frozen = {}
             /\ img'[i].queues = {} /\ img'[i].change = <<>>
  <2>1. img[i] \in ImageType
    BY <1>1 DEF TypeInv
  <2>2. img'[i] = BackendFailed([img[i] EXCEPT !.canceled = TRUE])
    BY DEF Cancel
  <2>3. [img[i] EXCEPT !.canceled = TRUE] \in ImageType
    BY <2>1 DEF ImageType
  <2> DEFINE im == [img[i] EXCEPT !.canceled = TRUE]
  <2>4. /\ im.svc = img[i].svc /\ im.phase = img[i].phase
        /\ im.storage = img[i].storage /\ im.out = img[i].out
    BY <2>1 DEF ImageType
  <2>5. img'[i] = BackendFailed(im) /\ im \in ImageType
    BY <2>2, <2>3
  <2> HIDE DEF im
  <2>6. img'[i] \in ImageType
    BY <2>5, FailedType
  <2> QED BY <2>1, <2>4, <2>5, <2>6 DEF ImageType, BackendFailed
<1>3. ASSUME NEW i \in Images
      PROVE  /\ guest'[i] \in Carrier \cup {None} /\ guest'[i].epoch = guest[i].epoch
             /\ guest[i] = None => guest'[i] = None
             /\ guest[i] # None => guest'[i] # None
             /\ guest[i] # None => guest'[i].issued = guest[i].issued
                                  /\ guest'[i].answered = guest[i].answered
  <2>1. guest[i] \in Carrier \cup {None}
    BY <1>1 DEF TypeInv
  <2>2. guest'[i] = CarrierFailed(i, img[i])
    BY DEF Cancel
  <2> QED BY <2>1, <2>2 DEF CarrierFailed, Carrier, None
<1>4. TypeInv'
  <2>1. img' = [i \in Images |-> img'[i]] /\ guest' = [i \in Images |-> guest'[i]]
    BY DEF Cancel
  <2>2. img' \in [Images -> ImageType] /\ guest' \in [Images -> Carrier \cup {None}]
    BY <1>2, <1>3, <2>1
  <2> QED BY <1>1, <2>2 DEF TypeInv, Cancel
<1>5. /\ sup'.stage = sup.stage /\ UNCHANGED <<disk, rec>>
  BY <1>1 DEF Cancel, TypeInv
<1>6. RecInv'
  BY <1>1, <1>5 DEF RecInv
<1>7. ASSUME NEW i \in Images PROVE Opening(i)' /\ Served(i)' /\ Applied(i)'
  <2>1. Opening(i) /\ Served(i) /\ Applied(i)
    BY DEF SessionInv
  <2>2. img[i].phase = "Waiting" => guest[i] # None
    BY <2>1 DEF Applied, Holds
  <2>3. Opening(i)'
    BY <1>2, <1>3, <1>5, <2>1, <2>2 DEF Opening
  <2>4. Served(i)' /\ Applied(i)'
    BY <1>2, <1>3, <1>5, <2>1 DEF Served, Applied, Holds, Activating
  <2> QED BY <2>3, <2>4
<1> QED BY <1>4, <1>6, <1>7 DEF SessionInv

\* Every service joined: activations nobody took are dropped.
LEMMA DropControlsInv ==
  ASSUME SessionInv, DropControls PROVE SessionInv'
<1>1. TypeInv /\ RecInv
  BY DEF SessionInv
<1>2. ASSUME NEW i \in Images
      PROVE  /\ img[i] \in ImageType /\ img'[i] \in ImageType
             /\ img'[i].svc = img[i].svc /\ img'[i].phase = img[i].phase
             /\ img'[i].storage = img[i].storage /\ ~img'[i].out
             /\ img'[i].mem = img[i].mem /\ img'[i].saved = img[i].saved
             /\ img'[i].queues = img[i].queues /\ img'[i].frozen = img[i].frozen
             /\ img'[i].change = img[i].change
  <2>1. img[i] \in ImageType
    BY <1>1 DEF TypeInv
  <2>2. (img[i].attached /\ ~img[i].out) \in BOOLEAN
    BY Truth, Zenon
  <2>3. ASSUME NEW b \in BOOLEAN, img'[i] = [img[i] EXCEPT !.out = FALSE, !.attached = b]
        PROVE  /\ img'[i] \in ImageType
               /\ img'[i].svc = img[i].svc /\ img'[i].phase = img[i].phase
               /\ img'[i].storage = img[i].storage /\ ~img'[i].out
               /\ img'[i].mem = img[i].mem /\ img'[i].saved = img[i].saved
               /\ img'[i].queues = img[i].queues /\ img'[i].frozen = img[i].frozen
               /\ img'[i].change = img[i].change
    BY <2>1, <2>3 DEF ImageType
  <2>4. img'[i] = [img[i] EXCEPT !.out = FALSE, !.attached = img[i].attached /\ ~img[i].out]
    BY <2>1 DEF DropControls, ImageType
  <2> QED BY <2>1, <2>2, <2>3, <2>4, Zenon
<1>3. TypeInv'
  <2>1. img' = [i \in Images |-> img'[i]]
    BY DEF DropControls
  <2>2. img' \in [Images -> ImageType]
    BY <1>2, <2>1
  <2>3. gate' \in BOOLEAN
    BY <1>1 DEF DropControls, TypeInv
  <2> QED BY <1>1, <2>2, <2>3 DEF TypeInv, DropControls
<1>4. /\ sup'.stage = "drop" /\ sup.stage = "serve" /\ UNCHANGED <<disk, guest, rec>>
  BY <1>1 DEF DropControls, TypeInv
<1>5. RecInv'
  BY <1>1, <1>4 DEF RecInv, TypeInv, RecType
<1>6. ASSUME NEW i \in Images PROVE Opening(i)' /\ Served(i)' /\ Applied(i)'
  <2>1. Opening(i) /\ Served(i) /\ Applied(i) /\ img[i].svc = "ended"
    BY DEF SessionInv, DropControls
  <2> QED BY <1>2, <1>4, <2>1 DEF Opening, Served, Applied, Holds, Activating
<1> QED BY <1>3, <1>5, <1>6 DEF SessionInv

-----------------------------------------------------------------------------
(* The theorems.                                                           *)

\* Every step of the process, of a guest and of the environment keeps the
\* invariant.
LEMMA NextInv == SessionInv /\ [Next]_vars => SessionInv'
<1> SUFFICES ASSUME SessionInv, [Next]_vars PROVE SessionInv'
  OBVIOUS
<1>1. ASSUME NEW mode \in {"cold", "retained"}, Start(mode) PROVE SessionInv'
  BY <1>1, StartInv
<1>2. ASSUME UNCHANGED <<disk, guest, img, rec, gate, sup>> PROVE SessionInv'
  <2>1. TypeInv' /\ RecInv'
    BY <1>2 DEF SessionInv, TypeInv, RecInv
  <2>2. ASSUME NEW i \in Images PROVE Opening(i)' /\ Served(i)' /\ Applied(i)'
    <3>1. Opening(i) /\ Served(i) /\ Applied(i)
      BY DEF SessionInv
    <3> QED BY <1>2, <3>1 DEF Opening, Served, Applied, Holds, Activating
  <2> QED BY <2>1, <2>2 DEF SessionInv
<1>3. CASE Expire
  BY <1>2, <1>3 DEF Expire
<1>4. CASE Crash
  BY <1>4, GoneInv DEF Crash
<1>5. CASE Recovery
  <2>1. ASSUME NEW i \in Images, Collect(i) PROVE SessionInv'
    BY <2>1, CollectInv
  <2>2. CASE Repair
    BY <2>2, RepairInv DEF Repair
  <2>3. CASE ColdExpires
    BY <2>3, GoneInv DEF ColdExpires
  <2> QED BY <1>5, <2>1, <2>2, <2>3, PrepareInv, RepairDoneInv, AttachAllInv, SendInv,
             NotifyInv, RefusedInv, ColdServesInv DEF Recovery
<1>6. CASE Supervisor
  <2>1. CASE ShutDown
    BY <2>1, GoneInv DEF ShutDown
  <2> QED BY <1>6, <2>1, CancelInv, DropControlsInv DEF Supervisor
<1>7. ASSUME NEW i \in Images, Service(i) \/ Backend(i) \/ Guest(i) \/ Interrupted(i)
      PROVE  SessionInv'
  BY <1>7, ImageStep
<1>8. CASE UNCHANGED vars
  BY <1>2, <1>8 DEF vars
<1> QED BY <1>1, <1>3, <1>4, <1>5, <1>6, <1>7, <1>8 DEF Next

\* The inductive invariant holds.
THEOREM SessionInvariant == Spec => []SessionInv
BY InitInv, NextInv, PTL DEF Spec

\* live.rs and frontend.rs recover the running guests of any catalog together:
\* none is repaired before the requests of all are validated, the memory and
\* queues a replay was validated with stay, and no image is served before the
\* last is fenced.
THEOREM RepairedTogether == Spec => []RepairTogether
<1>1. SessionInv => RepairTogether
  <2> SUFFICES ASSUME SessionInv PROVE RepairTogether
    OBVIOUS
  <2>1. RecInv /\ rec \in RecType
    BY DEF SessionInv, TypeInv
  <2>2. ASSUME NEW i \in Images, Serving(i) PROVE rec.fenced = Images
    <3>1. Served(i)
      BY DEF SessionInv
    <3>2. rec.stage \in {"send", "notify", "ok"}
      BY <2>1, <2>2, <3>1 DEF Served, Serving, Activating, RecInv, RecType
    <3> QED BY <2>1, <3>2 DEF RecInv
  <2>3. ASSUME NEW i \in Images, img[i].phase = "Waiting"
        PROVE  img[i].mem = img[i].saved /\ img[i].frozen \subseteq img[i].queues
    BY <2>3 DEF SessionInv, Opening
  <2> QED BY <2>1, <2>2, <2>3 DEF RepairTogether, RecInv
<1> QED BY <1>1, SessionInvariant, PTL

-----------------------------------------------------------------------------
(* The carrier a guest is served on.                                       *)

\* The carrier of an image that has not failed is unmarked and of the log's epoch,
\* but between the two steps of a replacement.
Healthy(i) ==
  /\ Holds(img[i]) /\ ~img[i].broken =>
       ~guest[i].failed /\ (Attaching(i) \/ guest[i].epoch = disk[i].epoch)
  /\ Attaching(i) => img[i].svc = "connected" /\ ~img[i].failed
HealthInv == \A i \in Images : Healthy(i)

\* An image that had not failed before the step and whose carrier the step leaves.
LEMMA HealthyKept ==
  ASSUME NEW i \in Images, Healthy(i),
         Holds(img'[i]) /\ ~img'[i].broken => Holds(img[i]) /\ ~img[i].broken,
         guest'[i].failed = guest[i].failed, guest'[i].epoch = guest[i].epoch, disk'[i].epoch = disk[i].epoch,
         \/ img'[i].change = img[i].change /\ img'[i].svc = img[i].svc
              /\ img'[i].failed = img[i].failed
         \/ ~Attaching(i) /\ ~Attaching(i)'
  PROVE  Healthy(i)'
BY DEF Healthy

\* Backend::fail of an image.
LEMMA FailedHealthy ==
  ASSUME NEW i \in Images, NEW im \in ImageType, img'[i] = BackendFailed(im)
  PROVE  Healthy(i)'
<1>1. img'[i].broken /\ img'[i].change = <<>>
  BY DEF BackendFailed, ImageType
<1> QED BY <1>1 DEF Healthy

\* An image before its carrier is negotiated.
LEMMA UnheldHealthy ==
  ASSUME NEW i \in Images, img'[i].phase = "AwaitingFd", ~Attaching(i)'
  PROVE  Healthy(i)'
BY DEF Healthy, Holds

\* A step of an image's threads or guest leaves the other images alone.
LEMMA Local ==
  ASSUME SessionInv, NEW i \in Images,
         Service(i) \/ Backend(i) \/ Guest(i) \/ Interrupted(i),
         NEW j \in Images, j # i
  PROVE  img'[j] = img[j] /\ guest'[j] = guest[j] /\ disk'[j] = disk[j]
<1> DEFINE P == img'[j] = img[j] /\ guest'[j] = guest[j] /\ disk'[j] = disk[j]
<1>1. /\ img \in [Images -> ImageType] /\ guest \in [Images -> Carrier \cup {None}]
      /\ disk \in [Images -> Disk]
  BY DEF SessionInv, TypeInv
<1>2. Fail(i) => P
  BY <1>1 DEF Fail
<1>3. Handle(i) => P
  BY <1>1, <1>2 DEF Handle, Consumed, Finish, ActivateFresh, Submit
<1>4. Service(i) => P
  BY <1>1 DEF Service, Refuse, Connect, Shut, Drain, Closing
<1>5. Backend(i) => P
  BY <1>1, <1>2, <1>3 DEF Backend, Export, End, Process, Timer, Append, Answer
<1>6. Guest(i) => P
  <2>1. ASSUME NEW change, Begin(i, change) PROVE P
    BY <1>1, <2>1 DEF Begin
  <2> QED BY <1>1, <1>2, <1>3, <2>1 DEF Guest, Accept, Leave, Error, Get, Set, Replace, Write,
             Kick, Reboot
<1>7. Interrupted(i) => P
  BY <1>1 DEF Interrupted
<1> QED BY <1>4, <1>5, <1>6, <1>7

\* A service thread: it fails its image or leaves the carrier.
LEMMA ServiceHealthy ==
  ASSUME SessionInv, NEW i \in Images, Healthy(i), Service(i) PROVE Healthy(i)'
<1>1. /\ img[i] \in ImageType /\ img \in [Images -> ImageType]
      /\ guest \in [Images -> Carrier \cup {None}]
  BY AtImage DEF SessionInv, TypeInv
<1>2. Closing(i) => Healthy(i)'
  <2>1. [img[i] EXCEPT !.svc = "closing"] \in ImageType
    BY <1>1 DEF ImageType
  <2>2. Closing(i) => img'[i] = BackendFailed([img[i] EXCEPT !.svc = "closing"])
    BY <1>1 DEF Closing
  <2> QED BY <2>1, <2>2, FailedHealthy
<1>3. ASSUME NEW s, ~Attaching(i), img' = [img EXCEPT ![i].svc = s],
             UNCHANGED <<disk, guest>>
      PROVE  Healthy(i)'
  <2>1. /\ img'[i].phase = img[i].phase /\ img'[i].broken = img[i].broken
        /\ img'[i].change = img[i].change
    BY <1>1, <1>3 DEF ImageType
  <2> QED BY <1>3, <2>1, HealthyKept DEF Holds
<1>4. CASE Connect(i)
  BY <1>2, <1>3, <1>4 DEF Connect, Healthy
<1>5. CASE Shut(i)
  BY <1>3, <1>5 DEF Shut, Healthy
<1>6. CASE Drain(i)
  <2>1. /\ img'[i].phase = img[i].phase /\ img'[i].broken = img[i].broken
        /\ img'[i].change = <<>> /\ ~Attaching(i) /\ UNCHANGED <<disk, guest>>
    BY <1>1, <1>6 DEF Drain, Ended, Unstarted, ImageType, Healthy
  <2> QED BY <2>1, HealthyKept DEF Holds
<1> QED BY <1>2, <1>4, <1>5, <1>6 DEF Service, Refuse

\* Backend::process: it fails its image, or activates the carrier it holds.
LEMMA HandleHealthy ==
  ASSUME SessionInv, NEW i \in Images, Healthy(i), ~Attaching(i), Handle(i)
  PROVE  Healthy(i)'
<1>1. /\ img[i] \in ImageType /\ img \in [Images -> ImageType]
      /\ guest \in [Images -> Carrier \cup {None}]
      /\ Holds(img[i]) => guest[i] \in Carrier
  BY AtImage DEF SessionInv, TypeInv
<1>2. Fail(i) => Healthy(i)'
  <2>1. Fail(i) => img'[i] = BackendFailed(img[i])
    BY <1>1 DEF Fail
  <2> QED BY <1>1, <2>1, FailedHealthy
<1>3. Consumed(i) => Healthy(i)'
  <2>1. Consumed(i) => /\ img'[i].phase = img[i].phase /\ img'[i].broken = img[i].broken
                       /\ img'[i].change = img[i].change /\ UNCHANGED <<disk, guest>>
    BY <1>1 DEF Consumed, ImageType
  <2> QED BY <2>1, HealthyKept DEF Holds
<1>4. img[i].phase = "Fresh" /\ ActivateFresh(i) => Healthy(i)'
  <2> SUFFICES ASSUME img[i].phase = "Fresh", ActivateFresh(i) PROVE Healthy(i)'
    OBVIOUS
  <2>1. img'[i].broken = img[i].broken /\ img'[i].change = img[i].change
    BY <1>1 DEF ActivateFresh, ImageType
  <2>2. /\ guest'[i].failed = guest[i].failed /\ guest'[i].epoch = guest[i].epoch
        /\ disk' = disk
    BY <1>1 DEF ActivateFresh, Holds, Carrier
  <2> QED BY <2>1, <2>2, HealthyKept DEF Holds
<1>5. img[i].phase = "Replay" /\ Submit(i) => Healthy(i)'
  <2>1. Submit(i) => /\ img'[i].broken = img[i].broken /\ img'[i].change = img[i].change
                     /\ UNCHANGED <<disk, guest>>
    BY <1>1 DEF Submit, ImageType
  <2> QED BY <2>1, HealthyKept DEF Holds
<1>6. img[i].phase = "Waiting" /\ Finish(i) => Healthy(i)'
  <2> SUFFICES ASSUME img[i].phase = "Waiting", Finish(i), img[i].saved = img[i].mem
               PROVE  Healthy(i)'
    BY <1>2 DEF Finish
  <2>1. img'[i].broken = img[i].broken /\ img'[i].change = img[i].change
    BY <1>1 DEF Finish, ImageType
  <2>2. guest[i] \in Carrier /\ guest' = [guest EXCEPT ![i] = Replied(i)] /\ disk' = disk
    BY <1>1 DEF Finish, Holds
  <2>3. Replied(i).failed = guest[i].failed /\ Replied(i).epoch = guest[i].epoch
    BY <2>2, Zenon DEF Replied, Carrier
  <2>4. guest'[i].failed = guest[i].failed /\ guest'[i].epoch = guest[i].epoch
    BY <1>1, <2>2, <2>3
  <2> QED BY <2>1, <2>2, <2>4, HealthyKept DEF Holds
<1> QED BY <1>2, <1>3, <1>4, <1>5, <1>6 DEF Handle

\* The backend of an image, and the second step of a replacement.
LEMMA BackendHealthy ==
  ASSUME SessionInv, NEW i \in Images, Healthy(i), Backend(i) PROVE Healthy(i)'
<1>1. /\ img[i] \in ImageType /\ img \in [Images -> ImageType]
      /\ guest \in [Images -> Carrier \cup {None}] /\ disk \in [Images -> Disk]
      /\ Holds(img[i]) => guest[i] \in Carrier
      /\ disk[i] \in Disk
  BY AtImage DEF SessionInv, TypeInv
<1>2. Fail(i) => Healthy(i)'
  <2>1. Fail(i) => img'[i] = BackendFailed(img[i])
    BY <1>1 DEF Fail
  <2> QED BY <1>1, <2>1, FailedHealthy
<1>3. CASE Export(i)
  <2> SUFFICES ASSUME guest' = [guest EXCEPT ![i] = Fresh(i)],
                      img' = [img EXCEPT ![i].phase = "Fresh", ![i].queues = {},
                                         ![i].change = <<"attach", 0>>],
                      disk' = disk
               PROVE  Healthy(i)'
    BY <1>2, <1>3 DEF Export
  <2>1. img'[i].change[1] = "attach"
    BY <1>1 DEF ImageType
  <2>2. ~guest'[i].failed /\ guest'[i].epoch = disk[i].epoch
    BY <1>1 DEF Fresh
  <2> QED BY <2>1, <2>2 DEF Healthy
<1>4. CASE End(i)
  <2>1. PICK e : img' = [img EXCEPT ![i] = [Configured(img[i]) EXCEPT !.event = e]]
    BY <1>4 DEF End
  <2>2. /\ img'[i].phase = img[i].phase /\ img'[i].broken = img[i].broken
        /\ img'[i].change = <<>> /\ ~Attaching(i) /\ UNCHANGED <<disk, guest>>
    BY <1>1, <1>4, <2>1 DEF End, Configured, ImageType
  <2> QED BY <2>2, HealthyKept DEF Holds
<1>5. CASE Append(i)
  <2>1. disk'[i].epoch = disk[i].epoch /\ UNCHANGED <<img, guest>>
    BY <1>1, <1>5 DEF Append, Disk
  <2> QED BY <2>1, HealthyKept
<1>6. CASE Answer(i)
  <2>1. /\ guest'[i].failed = guest[i].failed /\ guest'[i].epoch = guest[i].epoch
        /\ UNCHANGED <<img, disk>>
    BY <1>1, <1>6 DEF Answer, Holds, Carrier
  <2> QED BY <2>1, HealthyKept
<1> QED BY <1>2, <1>3, <1>4, <1>5, <1>6, HandleHealthy DEF Backend, Process, Timer

\* A guest: SET gives only an unmarked carrier, GET exports one, and an epoch
\* begins with admission stopped.
LEMMA GuestHealthy ==
  ASSUME SessionInv, SessionInv', NEW i \in Images, Healthy(i), Guest(i)
  PROVE  Healthy(i)'
<1>1. /\ img[i] \in ImageType /\ img \in [Images -> ImageType]
      /\ guest \in [Images -> Carrier \cup {None}] /\ disk \in [Images -> Disk]
      /\ Holds(img[i]) => guest[i] \in Carrier
      /\ disk[i] \in Disk
  BY AtImage DEF SessionInv, TypeInv
<1>2. Applied(i) /\ Applied(i)' /\ Served(i) /\ RecInv
  BY DEF SessionInv
<1>3. Fail(i) => Healthy(i)'
  <2>1. Fail(i) => img'[i] = BackendFailed(img[i])
    BY <1>1 DEF Fail
  <2> QED BY <1>1, <2>1, FailedHealthy
<1>4. ASSUME NEW s, ~Attaching(i), img' = [img EXCEPT ![i].svc = s],
             UNCHANGED <<disk, guest>>
      PROVE  Healthy(i)'
  <2>1. /\ img'[i].phase = img[i].phase /\ img'[i].broken = img[i].broken
        /\ img'[i].change = img[i].change
    BY <1>1, <1>4 DEF ImageType
  <2> QED BY <1>4, <2>1, HealthyKept DEF Holds
<1>5. CASE Accept(i)
  BY <1>4, <1>5 DEF Accept, Healthy
<1>6. CASE Leave(i)
  BY <1>4, <1>6 DEF Leave
<1>7. CASE Error(i)
  <2>1. [img[i] EXCEPT !.svc = "closing"] \in ImageType
    BY <1>1 DEF ImageType
  <2>2. img'[i] = BackendFailed([img[i] EXCEPT !.svc = "closing"])
    BY <1>1, <1>7 DEF Error
  <2> QED BY <2>1, <2>2, FailedHealthy
<1>8. CASE Get(i)
  <2> SUFFICES ASSUME guest' = [guest EXCEPT ![i] = Fresh(i)],
                      img' = [img EXCEPT ![i].phase = "Fresh"], disk' = disk
               PROVE  Healthy(i)'
    BY <1>3, <1>8 DEF Get
  <2>1. img'[i].change = <<>>
    BY <1>1, <1>8 DEF ImageType, Get, Talks
  <2>2. ~guest'[i].failed /\ guest'[i].epoch = disk[i].epoch
    BY <1>1 DEF Fresh
  <2> QED BY <2>1, <2>2 DEF Healthy
<1>9. CASE Set(i)
  <2> SUFFICES ASSUME ~guest[i].failed, img' = [img EXCEPT ![i].phase = "Replay"],
                      UNCHANGED <<disk, guest>>
               PROVE  Healthy(i)'
    BY <1>3, <1>9 DEF Set
  <2>1. img'[i].change = <<>> /\ img'[i].phase = "Replay"
    BY <1>1, <1>9 DEF ImageType, Set, Talks
  <2> QED BY <1>2, <2>1 DEF Healthy, Applied, Holds
<1>10. CASE Replace(i)
  <2>1. /\ img'[i].phase = img[i].phase /\ img'[i].broken = img[i].broken
        /\ img'[i].change[1] = "epoch" /\ img'[i].change # <<>>
        /\ img'[i].svc = "connected" /\ ~img'[i].failed /\ guest' = guest
    BY <1>1, <1>10 DEF Replace, Talks, ImageType
  <2> QED BY <2>1 DEF Healthy, Holds
<1>11. CASE Write(i)
  <2>1. /\ guest'[i].failed = guest[i].failed /\ guest'[i].epoch = guest[i].epoch
        /\ UNCHANGED <<img, disk>>
    BY <1>1, <1>11 DEF Write, Holds, Carrier
  <2> QED BY <2>1, HealthyKept
<1>12. CASE Reboot(i)
  <2>1. img[i].phase = "AwaitingFd" /\ ~Attaching(i) /\ img' = img
    BY <1>2, <1>12 DEF Reboot, Holds, RecInv, Served, Applied
  <2> QED BY <2>1 DEF Healthy, Holds
<1>13. ASSUME NEW change \in Changes(i), Begin(i, change) PROVE Healthy(i)'
  <2>1. CASE img' = [img EXCEPT ![i] = BackendFailed(@)]
    BY <1>1, <2>1, FailedHealthy
  <2>2. CASE img' = [img EXCEPT ![i].change = change] /\ UNCHANGED <<disk, guest>>
    <3>1. change[1] \in {"memory", "queue"}
      BY DEF Changes
    <3>2. /\ img'[i].phase = img[i].phase /\ img'[i].broken = img[i].broken
          /\ img'[i].change = change /\ ~Attaching(i)
      BY <1>1, <1>13, <2>2 DEF ImageType, Begin, Talks
    <3> QED BY <2>2, <3>1, <3>2, HealthyKept DEF Holds
  <2> QED BY <1>13, <2>1, <2>2 DEF Begin
<1> QED BY <1>5, <1>6, <1>7, <1>8, <1>9, <1>10, <1>11, <1>12, <1>13, HandleHealthy DEF Guest, Kick

\* A step that changes, of images, guests and disks, nothing the invariant reads.
LEMMA FlagsHealthy ==
  ASSUME HealthInv,
         \A i \in Images :
           /\ img'[i].phase = img[i].phase /\ img'[i].broken = img[i].broken
           /\ img'[i].change = img[i].change /\ img'[i].svc = img[i].svc
           /\ img'[i].failed = img[i].failed,
         \A i \in Images :
           /\ guest'[i].failed = guest[i].failed /\ guest'[i].epoch = guest[i].epoch
           /\ disk'[i].epoch = disk[i].epoch
  PROVE  HealthInv'
BY HealthyKept DEF HealthInv, Holds

\* The recovery thread replays into carriers that are held, and begins epochs
\* before any is.
LEMMA RepairHealthy ==
  ASSUME SessionInv, HealthInv, NEW i \in Images, rec.stage = "repair", i = rec.next,
         UNCHANGED img, ColdFence(i) \/ ReplayNext(i) \/ LiveFence(i)
  PROVE  HealthInv'
<1>1. /\ guest \in [Images -> Carrier \cup {None}] /\ disk \in [Images -> Disk]
      /\ disk[i] \in Disk /\ RecInv
      /\ rec \in RecType
  BY AtImage DEF SessionInv, TypeInv
<1>2. CASE ColdFence(i)
  <2>1. ASSUME NEW j \in Images PROVE img[j].phase = "AwaitingFd" /\ ~Attaching(j)
    <3>1. Served(j) /\ Applied(j)
      BY DEF SessionInv
    <3> QED BY <1>2, <3>1 DEF Served, Applied, ColdFence
  <2> QED BY <2>1, UnheldHealthy DEF HealthInv
<1>3. CASE ReplayNext(i) \/ LiveFence(i)
  <2>1. guest[i] \in Carrier
    <3>1. img[i].phase \in {"Waiting", "Fresh", "Active"}
      <4>1. rec.mode = "retained"
        BY <1>3 DEF ReplayNext, LiveFence
      <4>2. rec.got = Images
        BY <1>1, <4>1 DEF RecInv
      <4> QED BY <4>2 DEF SessionInv, Opening
    <3> QED BY <3>1, AtImage DEF Holds
  <2>2. PICK p : guest' = [guest EXCEPT ![i].pub = p]
    BY <1>3 DEF ReplayNext, LiveFence
  <2>3. ASSUME NEW j \in Images
        PROVE  /\ guest'[j].failed = guest[j].failed /\ guest'[j].epoch = guest[j].epoch
               /\ disk'[j].epoch = disk[j].epoch
    <3>1. guest'[j].failed = guest[j].failed /\ guest'[j].epoch = guest[j].epoch
      BY <1>1, <2>1, <2>2 DEF Carrier
    <3>2. disk'[j].epoch = disk[j].epoch
      BY <1>1, <1>3 DEF ReplayNext, LiveFence, Disk
    <3> QED BY <3>1, <3>2
  <2> QED BY <2>3, FlagsHealthy
<1> QED BY <1>2, <1>3

\* Steps of the recovery thread that leave disks and guests alone.
LEMMA RecoveryHealthy ==
  ASSUME SessionInv, HealthInv, Recovery PROVE HealthInv'
<1>1. img \in [Images -> ImageType] /\ \A i \in Images : img[i] \in ImageType
  BY DEF SessionInv, TypeInv
<1> DEFINE Same(i) ==
      /\ img'[i].phase = img[i].phase /\ img'[i].broken = img[i].broken
      /\ img'[i].change = img[i].change /\ img'[i].svc = img[i].svc
      /\ img'[i].failed = img[i].failed
<1>2. ASSUME UNCHANGED <<img, guest, disk>> PROVE HealthInv'
  BY <1>2, FlagsHealthy
<1>3. ASSUME \A i \in Images : Same(i), UNCHANGED <<guest, disk>> PROVE HealthInv'
  BY <1>3, FlagsHealthy
<1>4. CASE Repair
  BY <1>4, RepairHealthy DEF Repair
<1>5. CASE AttachAll
  BY <1>1, <1>3, <1>5 DEF AttachAll, ImageType
<1>6. CASE Send
  <2>1. PICK k : img' = [img EXCEPT ![k].out = TRUE]
    BY <1>6 DEF Send
  <2>2. ASSUME NEW i \in Images PROVE Same(i)
    BY <1>1, <2>1 DEF ImageType
  <2> QED BY <1>3, <1>6, <2>2 DEF Send
<1>7. ASSUME img' = Notified, UNCHANGED <<guest, disk>> PROVE HealthInv'
  <2>1. ASSUME NEW i \in Images PROVE Same(i)
    <3>1. PICK e : img'[i] = [img[i] EXCEPT !.event = e]
      BY <1>7 DEF Notified
    <3> QED BY <1>1, <3>1 DEF ImageType
  <2> QED BY <1>3, <1>7, <2>1
<1>8. CASE ColdServes
  <2>1. rec.mode = "cold" /\ rec.stage # "ok"
    BY <1>8 DEF ColdServes, SessionInv, RecInv, TypeInv, RecType
  <2>2. ASSUME NEW i \in Images PROVE Healthy(i)'
    <3>1. Served(i) /\ Applied(i)
      BY DEF SessionInv
    <3>2. img[i].phase = "AwaitingFd" /\ ~Attaching(i)
      BY <2>1, <3>1 DEF Served, Applied
    <3>3. img'[i] = ColdAttachment(img[i])
      BY <1>8 DEF ColdServes
    <3>4. img'[i].phase = img[i].phase /\ img'[i].change = img[i].change
      BY <1>1, <3>3 DEF ColdAttachment, ImageType
    <3> QED BY <3>2, <3>4, UnheldHealthy
  <2> QED BY <2>2 DEF HealthInv
<1>9. CASE ColdExpires
  BY <1>9, UnheldHealthy DEF ColdExpires, Gone, Unstarted, HealthInv
<1> QED BY <1>2, <1>4, <1>5, <1>6, <1>7, <1>8, <1>9 DEF Recovery, Collect, Prepare, RepairDone,
           Notify, RecoveryRefused, RecoveryFails

\* Every step keeps carriers healthy.
LEMMA NextHealthy == SessionInv /\ SessionInv' /\ HealthInv /\ [Next]_vars => HealthInv'
<1> SUFFICES ASSUME SessionInv, SessionInv', HealthInv, [Next]_vars PROVE HealthInv'
  OBVIOUS
<1>1. img \in [Images -> ImageType] /\ \A i \in Images : img[i] \in ImageType
  BY DEF SessionInv, TypeInv
<1>2. ASSUME \A i \in Images : img'[i].phase = "AwaitingFd" /\ img'[i].change = <<>>
      PROVE  HealthInv'
  BY <1>2, UnheldHealthy DEF HealthInv
<1>3. ASSUME NEW mode, Start(mode) PROVE HealthInv'
  BY <1>2, <1>3 DEF Start, Openings, Unstarted
<1>4. Gone => HealthInv'
  BY <1>2 DEF Gone, Unstarted
<1>5. UNCHANGED <<img, guest, disk>> => HealthInv'
  BY FlagsHealthy
<1>6. CASE Cancel
  <2>1. ASSUME NEW i \in Images PROVE Healthy(i)'
    <3>1. [img[i] EXCEPT !.canceled = TRUE] \in ImageType
      <4>1. img[i] \in ImageType
        BY <1>1
      <4> QED BY <4>1 DEF ImageType
    <3>2. img'[i] = BackendFailed([img[i] EXCEPT !.canceled = TRUE])
      BY <1>6 DEF Cancel
    <3> QED BY <3>1, <3>2, FailedHealthy
  <2> QED BY <2>1 DEF HealthInv
<1>7. CASE DropControls
  <2>1. ASSUME NEW i \in Images
        PROVE  /\ img'[i].phase = img[i].phase /\ img'[i].broken = img[i].broken
               /\ img'[i].change = img[i].change /\ img'[i].svc = img[i].svc
               /\ img'[i].failed = img[i].failed
    <3>1. PICK a : img'[i] = [img[i] EXCEPT !.out = FALSE, !.attached = a]
      BY <1>7 DEF DropControls
    <3> QED BY <1>1, <3>1 DEF ImageType
  <2> QED BY <1>7, <2>1, FlagsHealthy DEF DropControls
<1>8. ASSUME NEW i \in Images, Service(i) \/ Backend(i) \/ Guest(i) \/ Interrupted(i)
      PROVE  HealthInv'
  <2>1. ASSUME NEW j \in Images, j # i PROVE Healthy(j)'
    <3>1. img'[j] = img[j] /\ guest'[j] = guest[j] /\ disk'[j] = disk[j]
      BY <1>8, <2>1, Local
    <3> QED BY <3>1, HealthyKept DEF HealthInv
  <2>2. Interrupted(i) => Healthy(i)'
    <3> SUFFICES ASSUME Interrupted(i) PROVE Healthy(i)'
      OBVIOUS
    <3>1. PICK e : img' = [img EXCEPT ![i].broken = TRUE, ![i].event = e]
      BY DEF Interrupted
    <3>2. /\ img'[i].broken /\ img'[i].change = img[i].change
          /\ img'[i].svc = img[i].svc /\ img'[i].failed = img[i].failed
      BY <1>1, <3>1 DEF ImageType
    <3> QED BY <3>2 DEF HealthInv, Healthy
  <2>3. Healthy(i)
    BY DEF HealthInv
  <2>4. Healthy(i)'
    BY <1>8, <2>2, <2>3, ServiceHealthy, BackendHealthy, GuestHealthy
  <2> QED BY <2>1, <2>4 DEF HealthInv
<1> QED BY <1>3, <1>4, <1>5, <1>6, <1>7, <1>8, RecoveryHealthy DEF Next, Expire, Crash,
           Supervisor, ShutDown, vars

\* Carriers of images that have not failed stay healthy.
LEMMA CarriersHealthy == Spec => []HealthInv
<1>1. Init => HealthInv
  BY DEF Init, Unstarted, HealthInv, Healthy, Holds
<1> QED BY <1>1, NextHealthy, SessionInvariant, PTL DEF Spec

\* Crashes, restarts, replays and replacements of carriers apply every write of
\* a guest once, never answer it before it is in the log, and never serve a
\* guest on a carrier of another epoch.
THEOREM AppliedExactlyOnce == Spec => []AppliedOnce
<1>1. SessionInv /\ HealthInv => AppliedOnce
  BY DEF SessionInv, HealthInv, Healthy, AppliedOnce, Applied, Serving, Holds, Broken
<1> QED BY <1>1, SessionInvariant, CarriersHealthy, PTL

=============================================================================
