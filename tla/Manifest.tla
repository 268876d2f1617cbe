------------------------------- MODULE Manifest -------------------------------
(***************************************************************************)
(* The manifest file of an image and the reflinked copy a snapshot takes   *)
(* of it: append-only transactions of copy-on-write tree pages ended by a  *)
(* COMMIT page, pinned views, page reclamation by punching holes, crashes, *)
(* selection of a COMMIT and repair.                                       *)
(*                                                                         *)
(* A file is the sequence of its pages after the FILE page.  A tree is the *)
(* set of its pages with the transaction that wrote each; inspection sees  *)
(* only whether a page is there, the properties compare its content.       *)
(***************************************************************************)
EXTENDS Integers, Sequences, FiniteSets

CONSTANTS
  Readers,      \* guest reads
  MaxPages,     \* bound: tree pages one transaction writes
  MaxPublishes, \* bound: transactions
  MaxCrashes    \* bound: process crashes and power losses

ASSUME ManifestAssumption ==
  /\ IsFiniteSet(Readers)
  /\ MaxPages \in Nat /\ MaxPublishes \in Nat /\ MaxCrashes \in Nat

Files == {"image", "snap"}

VARIABLES
  pages,     \* the pages of each file
  punched,   \* pages punched since the file was last synced
  catalog,   \* key of the snapshot in the catalog, or NoView
  mode,      \* serving, down, or repair
  owner,     \* Manifest.current and end, the same of the Snapshot
  failed,    \* Manifest.failed, Snapshot.failed
  base,      \* the view the log hands to reads
  job,       \* the transaction of the single worker
  readers,   \* views pinned by reads
  promised,  \* history: last view a publication or a recovery returned
  publishes, \* history: transactions so far, and their identity
  crashes    \* history: crashes so far

disk == <<pages, punched, catalog>>
counts == <<publishes, crashes>>
vars == <<pages, punched, catalog, mode, owner, failed, base, job, readers,
          promised, publishes, crashes>>

-----------------------------------------------------------------------------
(* Pages and views                                                         *)

Hole == [kind |-> "hole", tx |-> 0, gen |-> 0, root |-> <<>>, st |-> "synced"]
TreePage(tx) ==
  [kind |-> "tree", tx |-> tx, gen |-> 0, root |-> <<>>, st |-> "issued"]

\* The durable frontier of a COMMIT grows with its generation.
CommitPage(v) ==
  [kind |-> "commit", tx |-> v.tx, gen |-> v.gen, root |-> v.root,
   st |-> "issued"]

NoView == [tx |-> 0, gen |-> 0, root |-> <<>>, end |-> 0]
Initial == [tx |-> 0, gen |-> 1, root |-> <<>>, end |-> 1]

Idle == [kind |-> "idle", file |-> "image", view |-> NoView, pins |-> {},
         live |-> {}]

Present(f, o) ==
  /\ o \in DOMAIN pages[f] /\ o \notin punched[f]
  /\ pages[f][o].kind # "hole"

\* What a sync makes of a file: holes are there to stay.
Synced(f) ==
  [o \in DOMAIN pages[f] |->
     IF Present(f, o) THEN [pages[f][o] EXCEPT !.st = "synced"] ELSE Hole]

\* The pages of a view have the content its transactions gave them.
Intact(f, v) ==
  /\ Present(f, v.end)
  /\ pages[f][v.end].kind = "commit" /\ pages[f][v.end].tx = v.tx
  /\ \A o \in DOMAIN v.root :
       /\ Present(f, o)
       /\ pages[f][o].kind = "tree" /\ pages[f][o].tx = v.root[o]

Healthy(f) == mode = "serving" /\ owner[f] # NoView /\ ~failed[f]

-----------------------------------------------------------------------------
(* Publication                                                             *)

\* The editor keeps some pages of the current tree and writes n new ones.
Edited(keep, n) ==
  LET old == owner["image"]
  IN  [tx |-> publishes + 1, gen |-> old.gen + 1, end |-> old.end + n + 1,
       root |-> [o \in keep \cup (old.end + 1 .. old.end + n) |->
                   IF o \in keep THEN old.root[o] ELSE publishes + 1]]

\* The output is written at the committed end, whatever the file holds there.
Written(v, from) ==
  [o \in 1 .. (IF v.end > Len(pages["image"]) THEN v.end
                                              ELSE Len(pages["image"])) |->
     IF o \in from + 1 .. v.end - 1 THEN TreePage(v.tx)
     ELSE IF o = v.end THEN CommitPage(v)
     ELSE pages["image"][o]]

BeginPublish(keep, n) ==
  /\ Healthy("image") /\ job = Idle /\ publishes < MaxPublishes
  /\ LET v == Edited(keep, n)
     IN  /\ pages' = [pages EXCEPT !["image"] = Written(v, owner["image"].end)]
         /\ job' = [Idle EXCEPT !.kind = "publish", !.view = v]
  /\ failed' = [failed EXCEPT !["image"] = TRUE]
  /\ publishes' = publishes + 1
  /\ UNCHANGED <<punched, catalog, mode, owner, base, readers, promised,
                 crashes>>

\* mutant: the output is not synced
SyncedNever(f) == pages[f]

\* sync_data at the end of a publication.
SyncOutput(f) == Synced(f)

FinishPublish ==
  /\ mode = "serving" /\ job.kind = "publish"
  /\ pages' = [pages EXCEPT !["image"] = SyncOutput("image")]
  /\ punched' = [punched EXCEPT !["image"] = {}]
  /\ owner' = [owner EXCEPT !["image"] = job.view]
  /\ failed' = [failed EXCEPT !["image"] = FALSE]
  /\ promised' = job.view
  /\ job' = [job EXCEPT !.kind = "install"]
  /\ UNCHANGED <<catalog, mode, base, readers, counts>>

\* The log takes the new view; until then reads still capture the old one.
InstallBase ==
  /\ mode = "serving" /\ job.kind = "install"
  /\ base' = owner["image"]
  /\ job' = Idle
  /\ UNCHANGED <<disk, mode, owner, failed, readers, promised, counts>>

\* An IO error ends the transaction; the owner stays failed.
Fail ==
  /\ mode = "serving" /\ job.kind \in {"publish", "reclaim", "copied", "synced"}
  /\ job' = Idle
  /\ UNCHANGED <<disk, mode, owner, failed, base, readers, promised, counts>>

-----------------------------------------------------------------------------
(* Views                                                                   *)

OpenView(r) ==
  /\ mode = "serving" /\ readers[r] = NoView
  /\ readers' = [readers EXCEPT ![r] = base]
  /\ UNCHANGED <<disk, mode, owner, failed, base, job, promised, counts>>

CloseView(r) ==
  /\ mode = "serving" /\ readers[r] # NoView
  /\ readers' = [readers EXCEPT ![r] = NoView]
  /\ UNCHANGED <<disk, mode, owner, failed, base, job, promised, counts>>

-----------------------------------------------------------------------------
(* Reclamation of one file                                                 *)

\* mutant: only the root of the owner is retained
PinnedOwner(f) == {owner[f]}

\* Registered roots of a file: its owner, the log's base and the reads.
Pinned(f) ==
  {owner[f]} \cup
    (IF f = "image" THEN ({base} \cup {readers[r] : r \in Readers}) \ {NoView}
                    ELSE {})

\* Pages the walk over the registered roots marks.
Live(f) == UNION {{v.end} \cup DOMAIN v.root : v \in Pinned(f)}

\* The roots are captured and walked and the file synced before the first
\* hole is punched.
BeginReclaim(f) ==
  /\ Healthy(f) /\ job = Idle
  /\ Len(pages[f]) = owner[f].end
  /\ failed' = [failed EXCEPT ![f] = TRUE]
  /\ pages' = [pages EXCEPT ![f] = Synced(f)]
  /\ punched' = [punched EXCEPT ![f] = {}]
  /\ job' = [Idle EXCEPT !.kind = "reclaim", !.file = f,
                         !.pins = Pinned(f), !.live = Live(f)]
  /\ UNCHANGED <<catalog, mode, owner, base, readers, promised, counts>>

Dead == {o \in DOMAIN pages[job.file] : o \notin job.live
                                          /\ Present(job.file, o)}

Punch(o) ==
  /\ mode = "serving" /\ job.kind = "reclaim"
  /\ o \in Dead /\ \A p \in Dead : o <= p
  /\ punched' = [punched EXCEPT ![job.file] = @ \cup {o}]
  /\ UNCHANGED <<pages, catalog, mode, owner, failed, base, job, readers,
                 promised, counts>>

FinishReclaim ==
  /\ mode = "serving" /\ job.kind = "reclaim" /\ Dead = {}
  /\ pages' = [pages EXCEPT ![job.file] = Synced(job.file)]
  /\ punched' = [punched EXCEPT ![job.file] = {}]
  /\ failed' = [failed EXCEPT ![job.file] = FALSE]
  /\ job' = Idle
  /\ UNCHANGED <<catalog, mode, owner, base, readers, promised, counts>>

-----------------------------------------------------------------------------
(* Snapshots                                                               *)

\* A reflink of the file as it reads now, cut at the end of the view.  What an
\* earlier attempt left behind lies in another directory and is not modelled.
Copied(v) ==
  [o \in 1 .. v.end |->
     IF Present("image", o)
       THEN [pages["image"][o] EXCEPT !.st = "issued"] ELSE Hole]

BeginSnapshot ==
  /\ Healthy("image") /\ job = Idle /\ catalog = NoView
  /\ pages["snap"] = <<>>
  /\ pages' = [pages EXCEPT !["snap"] = Copied(owner["image"])]
  /\ job' = [Idle EXCEPT !.kind = "copied", !.file = "snap",
                         !.view = owner["image"]]
  /\ UNCHANGED <<punched, catalog, mode, owner, failed, base, readers,
                 promised, counts>>

SyncCopy == Synced("snap")

SyncSnapshot ==
  /\ mode = "serving" /\ job.kind = "copied"
  /\ pages' = [pages EXCEPT !["snap"] = SyncCopy]
  /\ job' = [job EXCEPT !.kind = "synced"]
  /\ UNCHANGED <<punched, catalog, mode, owner, failed, base, readers,
                 promised, counts>>

PublishSnapshot ==
  /\ mode = "serving" /\ job.kind = "synced"
  /\ catalog' = job.view
  /\ owner' = [owner EXCEPT !["snap"] = job.view]
  /\ failed' = [failed EXCEPT !["snap"] = FALSE]
  /\ job' = Idle
  /\ UNCHANGED <<pages, punched, mode, base, readers, promised, counts>>

-----------------------------------------------------------------------------
(* Crashes and recovery                                                    *)

\* A copy that is not in the catalog is never opened.
Kept == IF catalog = NoView THEN {"image"} ELSE Files

Issued == {p \in Kept \X UNION {DOMAIN pages[f] : f \in Kept} :
             p[2] \in DOMAIN pages[p[1]] /\ pages[p[1]][p[2]].st = "issued"}

Punched == {p \in Kept \X UNION {punched[f] : f \in Kept} :
              p[2] \in punched[p[1]]}

\* A page written or punched since the last sync is as before or as after.
Settle(f, o, lost, back, power) ==
  IF \/ <<f, o>> \in lost
     \/ power /\ o \in punched[f] /\ <<f, o>> \notin back
    THEN Hole
    ELSE IF power THEN [pages[f][o] EXCEPT !.st = "synced"] ELSE pages[f][o]

Crash(power, lost, back) ==
  /\ crashes < MaxCrashes /\ (power \/ mode # "down")
  /\ lost \subseteq Issued /\ back \subseteq Punched
  /\ ~power => (back = {} /\ (job.kind = "publish" \/ lost = {}))
  /\ pages' = [f \in Files |->
                 IF f \notin Kept THEN <<>>
                 ELSE [o \in DOMAIN pages[f] |->
                         Settle(f, o, lost, back, power)]]
  /\ punched' = IF power THEN [f \in Files |-> {}] ELSE punched
  /\ mode' = "down" /\ crashes' = crashes + 1
  /\ owner' = [f \in Files |-> NoView] /\ failed' = [f \in Files |-> TRUE]
  /\ base' = NoView /\ job' = Idle
  /\ readers' = [r \in Readers |-> NoView]
  /\ UNCHANGED <<catalog, promised, publishes>>

Commits == {o \in DOMAIN pages["image"] :
              Present("image", o) /\ pages["image"][o].kind = "commit"}

\* The walk over the tree of a COMMIT meets a tree page everywhere.
Complete(o) ==
  \A p \in DOMAIN pages["image"][o].root :
    Present("image", p) /\ pages["image"][p].kind = "tree"

\* The scan from the end of the file stops at o: the first complete COMMIT,
\* with the generations met on the way in order.
Selects(o) ==
  /\ o \in Commits /\ Complete(o)
  /\ \A b \in Commits : b > o => ~Complete(b)
  /\ \A a, b \in Commits : o <= a /\ a < b =>
       pages["image"][a].gen < pages["image"][b].gen

ViewAt(o) == [tx |-> pages["image"][o].tx, gen |-> pages["image"][o].gen,
              root |-> pages["image"][o].root, end |-> o]

\* SnapshotKey::verify and the walk: length, COMMIT and every tree page.
SnapshotVerified ==
  catalog # NoView =>
    /\ Len(pages["snap"]) = catalog.end
    /\ Present("snap", catalog.end)
    /\ pages["snap"][catalog.end].tx = catalog.tx
    /\ \A o \in DOMAIN catalog.root :
         Present("snap", o) /\ pages["snap"][o].kind = "tree"

\* Read-only inspection of both files.
Inspect ==
  /\ mode = "down" /\ SnapshotVerified
  /\ \E o \in DOMAIN pages["image"] :
       /\ Selects(o)
       /\ owner' = [f \in Files |-> IF f = "image" THEN ViewAt(o) ELSE catalog]
  /\ mode' = "repair"
  /\ UNCHANGED <<disk, failed, base, job, readers, promised, counts>>

\* mutant: the rejected suffix stays in the file
Uncut(f) == pages[f]

\* The rejected suffix is archived and cut off, the file synced.
Cut(f) == SubSeq(Synced(f), 1, owner[f].end)

Recover(f) ==
  /\ mode = "repair" /\ owner[f] # NoView /\ failed[f]
  /\ f = "snap" => ~failed["image"]
  /\ pages' = [pages EXCEPT ![f] = Cut(f)]
  /\ punched' = [punched EXCEPT ![f] = {}]
  /\ failed' = [failed EXCEPT ![f] = FALSE]
  /\ promised' = IF f = "image" THEN owner[f] ELSE promised
  /\ UNCHANGED <<catalog, mode, owner, base, job, readers, counts>>

FinishRecovery ==
  /\ mode = "repair"
  /\ \A f \in Files : owner[f] # NoView => ~failed[f]
  /\ mode' = "serving" /\ base' = owner["image"]
  /\ UNCHANGED <<disk, owner, failed, job, readers, promised, counts>>

-----------------------------------------------------------------------------
Init ==
  /\ pages = [f \in Files |->
                IF f = "image"
                  THEN <<[CommitPage(Initial) EXCEPT !.st = "synced"]>>
                  ELSE <<>>]
  /\ punched = [f \in Files |-> {}]
  /\ catalog = NoView /\ mode = "serving"
  /\ owner = [f \in Files |-> IF f = "image" THEN Initial ELSE NoView]
  /\ failed = [f \in Files |-> f # "image"]
  /\ base = Initial /\ job = Idle
  /\ readers = [r \in Readers |-> NoView]
  /\ promised = Initial /\ publishes = 0 /\ crashes = 0

WorkerStep ==
  \/ FinishPublish \/ InstallBase
  \/ \E o \in Dead : Punch(o)
  \/ FinishReclaim \/ SyncSnapshot \/ PublishSnapshot

RecoveryStep == Inspect \/ (\E f \in Files : Recover(f)) \/ FinishRecovery

CrashStep ==
  \E power \in BOOLEAN, lost \in SUBSET Issued,
     back \in SUBSET Punched : Crash(power, lost, back)

Next ==
  \/ \E keep \in SUBSET DOMAIN owner["image"].root, n \in 0 .. MaxPages :
       BeginPublish(keep, n)
  \/ \E f \in Files : BeginReclaim(f)
  \/ BeginSnapshot
  \/ \E r \in Readers : OpenView(r) \/ CloseView(r)
  \/ WorkerStep \/ RecoveryStep \/ Fail \/ CrashStep

Spec == Init /\ [][Next]_vars

\* The worker finishes what it started, recovery is a sequential program.
FairSpec == Spec /\ WF_vars(WorkerStep) /\ WF_vars(RecoveryStep)

-----------------------------------------------------------------------------
(* Properties                                                              *)

RootType(v) ==
  /\ DOMAIN v.root \subseteq 1 .. v.end - 1
  /\ \A o \in DOMAIN v.root : v.root[o] \in 1 .. publishes

\* Every variable has its type, trees lie before their COMMIT, and a file
\* reaches to the end of its owner's view.
TypeOK ==
  /\ \A f \in Files : \A o \in DOMAIN pages[f] :
       /\ pages[f][o].kind \in {"tree", "commit", "hole"}
       /\ pages[f][o].st \in {"issued", "synced"}
       /\ pages[f][o].tx \in 0 .. publishes
  /\ \A f \in Files : punched[f] \subseteq DOMAIN pages[f]
  /\ mode \in {"serving", "down", "repair"}
  /\ \A f \in Files : owner[f].end <= Len(pages[f]) /\ RootType(owner[f])
  /\ failed \in [Files -> BOOLEAN]
  /\ RootType(base) /\ RootType(promised) /\ RootType(catalog)
  /\ \A r \in Readers : RootType(readers[r])
  /\ job.kind \in {"idle", "publish", "install", "reclaim", "copied", "synced"}
  /\ publishes \in 0 .. MaxPublishes /\ crashes \in 0 .. MaxCrashes

\* Whatever instant the process or the host stops at, selection accepts the
\* file, takes the last view returned or the transaction after it, and finds
\* in it exactly the pages its transactions wrote.
PublishedSurvives ==
  mode = "down" =>
    \E o \in DOMAIN pages["image"] :
      /\ Selects(o) /\ Intact("image", ViewAt(o))
      /\ \/ pages["image"][o].tx = promised.tx
         \/ pages["image"][o].gen = promised.gen + 1

\* Views of the owner, of the log and of reads stay readable page by page
\* through publications, failures and reclamation.
ViewsReadable ==
  mode = "serving" =>
    /\ \A f \in Files : owner[f] # NoView => Intact(f, owner[f])
    /\ Intact("image", base)
    /\ \A r \in Readers : readers[r] # NoView => Intact("image", readers[r])

\* A snapshot in the catalog keeps the content of its cut, whatever becomes
\* of the image, of the host and of its own dead pages.
SnapshotExact == catalog # NoView => Intact("snap", catalog) /\ SnapshotVerified

\* Every view in use, of an image or of a snapshot, keeps its exact content
\* (publish, reclaim, Snapshot::copy).
ViewsExact == TypeOK /\ ViewsReadable /\ SnapshotExact

\* An image that stopped is opened again.
ManifestOpens == mode = "down" ~> mode = "serving"
=============================================================================
