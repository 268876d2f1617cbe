--------------------------- MODULE ManifestProofs ---------------------------
(***************************************************************************)
(* The manifest file for any number of readers, transactions and crashes:  *)
(* whatever instant the process or the host stops at, selection finds the  *)
(* last view that was returned or the transaction after it, and every view *)
(* in use keeps its exact content.                                         *)
(***************************************************************************)
EXTENDS Manifest, FiniteSetTheorems, TLAPS

-----------------------------------------------------------------------------
(* The inductive invariant.                                                *)

Roots == UNION {[D -> Nat] : D \in SUBSET Nat}
Page ==
  [kind : {"tree", "commit", "hole"}, tx : Nat, gen : Nat, root : Roots,
   st : {"issued", "synced"}]
View == [tx : Nat, gen : Nat, root : Roots, end : Nat]
JobType ==
  [kind : {"idle", "publish", "install", "reclaim", "copied", "synced"},
   file : Files, view : View, pins : SUBSET View, live : SUBSET Nat]

TypeInv ==
  /\ pages \in [Files -> Seq(Page)] /\ punched \in [Files -> SUBSET Nat]
  /\ catalog \in View /\ mode \in {"serving", "down", "repair"}
  /\ owner \in [Files -> View] /\ failed \in [Files -> BOOLEAN]
  /\ base \in View /\ job \in JobType /\ readers \in [Readers -> View]
  /\ promised \in View
  /\ publishes \in 0..MaxPublishes /\ crashes \in 0..MaxCrashes

\* The pages p of a file with the holes u hold the view v, and no crash can take
\* a page of it away.
PagesOf(v) == {v.end} \cup DOMAIN v.root
In(p, u, o) == o \in DOMAIN p /\ o \notin u /\ p[o].kind # "hole"
Holds(p, u, v) ==
  /\ In(p, u, v.end) /\ p[v.end].kind = "commit" /\ p[v.end].tx = v.tx
  /\ p[v.end].gen = v.gen /\ p[v.end].root = v.root
  /\ \A o \in DOMAIN v.root : In(p, u, o) /\ p[o].kind = "tree" /\ p[o].tx = v.root[o]
Safe(p, u, v) == Holds(p, u, v) /\ \A o \in PagesOf(v) : p[o].st = "synced"

\* A tree lies before its COMMIT and was written by the n transactions so far.
WellFormed(v, n) ==
  /\ DOMAIN v.root \subseteq 1..v.end - 1
  /\ \A o \in DOMAIN v.root : v.root[o] \in 1..n

BoundInv ==
  /\ \A f \in Files : punched[f] \subseteq DOMAIN pages[f]
  /\ \A f \in Files : \A o \in DOMAIN pages[f] : pages[f][o].tx <= publishes
  /\ WellFormed(promised, publishes) /\ WellFormed(catalog, publishes)
  /\ WellFormed(base, publishes) /\ WellFormed(job.view, publishes)
  /\ \A f \in Files : WellFormed(owner[f], publishes)
  /\ \A r \in Readers : WellFormed(readers[r], publishes)

\* The image is open: its owner is the view that was returned last.
Open == mode = "serving" \/ (mode = "repair" /\ ~failed["image"])

PromiseInv ==
  /\ promised.end >= 1 /\ Safe(pages["image"], punched["image"], promised)
  /\ Open => owner["image"] = promised
  /\ Open /\ ~failed["image"] => Len(pages["image"]) = promised.end
  /\ mode = "repair" => /\ Holds(pages["image"], punched["image"], owner["image"])
                        /\ owner["image"].end >= 1
  /\ mode = "down" => failed["image"]

\* After the promised COMMIT the pages p hold at most one other one, n
\* transactions begun: that of the next generation, over pages of the promised
\* tree and its own.
Tail1(p, v, n) ==
  \A c \in DOMAIN p : c > v.end /\ p[c].kind = "commit" =>
    /\ \A d \in DOMAIN p : d > v.end /\ p[d].kind = "commit" => d = c
    /\ p[c].gen = v.gen + 1
    /\ \A o \in DOMAIN p[c].root :
         /\ o \in 1..c - 1 /\ p[c].root[o] \in 1..n
         /\ o <= v.end => o \in DOMAIN v.root /\ v.root[o] = p[c].root[o]
         /\ o > v.end /\ p[o].kind = "tree" => p[o].tx = p[c].root[o]
TailInv == Tail1(pages["image"], promised, publishes)

JobInv ==
  /\ job.kind # "idle" => mode = "serving"
  /\ job.kind = "idle" => job = Idle
  /\ job.kind = "publish" =>
       /\ failed["image"] /\ Holds(pages["image"], punched["image"], job.view)
       /\ job.view.end = Len(pages["image"]) /\ job.view.end > promised.end
  /\ job.kind = "reclaim" /\ job.file = "image" =>
       /\ PagesOf(promised) \subseteq job.live /\ failed["image"]
       /\ PagesOf(base) \subseteq job.live /\ Len(pages["image"]) = promised.end
       /\ \A r \in Readers : readers[r] # NoView => PagesOf(readers[r]) \subseteq job.live
  /\ job.kind = "reclaim" /\ job.file = "snap" =>
       catalog # NoView /\ PagesOf(catalog) \subseteq job.live
  /\ job.kind \in {"copied", "synced"} =>
       /\ Holds(pages["snap"], punched["snap"], job.view)
       /\ Len(pages["snap"]) = job.view.end /\ catalog = NoView /\ job.view.end >= 1
  /\ job.kind = "synced" => Safe(pages["snap"], punched["snap"], job.view)

SnapInv ==
  /\ catalog = NoView => punched["snap"] = {}
  /\ catalog # NoView => /\ Safe(pages["snap"], punched["snap"], catalog)
                         /\ Len(pages["snap"]) = catalog.end /\ catalog.end >= 1
  /\ mode # "down" => owner["snap"] = catalog
  /\ mode = "down" => owner["image"] = NoView /\ owner["snap"] = NoView

\* A view in use is a promise of before.
Used(v) ==
  v # NoView => /\ Holds(pages["image"], punched["image"], v)
                /\ v.end >= 1 /\ v.end <= promised.end
UseInv ==
  /\ mode # "serving" => base = NoView /\ \A r \in Readers : readers[r] = NoView
  /\ mode = "serving" => base # NoView
  /\ Used(base) /\ \A r \in Readers : Used(readers[r])

ManifestInv ==
  /\ TypeInv /\ BoundInv /\ PromiseInv /\ TailInv /\ JobInv /\ SnapInv /\ UseInv

-----------------------------------------------------------------------------
(* Facts about pages and views.                                            *)

\* The empty tree, and the pages and views the model builds.
LEMMA EmptyTree == <<>> \in Roots /\ DOMAIN <<>> = {}
<1>1. <<>> \in [{} -> Nat]
  OBVIOUS
<1> QED BY <1>1 DEF Roots
LEMMA Built ==
  /\ Hole \in Page /\ Hole.kind = "hole" /\ Hole.tx = 0
  /\ NoView \in View /\ NoView.end = 0 /\ DOMAIN NoView.root = {}
  /\ Initial \in View /\ Initial.end = 1 /\ Initial.gen = 1 /\ Initial.tx = 0
  /\ DOMAIN Initial.root = {}
  /\ Idle \in JobType /\ Idle.kind = "idle" /\ Idle.view = NoView
  /\ \A tx \in Nat : TreePage(tx) \in Page /\ TreePage(tx).kind = "tree"
                       /\ TreePage(tx).tx = tx
  /\ \A v \in View : /\ CommitPage(v) \in Page /\ CommitPage(v).kind = "commit"
                     /\ CommitPage(v).tx = v.tx /\ CommitPage(v).gen = v.gen
                     /\ CommitPage(v).root = v.root
<1>1. Hole \in Page /\ Hole.kind = "hole" /\ Hole.tx = 0
  BY EmptyTree DEF Hole, Page
<1>2. NoView \in View /\ NoView.end = 0 /\ DOMAIN NoView.root = {}
  BY EmptyTree DEF NoView, View
<1>3. /\ Initial \in View /\ Initial.end = 1 /\ Initial.gen = 1 /\ Initial.tx = 0
      /\ DOMAIN Initial.root = {}
  BY EmptyTree DEF Initial, View
<1>4. Idle \in JobType /\ Idle.kind = "idle" /\ Idle.view = NoView
  BY <1>2 DEF Idle, JobType, Files
<1>5. \A tx \in Nat : TreePage(tx) \in Page /\ TreePage(tx).kind = "tree"
                        /\ TreePage(tx).tx = tx
  BY EmptyTree DEF TreePage, Page
<1>6. \A v \in View : /\ CommitPage(v) \in Page /\ CommitPage(v).kind = "commit"
                      /\ CommitPage(v).tx = v.tx /\ CommitPage(v).gen = v.gen
                      /\ CommitPage(v).root = v.root
  BY DEF CommitPage, Page, View
<1> QED BY <1>1, <1>2, <1>3, <1>4, <1>5, <1>6

\* A view stays where its pages stay.
SamePage(p, q, o) ==
  /\ q[o].kind = p[o].kind /\ q[o].tx = p[o].tx /\ q[o].gen = p[o].gen
  /\ q[o].root = p[o].root
LEMMA HoldsKept ==
  ASSUME NEW p, NEW u, NEW q, NEW w, NEW v, Holds(p, u, v),
         \A o \in PagesOf(v) : In(p, u, o) => o \in DOMAIN q /\ o \notin w
                                                /\ SamePage(p, q, o)
  PROVE  Holds(q, w, v)
BY DEF Holds, In, PagesOf, SamePage
LEMMA SafeKept ==
  ASSUME NEW p, NEW u, NEW q, NEW w, NEW v, Safe(p, u, v),
         \A o \in PagesOf(v) : In(p, u, o) /\ p[o].st = "synced" =>
            o \in DOMAIN q /\ o \notin w /\ SamePage(p, q, o) /\ q[o].st = "synced"
  PROVE  Safe(q, w, v)
<1>1. \A o \in PagesOf(v) : In(p, u, o) /\ p[o].st = "synced"
  BY DEF Safe, Holds, PagesOf
<1>2. Holds(p, u, v)
  BY DEF Safe
<1>3. Holds(q, w, v)
  BY <1>1, <1>2, HoldsKept
<1> QED BY <1>1, <1>3 DEF Safe

\* What a sync makes of a file.
SyncOf(p, u) ==
  [o \in DOMAIN p |-> IF In(p, u, o) THEN [p[o] EXCEPT !.st = "synced"] ELSE Hole]
LEMMA SyncIs ==
  ASSUME NEW p \in Seq(Page), NEW u \in SUBSET Nat
  PROVE  /\ SyncOf(p, u) \in Seq(Page)
         /\ Len(SyncOf(p, u)) = Len(p) /\ DOMAIN SyncOf(p, u) = DOMAIN p
         /\ \A o \in DOMAIN p : /\ In(p, u, o) => /\ SamePage(p, SyncOf(p, u), o)
                                                  /\ SyncOf(p, u)[o].st = "synced"
                                /\ ~In(p, u, o) => SyncOf(p, u)[o] = Hole
<1> DEFINE q == SyncOf(p, u)
<1>1. \A o \in DOMAIN p : p[o] \in Page
  OBVIOUS
<1>2. DOMAIN p = 1..Len(p) /\ Len(p) \in Nat
  OBVIOUS
<1>3. \A o \in DOMAIN p :
        q[o] = IF In(p, u, o) THEN [p[o] EXCEPT !.st = "synced"] ELSE Hole
  BY DEF SyncOf
<1>8. ASSUME NEW o \in DOMAIN p
      PROVE  /\ q[o] \in Page
             /\ In(p, u, o) => SamePage(p, q, o) /\ q[o].st = "synced"
  <2>1. p[o] \in Page
    BY <1>1
  <2> HIDE DEF q
  <2>2. CASE In(p, u, o)
    <3>1. q[o] = [p[o] EXCEPT !.st = "synced"]
      BY <1>3, <2>2
    <3> QED BY <2>1, <3>1 DEF Page, SamePage
  <2>3. CASE ~In(p, u, o)
    BY <1>3, <2>3, Built
  <2> QED BY <2>2, <2>3
<1>4. \A o \in DOMAIN p : q[o] \in Page
  BY <1>8
<1>5. q \in [1..Len(p) -> Page] /\ DOMAIN q = DOMAIN p
  <2>1. q = [o \in 1..Len(p) |-> q[o]]
    BY <1>2 DEF SyncOf
  <2> HIDE DEF q
  <2> QED BY <1>2, <1>4, <2>1
<1>6. q \in Seq(Page) /\ Len(q) = Len(p)
  <2> HIDE DEF q
  <2> QED BY <1>2, <1>5
<1>7. \A o \in DOMAIN p : In(p, u, o) => SamePage(p, q, o) /\ q[o].st = "synced"
  BY <1>8
<1> QED BY <1>3, <1>5, <1>6, <1>7

\* A sync loses no view, and makes the views it finds safe.
LEMMA SyncKeeps ==
  ASSUME NEW p \in Seq(Page), NEW u \in SUBSET Nat, NEW v, Holds(p, u, v)
  PROVE  Safe(SyncOf(p, u), {}, v)
<1> DEFINE q == SyncOf(p, u)
<1>1. \A o \in PagesOf(v) : In(p, u, o)
  BY DEF Holds, PagesOf
<1>2. \A o \in PagesOf(v) : o \in DOMAIN q /\ SamePage(p, q, o) /\ q[o].st = "synced"
  <2>1. \A o \in PagesOf(v) : o \in DOMAIN p
    BY <1>1 DEF In
  <2> QED BY <1>1, <2>1, SyncIs
<1> HIDE DEF q
<1>3. Holds(q, {}, v)
  BY <1>2, HoldsKept
<1>4. Safe(q, {}, v)
  BY <1>2, <1>3 DEF Safe
<1> QED BY <1>4 DEF q

\* A view is well formed whatever is published after it.
LEMMA StaysFormed ==
  ASSUME NEW v, NEW n \in Nat, NEW m \in Nat, n <= m, WellFormed(v, n)
  PROVE  WellFormed(v, m)
BY DEF WellFormed
LEMMA NoViewFormed ==
  ASSUME NEW n \in Nat
  PROVE  WellFormed(NoView, n)
BY Built DEF WellFormed

\* With no job there is nothing to keep for one.
LEMMA IdleJob ==
  ASSUME job' = Idle
  PROVE  JobInv' /\ (job' \in JobType) /\ \A n \in Nat : WellFormed(job'.view, n)
BY Built, NoViewFormed DEF JobInv

\* The types and views of a state, for a step that leaves the disk alone.
LEMMA Facts ==
  ASSUME ManifestInv
  PROVE  /\ pages["image"] \in Seq(Page) /\ pages["snap"] \in Seq(Page)
         /\ punched["image"] \in SUBSET Nat /\ punched["snap"] \in SUBSET Nat
         /\ promised \in View /\ catalog \in View /\ base \in View
         /\ owner["image"] \in View /\ owner["snap"] \in View
         /\ publishes \in Nat /\ job \in JobType /\ job.view \in View
         /\ \A r \in Readers : readers[r] \in View
         /\ WellFormed(promised, publishes) /\ WellFormed(catalog, publishes)
         /\ WellFormed(base, publishes) /\ WellFormed(job.view, publishes)
         /\ WellFormed(owner["image"], publishes)
         /\ WellFormed(owner["snap"], publishes)
         /\ \A r \in Readers : WellFormed(readers[r], publishes)
<1>1. TypeInv /\ BoundInv
  BY DEF ManifestInv
<1>2. "image" \in Files /\ "snap" \in Files
  BY DEF Files
<1>3. publishes \in Nat
  BY <1>1, ManifestAssumption DEF TypeInv
<1>4. job \in JobType /\ job.view \in View
  BY <1>1 DEF TypeInv, JobType
<1> QED BY <1>1, <1>2, <1>3, <1>4 DEF TypeInv, BoundInv

-----------------------------------------------------------------------------
(* Steps that change no page.                                              *)

\* The log takes the view that was returned.
LEMMA InstallBaseInv == ASSUME ManifestInv, InstallBase PROVE ManifestInv'
<1> USE DEF ManifestInv
<1>1. /\ mode = "serving" /\ job.kind = "install" /\ base' = owner["image"]
      /\ job' = Idle /\ owner["image"] = promised
      /\ UNCHANGED <<pages, punched, catalog, mode, owner, failed, readers, promised,
                     publishes, crashes>>
  BY DEF InstallBase, disk, counts, PromiseInv, Open
<1>2. TypeInv'
  BY <1>1, Facts, IdleJob DEF TypeInv
<1>3. BoundInv'
  BY <1>1, Facts, IdleJob DEF BoundInv
<1>4. PromiseInv' /\ TailInv' /\ SnapInv'
  BY <1>1 DEF PromiseInv, Open, TailInv, SnapInv
<1>5. UseInv'
  <2>1. base' # NoView
    BY <1>1, Built DEF PromiseInv
  <2>2. Used(base)'
    BY <1>1, Facts DEF Used, PromiseInv, Safe, View
  <2>3. \A r \in Readers : Used(readers[r])'
    BY <1>1 DEF UseInv, Used
  <2> QED BY <1>1, <2>1, <2>2, <2>3 DEF UseInv
<1> QED BY <1>1, <1>2, <1>3, <1>4, <1>5, IdleJob

\* A failed transaction leaves its pages and its owner as they are.
LEMMA FailInv == ASSUME ManifestInv, Fail PROVE ManifestInv'
<1> USE DEF ManifestInv
<1>1. /\ job' = Idle
      /\ UNCHANGED <<pages, punched, catalog, mode, owner, failed, base, readers,
                     promised, publishes, crashes>>
  BY DEF Fail, disk, counts
<1>2. TypeInv'
  BY <1>1, IdleJob DEF TypeInv
<1>3. BoundInv'
  BY <1>1, Facts, IdleJob DEF BoundInv
<1>4. PromiseInv' /\ TailInv' /\ SnapInv'
  BY <1>1 DEF PromiseInv, Open, TailInv, SnapInv
<1>5. UseInv'
  BY <1>1 DEF UseInv, Used
<1> QED BY <1>1, <1>2, <1>3, <1>4, <1>5, IdleJob

\* A read pins the base, also while dead pages are being punched, or lets go.
LEMMA ViewInv ==
  ASSUME ManifestInv, NEW r \in Readers, OpenView(r) \/ CloseView(r)
  PROVE  ManifestInv'
<1> USE DEF ManifestInv
<1>1. PICK v \in {base, NoView} : readers' = [readers EXCEPT ![r] = v]
  BY DEF OpenView, CloseView
<1>2. /\ mode = "serving"
      /\ UNCHANGED <<pages, punched, catalog, mode, owner, failed, base, job,
                     promised, publishes, crashes>>
  BY DEF OpenView, CloseView, disk, counts
<1>3. v \in View /\ WellFormed(v, publishes) /\ Used(v)
  BY Facts, Built, NoViewFormed DEF UseInv, Used
<1>4. readers' \in [Readers -> View] /\ \A s \in Readers : readers'[s] \in {v, readers[s]}
  BY <1>1, <1>3 DEF TypeInv
<1>5. TypeInv'
  BY <1>2, <1>4 DEF TypeInv
<1>6. BoundInv'
  <2>1. \A s \in Readers : WellFormed(readers'[s], publishes')
    BY <1>2, <1>3, <1>4, Facts
  <2> QED BY <1>2, <2>1 DEF BoundInv
<1>7. PromiseInv' /\ TailInv' /\ SnapInv'
  BY <1>2 DEF PromiseInv, Open, TailInv, SnapInv
<1>8. UseInv'
  <2>1. \A s \in Readers : Used(readers[s])'
    <3> SUFFICES ASSUME NEW s \in Readers PROVE Used(readers[s])'
      OBVIOUS
    <3>1. Used(v) /\ Used(readers[s]) /\ readers'[s] \in {v, readers[s]}
      BY <1>3, <1>4 DEF UseInv
    <3> QED BY <1>2, <3>1 DEF Used
  <2>2. Used(base)'
    BY <1>2 DEF UseInv, Used
  <2> QED BY <1>2, <2>1, <2>2 DEF UseInv
<1>9. JobInv'
  <2>1. ASSUME job.kind = "reclaim", job.file = "image", NEW s \in Readers,
               readers'[s] # NoView
        PROVE  PagesOf(readers'[s]) \subseteq job.live
    BY <1>1, <1>4, <2>1 DEF JobInv
  <2> QED BY <1>2, <2>1 DEF JobInv
<1> QED BY <1>5, <1>6, <1>7, <1>8, <1>9

\* A snapshot enters the catalog with the pages that were synced.
LEMMA PublishSnapshotInv == ASSUME ManifestInv, PublishSnapshot PROVE ManifestInv'
<1> USE DEF ManifestInv
<1>1. /\ mode = "serving" /\ job.kind = "synced" /\ catalog' = job.view /\ job' = Idle
      /\ owner' = [owner EXCEPT !["snap"] = job.view]
      /\ failed' = [failed EXCEPT !["snap"] = FALSE]
      /\ UNCHANGED <<pages, punched, mode, base, readers, promised, publishes, crashes>>
  BY DEF PublishSnapshot, counts
<1>2. /\ owner' \in [Files -> View] /\ owner'["image"] = owner["image"]
      /\ owner'["snap"] = job.view
  BY <1>1, Facts DEF TypeInv, Files
<1>3. failed' \in [Files -> BOOLEAN] /\ failed'["image"] = failed["image"]
  <2>1. ASSUME NEW b \in BOOLEAN
        PROVE  [failed EXCEPT !["snap"] = b] \in [Files -> BOOLEAN]
    BY DEF TypeInv
  <2> QED BY <1>1, <2>1 DEF TypeInv, Files
<1>4. TypeInv'
  BY <1>1, <1>2, <1>3, Facts, IdleJob DEF TypeInv
<1>5. BoundInv'
  <2>1. \A f \in Files : WellFormed(owner'[f], publishes')
    BY <1>1, <1>2, Facts DEF Files
  <2> QED BY <1>1, <2>1, Facts, IdleJob DEF BoundInv
<1>6. PromiseInv' /\ TailInv'
  BY <1>1, <1>2, <1>3 DEF PromiseInv, Open, TailInv
<1>7. SnapInv'
  <2>1. job.view # NoView /\ job.view.end >= 1
    BY <1>1, Built DEF JobInv
  <2> QED BY <1>1, <1>2, <2>1 DEF JobInv, SnapInv
<1>8. UseInv'
  BY <1>1 DEF UseInv, Used
<1> QED BY <1>1, <1>4, <1>5, <1>6, <1>7, <1>8, IdleJob

\* Recovery is over: the log starts from the promised view.
LEMMA FinishRecoveryInv == ASSUME ManifestInv, FinishRecovery PROVE ManifestInv'
<1> USE DEF ManifestInv
<1>1. /\ mode = "repair" /\ mode' = "serving" /\ base' = owner["image"]
      /\ \A f \in Files : owner[f] # NoView => ~failed[f]
      /\ UNCHANGED <<pages, punched, catalog, owner, failed, job, readers, promised,
                     publishes, crashes>>
  BY DEF FinishRecovery, disk, counts
<1>2. owner["image"].end >= 1 /\ owner["image"] # NoView
  BY <1>1, Built DEF PromiseInv
<1>3. ~failed["image"] /\ owner["image"] = promised
  BY <1>1, <1>2 DEF PromiseInv, Open, Files
<1>4. TypeInv'
  BY <1>1, Facts DEF TypeInv
<1>5. BoundInv'
  BY <1>1, Facts DEF BoundInv
<1>6. PromiseInv' /\ TailInv'
  BY <1>1, <1>3 DEF PromiseInv, Open, TailInv
<1>7. SnapInv' /\ JobInv'
  <2>1. job.kind = "idle" /\ job = Idle
    BY <1>1, Facts DEF JobInv, JobType
  <2>2. JobInv'
    BY <1>1, <2>1, IdleJob
  <2> QED BY <1>1, <2>2 DEF SnapInv
<1>8. UseInv'
  <2>1. Used(base)'
    BY <1>1, <1>3, Facts DEF Used, PromiseInv, Safe, View
  <2>2. \A r \in Readers : Used(readers[r])'
    BY <1>1 DEF UseInv, Used
  <2> QED BY <1>1, <1>2, <2>1, <2>2 DEF UseInv
<1> QED BY <1>4, <1>5, <1>6, <1>7, <1>8

-----------------------------------------------------------------------------
(* Selection of a COMMIT.                                                  *)

\* The promised COMMIT and its tree are found by the scan.
LEMMA PromiseFound ==
  ASSUME ManifestInv
  PROVE  /\ promised.end \in Commits /\ Complete(promised.end)
         /\ promised.end \in DOMAIN pages["image"]
         /\ ViewAt(promised.end) = promised
<1>1. Holds(pages["image"], punched["image"], promised)
  BY DEF ManifestInv, PromiseInv, Safe
<1>2. promised.end \in Commits /\ promised.end \in DOMAIN pages["image"]
  BY <1>1 DEF Commits, Present, Holds, In
<1>3. Complete(promised.end)
  BY <1>1 DEF Complete, Present, Holds, In
<1>4. ViewAt(promised.end) = promised
  <2>1. promised \in View
    BY Facts
  <2>2. promised = [tx |-> promised.tx, gen |-> promised.gen, root |-> promised.root,
                    end |-> promised.end]
    BY <2>1 DEF View
  <2> QED BY <1>1, <2>2 DEF ViewAt, Holds
<1> QED BY <1>2, <1>3, <1>4

\* What selection takes holds exactly what its transactions wrote, and is the
\* promise or the transaction after it.
LEMMA SelectedHolds ==
  ASSUME ManifestInv, NEW o, Selects(o)
  PROVE  /\ o \in DOMAIN pages["image"] /\ o \in Nat /\ o >= 1
         /\ Holds(pages["image"], punched["image"], ViewAt(o))
         /\ WellFormed(ViewAt(o), publishes) /\ ViewAt(o) \in View
         /\ \/ pages["image"][o].tx = promised.tx
            \/ pages["image"][o].gen = promised.gen + 1
<1> DEFINE p == pages["image"]
           u == punched["image"]
<1>1. p \in Seq(Page) /\ promised \in View /\ promised.end \in Nat
  BY Facts DEF View
<1>2. /\ o \in DOMAIN p /\ In(p, u, o) /\ p[o].kind = "commit"
      /\ \A x \in DOMAIN p[o].root : In(p, u, x) /\ p[x].kind = "tree"
  BY DEF Selects, Commits, Complete, Present, In
<1>3. o \in Nat /\ o >= 1 /\ p[o] \in Page
  BY <1>1, <1>2
<1>4. ~(promised.end > o)
  BY PromiseFound DEF Selects
<1>5. CASE o = promised.end
  <2>1. ViewAt(o) = promised
    BY <1>5, PromiseFound
  <2>2. Holds(p, u, promised)
    BY DEF ManifestInv, PromiseInv, Safe
  <2>3. p[o].tx = promised.tx
    BY <1>5, <2>2 DEF Holds
  <2> QED BY <1>2, <1>3, <2>1, <2>2, <2>3, Facts
<1>6. CASE o > promised.end
  <2>1. /\ p[o].gen = promised.gen + 1
        /\ \A x \in DOMAIN p[o].root :
             /\ x \in 1..o - 1 /\ p[o].root[x] \in 1..publishes
             /\ x <= promised.end => x \in DOMAIN promised.root
                                       /\ promised.root[x] = p[o].root[x]
             /\ x > promised.end /\ p[x].kind = "tree" => p[x].tx = p[o].root[x]
    BY <1>2, <1>6 DEF ManifestInv, TailInv, Tail1
  <2>2. \A x \in DOMAIN promised.root : p[x].tx = promised.root[x]
    BY DEF ManifestInv, PromiseInv, Safe, Holds
  <2> HIDE DEF p, u
  <2>3. \A x \in DOMAIN p[o].root : p[x].tx = p[o].root[x]
    <3> SUFFICES ASSUME NEW x \in DOMAIN p[o].root PROVE p[x].tx = p[o].root[x]
      OBVIOUS
    <3>1. x \in Nat
      BY <2>1
    <3>2. CASE x <= promised.end
      BY <2>1, <2>2, <3>2
    <3>3. CASE x > promised.end
      BY <1>2, <2>1, <3>3
    <3> QED BY <1>1, <3>1, <3>2, <3>3
  <2> DEFINE w == ViewAt(o)
  <2>4. /\ w.tx = p[o].tx /\ w.gen = p[o].gen /\ w.root = p[o].root /\ w.end = o
        /\ w \in View
    BY <1>3 DEF ViewAt, View, Page, p
  <2> HIDE DEF w
  <2>5. Holds(p, u, w)
    BY <1>2, <2>3, <2>4 DEF Holds
  <2>6. WellFormed(w, publishes)
    BY <2>1, <2>4 DEF WellFormed
  <2> QED BY <1>2, <1>3, <2>1, <2>4, <2>5, <2>6 DEF w, p, u
<1> QED BY <1>1, <1>3, <1>4, <1>5, <1>6

\* The scan always stops at some COMMIT.
LEMMA SomeSelected ==
  ASSUME ManifestInv
  PROVE  \E o \in DOMAIN pages["image"] : Selects(o)
<1> DEFINE p == pages["image"]
<1>1. p \in Seq(Page) /\ promised.end \in Nat /\ promised.gen \in Nat
  BY Facts DEF View
<1>2. \A c \in Commits : c \in DOMAIN p /\ p[c].kind = "commit" /\ c \in Nat
  BY <1>1 DEF Commits
<1>3. \A c, d \in Commits : c > promised.end /\ d > promised.end =>
        d = c /\ p[c].gen = promised.gen + 1
  BY <1>2 DEF ManifestInv, TailInv, Tail1
<1>4. CASE \E c \in Commits : c > promised.end /\ Complete(c)
  <2>1. PICK c \in Commits : c > promised.end /\ Complete(c)
    BY <1>4
  <2>2. \A b \in Commits : b > c => FALSE
    BY <1>1, <1>2, <1>3, <2>1
  <2>3. \A a, b \in Commits : c <= a /\ a < b => FALSE
    BY <1>1, <1>2, <1>3, <2>1
  <2>4. Selects(c)
    BY <2>1, <2>2, <2>3 DEF Selects
  <2> QED BY <1>2, <2>4
<1>5. CASE \A c \in Commits : c > promised.end => ~Complete(c)
  <2>1. \A a, b \in Commits : promised.end <= a /\ a < b => p[a].gen < p[b].gen
    <3> SUFFICES ASSUME NEW a \in Commits, NEW b \in Commits, promised.end <= a, a < b
                 PROVE  p[a].gen < p[b].gen
      OBVIOUS
    <3>1. b > promised.end /\ (a = promised.end \/ a > promised.end)
      BY <1>1, <1>2
    <3>2. a = promised.end
      BY <1>2, <1>3, <3>1
    <3>3. p[a].gen = promised.gen /\ p[b].gen = promised.gen + 1
      BY <1>3, <3>1, <3>2 DEF ManifestInv, PromiseInv, Safe, Holds
    <3> QED BY <1>1, <3>3
  <2>2. Selects(promised.end)
    BY <1>5, <2>1, PromiseFound DEF Selects
  <2> QED BY <2>2, PromiseFound
<1> QED BY <1>4, <1>5

\* Inspection takes what selection found and what the catalog names.
LEMMA InspectInv == ASSUME ManifestInv, Inspect PROVE ManifestInv'
<1> USE DEF ManifestInv
<1>1. /\ mode = "down" /\ mode' = "repair"
      /\ UNCHANGED <<pages, punched, catalog, failed, base, job, readers, promised,
                     publishes, crashes>>
  BY DEF Inspect, disk, counts
<1>2. PICK o \in DOMAIN pages["image"] :
        /\ Selects(o)
        /\ owner' = [f \in Files |-> IF f = "image" THEN ViewAt(o) ELSE catalog]
  BY DEF Inspect
<1>3. /\ Holds(pages["image"], punched["image"], ViewAt(o)) /\ ViewAt(o) \in View
      /\ WellFormed(ViewAt(o), publishes) /\ o >= 1 /\ ViewAt(o).end = o
  BY <1>2, SelectedHolds DEF ViewAt
<1>4. /\ owner' \in [Files -> View] /\ owner'["image"] = ViewAt(o)
      /\ owner'["snap"] = catalog
  BY <1>2, <1>3, Facts DEF Files
<1>5. job = Idle /\ job.kind = "idle"
  BY <1>1, Facts DEF JobInv, JobType
<1>6. TypeInv'
  BY <1>1, <1>4 DEF TypeInv
<1>7. BoundInv'
  <2>1. \A f \in Files : WellFormed(owner'[f], publishes')
    BY <1>1, <1>3, <1>4, Facts DEF Files
  <2> QED BY <1>1, <2>1 DEF BoundInv
<1>8. PromiseInv'
  <2>1. failed["image"] = TRUE
    BY <1>1 DEF PromiseInv, TypeInv, Files
  <2> QED BY <1>1, <1>3, <1>4, <2>1 DEF PromiseInv, Open
<1>9. TailInv' /\ SnapInv' /\ UseInv'
  BY <1>1, <1>4 DEF TailInv, SnapInv, UseInv, Used
<1>10. JobInv'
  BY <1>1, <1>5, IdleJob
<1> QED BY <1>6, <1>7, <1>8, <1>9, <1>10

-----------------------------------------------------------------------------
(* Steps that sync a file.                                                 *)

\* Pages lost or cut off leave no other COMMIT behind.
Thinner(p, q) ==
  /\ DOMAIN q \subseteq DOMAIN p
  /\ \A o \in DOMAIN q : q[o].kind = "hole" \/ SamePage(p, q, o)
LEMMA ThinTail ==
  ASSUME NEW p \in Seq(Page), NEW q \in Seq(Page), Thinner(p, q),
         NEW v \in View, NEW n \in Nat, Tail1(p, v, n)
  PROVE  Tail1(q, v, n)
<1> SUFFICES ASSUME NEW c \in DOMAIN q, c > v.end, q[c].kind = "commit"
             PROVE  /\ \A d \in DOMAIN q : d > v.end /\ q[d].kind = "commit" => d = c
                    /\ q[c].gen = v.gen + 1
                    /\ \A o \in DOMAIN q[c].root :
                         /\ o \in 1..c - 1 /\ q[c].root[o] \in 1..n
                         /\ o <= v.end => o \in DOMAIN v.root /\ v.root[o] = q[c].root[o]
                         /\ o > v.end /\ q[o].kind = "tree" => q[o].tx = q[c].root[o]
  BY DEF Tail1
<1>1. \A o \in DOMAIN q : q[o].kind = "hole" \/ SamePage(p, q, o)
  BY DEF Thinner
<1>2. \A o \in DOMAIN q : o \in DOMAIN p
  BY DEF Thinner
<1>3. SamePage(p, q, c) /\ c \in DOMAIN p
  BY <1>1, <1>2
<1>4. /\ \A d \in DOMAIN p : d > v.end /\ p[d].kind = "commit" => d = c
      /\ p[c].gen = v.gen + 1
      /\ \A o \in DOMAIN p[c].root :
           /\ o \in 1..c - 1 /\ p[c].root[o] \in 1..n
           /\ o <= v.end => o \in DOMAIN v.root /\ v.root[o] = p[c].root[o]
           /\ o > v.end /\ p[o].kind = "tree" => p[o].tx = p[c].root[o]
  BY <1>3 DEF Tail1, SamePage
<1>5. \A d \in DOMAIN q : d > v.end /\ q[d].kind = "commit" => d = c
  BY <1>1, <1>2, <1>4 DEF SamePage
<1>6. q[c].gen = v.gen + 1 /\ q[c].root = p[c].root
  BY <1>3, <1>4 DEF SamePage
<1>7. ASSUME NEW o \in DOMAIN p[c].root, o > v.end, q[o].kind = "tree"
      PROVE  q[o].tx = p[c].root[o]
  <2>1. o \in 1..c - 1
    BY <1>4
  <2>2. o \in DOMAIN q
    BY <2>1
  <2>3. SamePage(p, q, o)
    BY <1>1, <1>7, <2>2
  <2> QED BY <1>4, <1>7, <2>3 DEF SamePage
<1> QED BY <1>4, <1>5, <1>6, <1>7

\* A sync of one file keeps the types, the other file and every view.
LEMMA SyncStep ==
  ASSUME ManifestInv, NEW f \in Files, pages' = [pages EXCEPT ![f] = Synced(f)],
         punched' = [punched EXCEPT ![f] = {}]
  PROVE  /\ pages' \in [Files -> Seq(Page)] /\ punched' \in [Files -> SUBSET Nat]
         /\ \A g \in Files :
              /\ DOMAIN pages'[g] = DOMAIN pages[g] /\ Len(pages'[g]) = Len(pages[g])
              /\ punched'[g] \subseteq DOMAIN pages'[g]
              /\ punched[g] = {} => punched'[g] = {}
              /\ \A o \in DOMAIN pages'[g] : pages'[g][o].tx <= publishes
              /\ \A v : Holds(pages[g], punched[g], v) => Holds(pages'[g], punched'[g], v)
              /\ \A v : Safe(pages[g], punched[g], v) => Safe(pages'[g], punched'[g], v)
         /\ \A v : Holds(pages[f], punched[f], v) => Safe(pages'[f], punched'[f], v)
         /\ \A v \in View : Tail1(pages["image"], v, publishes) =>
                              Tail1(pages'["image"], v, publishes)
<1> DEFINE p == pages[f]
           u == punched[f]
           q == SyncOf(p, u)
<1>1. /\ pages \in [Files -> Seq(Page)] /\ punched \in [Files -> SUBSET Nat]
      /\ p \in Seq(Page) /\ u \in SUBSET Nat /\ publishes \in Nat
  BY Facts DEF ManifestInv, TypeInv
<1>2. Synced(f) = q
  BY DEF Synced, SyncOf, Present, In
<1>3. /\ q \in Seq(Page) /\ Len(q) = Len(p) /\ DOMAIN q = DOMAIN p
      /\ \A o \in DOMAIN p : (SamePage(p, q, o) \/ q[o] = Hole)
  BY <1>1, SyncIs
<1>4. /\ pages' \in [Files -> Seq(Page)] /\ punched' \in [Files -> SUBSET Nat]
      /\ pages'[f] = q /\ punched'[f] = {}
      /\ \A g \in Files \ {f} : pages'[g] = pages[g] /\ punched'[g] = punched[g]
  <2> HIDE DEF q
  <2> QED BY <1>1, <1>2, <1>3
<1>5. /\ \A g \in Files : punched[g] \subseteq DOMAIN pages[g]
      /\ \A g \in Files : \A o \in DOMAIN pages[g] : pages[g][o].tx <= publishes
  BY DEF ManifestInv, BoundInv
<1>6. \A v : Holds(p, u, v) => Safe(q, {}, v)
  BY <1>1, SyncKeeps
<1>7. \A o \in DOMAIN q : q[o].tx <= publishes
  <2> HIDE DEF q
  <2> QED BY <1>1, <1>3, <1>5, Built DEF SamePage
<1>8. ASSUME NEW v \in View, Tail1(pages["image"], v, publishes)
      PROVE  Tail1(pages'["image"], v, publishes)
  <2>1. CASE f = "image"
    <3>1. Thinner(p, q)
      BY <1>3, Built DEF Thinner
    <3> HIDE DEF q
    <3>2. Tail1(q, v, publishes)
      BY <1>1, <1>3, <1>8, <2>1, <3>1, ThinTail
    <3> QED BY <1>4, <2>1, <3>2
  <2>2. CASE f # "image"
    BY <1>4, <1>8, <2>2 DEF Files
  <2> QED BY <2>1, <2>2
<1> HIDE DEF q
<1>9. \A v : Holds(p, u, v) => Holds(q, {}, v)
  BY <1>6 DEF Safe
<1>10. \A v : Safe(p, u, v) => Safe(q, {}, v)
  BY <1>6 DEF Safe
<1>11. ASSUME NEW g \in Files
       PROVE  /\ DOMAIN pages'[g] = DOMAIN pages[g] /\ Len(pages'[g]) = Len(pages[g])
              /\ punched'[g] \subseteq DOMAIN pages'[g]
              /\ punched[g] = {} => punched'[g] = {}
              /\ \A o \in DOMAIN pages'[g] : pages'[g][o].tx <= publishes
              /\ \A v : Holds(pages[g], punched[g], v) => Holds(pages'[g], punched'[g], v)
              /\ \A v : Safe(pages[g], punched[g], v) => Safe(pages'[g], punched'[g], v)
  <2>1. CASE g = f
    BY <1>3, <1>4, <1>7, <1>9, <1>10, <2>1
  <2>2. CASE g # f
    BY <1>4, <1>5, <2>2
  <2> QED BY <2>1, <2>2
<1> QED BY <1>4, <1>6, <1>8, <1>11

\* The output is synced before the new view is returned.
LEMMA FinishPublishInv == ASSUME ManifestInv, FinishPublish PROVE ManifestInv'
<1> USE DEF ManifestInv
<1>1. /\ mode = "serving" /\ job.kind = "publish" /\ promised' = job.view
      /\ pages' = [pages EXCEPT !["image"] = Synced("image")]
      /\ punched' = [punched EXCEPT !["image"] = {}]
      /\ owner' = [owner EXCEPT !["image"] = job.view]
      /\ failed' = [failed EXCEPT !["image"] = FALSE]
      /\ job' = [job EXCEPT !.kind = "install"]
      /\ UNCHANGED <<catalog, mode, base, readers, publishes, crashes>>
  BY DEF FinishPublish, SyncOutput, counts
<1>2. "image" \in Files /\ "snap" \in Files
  BY DEF Files
<1>3. /\ Holds(pages["image"], punched["image"], job.view)
      /\ job.view.end = Len(pages["image"]) /\ job.view.end > promised.end
  BY <1>1 DEF JobInv
<1>4. /\ pages' \in [Files -> Seq(Page)] /\ punched' \in [Files -> SUBSET Nat]
      /\ \A g \in Files : /\ Len(pages'[g]) = Len(pages[g])
                          /\ punched'[g] \subseteq DOMAIN pages'[g]
                          /\ punched[g] = {} => punched'[g] = {}
                          /\ \A o \in DOMAIN pages'[g] : pages'[g][o].tx <= publishes
      /\ \A v : Holds(pages["image"], punched["image"], v) =>
                  Safe(pages'["image"], punched'["image"], v)
      /\ \A v : Safe(pages["snap"], punched["snap"], v) =>
                  Safe(pages'["snap"], punched'["snap"], v)
  BY <1>1, <1>2, SyncStep
<1>5. /\ owner' \in [Files -> View] /\ owner'["image"] = job.view
      /\ owner'["snap"] = owner["snap"]
  BY <1>1, Facts DEF TypeInv, Files
<1>6. failed' \in [Files -> BOOLEAN]
  <2>1. ASSUME NEW b \in BOOLEAN
        PROVE  [failed EXCEPT !["image"] = b] \in [Files -> BOOLEAN]
    BY DEF TypeInv
  <2> QED BY <1>1, <2>1
<1>7. job' \in JobType /\ job'.kind = "install" /\ job'.view = job.view
  BY <1>1 DEF TypeInv, JobType
<1>8. TypeInv'
  BY <1>1, <1>4, <1>5, <1>6, <1>7, Facts DEF TypeInv
<1>9. BoundInv'
  <2>1. \A f \in Files : WellFormed(owner'[f], publishes')
    BY <1>1, <1>5, Facts DEF Files
  <2> QED BY <1>1, <1>4, <1>7, <2>1, Facts DEF BoundInv
<1>10. job.view.end >= 1 /\ job.view.end \in Nat /\ promised.end \in Nat
  <2>1. job.view.end \in Nat /\ promised.end \in Nat
    BY Facts DEF View
  <2> QED BY <1>3, <2>1
<1>11. PromiseInv'
  <2>1. Safe(pages'["image"], punched'["image"], promised')
    BY <1>1, <1>3, <1>4
  <2>2. Len(pages'["image"]) = promised'.end
    BY <1>1, <1>2, <1>3, <1>4
  <2> QED BY <1>1, <1>5, <1>10, <2>1, <2>2 DEF PromiseInv, Open
<1>12. TailInv'
  <2>1. \A c \in DOMAIN pages'["image"] : ~(c > promised'.end)
    BY <1>1, <1>2, <1>3, <1>4
  <2> QED BY <2>1 DEF TailInv, Tail1
<1>13. JobInv'
  BY <1>1, <1>7 DEF JobInv
<1>14. SnapInv'
  BY <1>1, <1>2, <1>4, <1>5 DEF SnapInv
<1>15. UseInv'
  <2>1. ASSUME NEW v \in View, Used(v)
        PROVE  v # NoView => /\ Holds(pages'["image"], punched'["image"], v)
                             /\ v.end >= 1 /\ v.end <= promised'.end
    <3>1. v.end \in Nat
      BY DEF View
    <3> QED BY <1>1, <1>3, <1>4, <1>10, <2>1, <3>1 DEF Used, Safe
  <2>2. Used(base)'
    BY <1>1, <2>1, Facts DEF Used, UseInv
  <2>3. \A r \in Readers : Used(readers[r])'
    BY <1>1, <2>1, Facts DEF Used, UseInv
  <2> QED BY <1>1, <2>2, <2>3 DEF UseInv
<1> QED BY <1>8, <1>9, <1>11, <1>12, <1>13, <1>14, <1>15

\* A sync that changes nothing but a file, its failure flag and the job.
LEMMA SyncOnly ==
  ASSUME ManifestInv, NEW f \in Files, NEW b \in BOOLEAN,
         pages' = [pages EXCEPT ![f] = Synced(f)],
         punched' = [punched EXCEPT ![f] = {}], failed' = [failed EXCEPT ![f] = b],
         f = "image" /\ ~b => Len(pages["image"]) = promised.end,
         job' \in JobType, job'.view = NoView, mode = "serving",
         UNCHANGED <<catalog, mode, owner, base, readers, promised, publishes, crashes>>
  PROVE  TypeInv' /\ BoundInv' /\ PromiseInv' /\ TailInv' /\ SnapInv' /\ UseInv'
<1> USE DEF ManifestInv
<1>1. /\ pages' \in [Files -> Seq(Page)] /\ punched' \in [Files -> SUBSET Nat]
      /\ \A g \in Files :
           /\ Len(pages'[g]) = Len(pages[g]) /\ punched'[g] \subseteq DOMAIN pages'[g]
           /\ punched[g] = {} => punched'[g] = {}
           /\ \A o \in DOMAIN pages'[g] : pages'[g][o].tx <= publishes
           /\ \A v : Holds(pages[g], punched[g], v) => Holds(pages'[g], punched'[g], v)
           /\ \A v : Safe(pages[g], punched[g], v) => Safe(pages'[g], punched'[g], v)
      /\ Tail1(pages["image"], promised, publishes) =>
           Tail1(pages'["image"], promised, publishes)
  BY Facts, SyncStep
<1>2. "image" \in Files /\ "snap" \in Files
  BY DEF Files
<1>3. /\ failed' \in [Files -> BOOLEAN]
      /\ failed'["image"] = IF f = "image" THEN b ELSE failed["image"]
  BY <1>2 DEF TypeInv
<1>4. TypeInv'
  BY <1>1, <1>3 DEF TypeInv
<1>5. BoundInv'
  BY <1>1, Facts, NoViewFormed DEF BoundInv
<1>6. PromiseInv'
  BY <1>1, <1>2, <1>3 DEF PromiseInv, Open
<1>7. TailInv'
  BY <1>1 DEF TailInv
<1>8. SnapInv'
  BY <1>1, <1>2 DEF SnapInv
<1>9. UseInv'
  BY <1>1, <1>2 DEF UseInv, Used
<1> QED BY <1>4, <1>5, <1>6, <1>7, <1>8, <1>9

\* The registered roots are captured in one step with the walk.
LEMMA BeginReclaimInv ==
  ASSUME ManifestInv, NEW f \in Files, BeginReclaim(f)
  PROVE  ManifestInv'
<1> USE DEF ManifestInv
<1>1. /\ mode = "serving" /\ owner[f] # NoView /\ Len(pages[f]) = owner[f].end
      /\ failed' = [failed EXCEPT ![f] = TRUE]
      /\ pages' = [pages EXCEPT ![f] = Synced(f)]
      /\ punched' = [punched EXCEPT ![f] = {}]
      /\ job' = [Idle EXCEPT !.kind = "reclaim", !.file = f,
                             !.pins = Pinned(f), !.live = Live(f)]
      /\ UNCHANGED <<catalog, mode, owner, base, readers, promised, publishes, crashes>>
  BY DEF BeginReclaim, Healthy, counts
<1>2. "image" \in Files /\ "snap" \in Files
  BY DEF Files
<1>3. owner["image"] = promised /\ owner["snap"] = catalog
  BY <1>1 DEF PromiseInv, Open, SnapInv
<1>4. Pinned(f) \in SUBSET View
  BY Facts, <1>2 DEF Pinned, Files
<1>5. \A v \in Pinned(f) : PagesOf(v) \in SUBSET Nat
  <2>1. \A v \in View : PagesOf(v) \in SUBSET Nat
    BY DEF View, Roots, PagesOf
  <2> QED BY <1>4, <2>1
<1>6. Live(f) \in SUBSET Nat /\ \A v \in Pinned(f) : PagesOf(v) \subseteq Live(f)
  BY <1>5 DEF Live, PagesOf
<1>7. /\ job'.kind = "reclaim" /\ job'.file = f /\ job'.live = Live(f)
      /\ job'.view = NoView /\ job' \in JobType
  <2>1. /\ job'.kind = "reclaim" /\ job'.file = f /\ job'.live = Live(f)
        /\ job'.view = NoView
    BY <1>1, Built DEF Idle
  <2>2. ASSUME NEW pins \in SUBSET View, NEW live \in SUBSET Nat
        PROVE  [Idle EXCEPT !.kind = "reclaim", !.file = f, !.pins = pins,
                            !.live = live] \in JobType
    BY Built DEF JobType, Idle
  <2> QED BY <1>1, <1>4, <1>6, <2>1, <2>2
<1>8. TypeInv' /\ BoundInv' /\ PromiseInv' /\ TailInv' /\ SnapInv' /\ UseInv'
  <2>1. TRUE \in BOOLEAN
    OBVIOUS
  <2>2. ASSUME NEW b \in BOOLEAN, b, failed' = [failed EXCEPT ![f] = b]
        PROVE  TypeInv' /\ BoundInv' /\ PromiseInv' /\ TailInv' /\ SnapInv' /\ UseInv'
    BY <1>1, <1>7, <2>2, SyncOnly
  <2> QED BY <1>1, <2>1, <2>2
<1>9. Len(pages'[f]) = Len(pages[f])
  BY <1>1, SyncStep
<1>10. JobInv'
  <2>1. CASE f = "image"
    <3>1. /\ promised \in Pinned(f) /\ base \in Pinned(f)
          /\ \A r \in Readers : readers[r] # NoView => readers[r] \in Pinned(f)
      BY <1>1, <1>3, <2>1 DEF Pinned, UseInv
    <3>2. failed'["image"]
      BY <1>1, <2>1, <1>2 DEF TypeInv
    <3> QED BY <1>1, <1>3, <1>6, <1>7, <1>9, <2>1, <3>1, <3>2 DEF JobInv
  <2>2. CASE f = "snap"
    <3>1. catalog \in Pinned(f) /\ catalog # NoView
      BY <1>1, <1>3, <2>2 DEF Pinned
    <3> QED BY <1>1, <1>6, <1>7, <2>2, <3>1 DEF JobInv
  <2> QED BY <2>1, <2>2 DEF Files
<1> QED BY <1>8, <1>10

\* Only pages no captured root needs are punched.
LEMMA PunchInv == ASSUME ManifestInv, NEW o, Punch(o) PROVE ManifestInv'
<1> USE DEF ManifestInv
<1> DEFINE f == job.file
<1>1. /\ mode = "serving" /\ job.kind = "reclaim" /\ o \in DOMAIN pages[f]
      /\ o \notin job.live /\ punched' = [punched EXCEPT ![f] = @ \cup {o}]
      /\ UNCHANGED <<pages, catalog, mode, owner, failed, base, job, readers, promised,
                     publishes, crashes>>
  BY DEF Punch, Dead, counts
<1>2. f \in Files /\ "image" \in Files /\ "snap" \in Files
  BY DEF TypeInv, JobType, Files
<1>3. /\ punched' \in [Files -> SUBSET Nat]
      /\ punched'[f] = punched[f] \cup {o}
      /\ \A g \in Files \ {f} : punched'[g] = punched[g]
  BY <1>1, <1>2 DEF TypeInv
<1>4. \A v : PagesOf(v) \subseteq job.live =>
        /\ Holds(pages[f], punched[f], v) => Holds(pages[f], punched'[f], v)
        /\ Safe(pages[f], punched[f], v) => Safe(pages[f], punched'[f], v)
  <2> SUFFICES ASSUME NEW v, PagesOf(v) \subseteq job.live
               PROVE  /\ Holds(pages[f], punched[f], v) => Holds(pages[f], punched'[f], v)
                      /\ Safe(pages[f], punched[f], v) => Safe(pages[f], punched'[f], v)
    OBVIOUS
  <2>1. \A x \in PagesOf(v) : x # o
    BY <1>1
  <2> HIDE DEF f
  <2>2. Holds(pages[f], punched[f], v) => Holds(pages[f], punched'[f], v)
    BY <1>3, <2>1 DEF Holds, In, PagesOf
  <2> QED BY <2>2 DEF Safe
<1>5. TypeInv'
  BY <1>1, <1>3 DEF TypeInv
<1>6. BoundInv'
  <2>1. \A g \in Files : punched'[g] \subseteq DOMAIN pages'[g]
    BY <1>1, <1>2, <1>3 DEF BoundInv
  <2> QED BY <1>1, <2>1 DEF BoundInv
<1>7. TailInv'
  BY <1>1 DEF TailInv
<1>8. CASE f = "image"
  <2>1. /\ PagesOf(promised) \subseteq job.live /\ failed["image"]
        /\ PagesOf(base) \subseteq job.live
        /\ \A r \in Readers : readers[r] # NoView => PagesOf(readers[r]) \subseteq job.live
    BY <1>1, <1>8 DEF JobInv
  <2>2. PromiseInv'
    BY <1>1, <1>4, <1>8, <2>1 DEF PromiseInv, Open
  <2>3. punched'["snap"] = punched["snap"]
    BY <1>2, <1>3, <1>8
  <2>4. SnapInv' /\ JobInv'
    BY <1>1, <1>8, <2>3 DEF SnapInv, JobInv
  <2>5. UseInv'
    BY <1>1, <1>4, <1>8, <2>1 DEF UseInv, Used
  <2> QED BY <1>5, <1>6, <1>7, <2>2, <2>4, <2>5
<1>9. CASE f = "snap"
  <2>1. catalog # NoView /\ PagesOf(catalog) \subseteq job.live
    BY <1>1, <1>9 DEF JobInv
  <2>2. punched'["image"] = punched["image"]
    BY <1>2, <1>3, <1>9
  <2>3. PromiseInv' /\ UseInv'
    BY <1>1, <2>2 DEF PromiseInv, Open, UseInv, Used
  <2>4. SnapInv'
    BY <1>1, <1>4, <1>9, <2>1 DEF SnapInv
  <2>5. JobInv'
    BY <1>1, <1>9, <2>1, <2>2 DEF JobInv
  <2> QED BY <1>5, <1>6, <1>7, <2>3, <2>4, <2>5
<1> QED BY <1>2, <1>8, <1>9 DEF Files

\* The last sync makes the holes durable.
LEMMA FinishReclaimInv == ASSUME ManifestInv, FinishReclaim PROVE ManifestInv'
<1> USE DEF ManifestInv
<1>1. /\ mode = "serving" /\ job.kind = "reclaim" /\ job' = Idle
      /\ pages' = [pages EXCEPT ![job.file] = Synced(job.file)]
      /\ punched' = [punched EXCEPT ![job.file] = {}]
      /\ failed' = [failed EXCEPT ![job.file] = FALSE]
      /\ UNCHANGED <<catalog, mode, owner, base, readers, promised, publishes, crashes>>
  BY DEF FinishReclaim, counts
<1>2. PICK f \in Files : f = job.file
  BY DEF TypeInv, JobType
<1>3. f = "image" => Len(pages["image"]) = promised.end
  BY <1>1, <1>2 DEF JobInv
<1>4. job' \in JobType /\ job'.view = NoView /\ JobInv'
  BY <1>1, Built, IdleJob
<1>5. FALSE \in BOOLEAN
  OBVIOUS
<1>6. ASSUME NEW b \in BOOLEAN, failed' = [failed EXCEPT ![f] = b]
      PROVE  TypeInv' /\ BoundInv' /\ PromiseInv' /\ TailInv' /\ SnapInv' /\ UseInv'
  BY <1>1, <1>2, <1>3, <1>4, <1>6, SyncOnly
<1>7. TypeInv' /\ BoundInv' /\ PromiseInv' /\ TailInv' /\ SnapInv' /\ UseInv'
  BY <1>1, <1>2, <1>5, <1>6
<1> QED BY <1>4, <1>7

-----------------------------------------------------------------------------
(* Steps that write pages.                                                 *)

\* A transaction writes behind the promised view, in a file that ends there.
LEMMA BeginPublishInv ==
  ASSUME ManifestInv, NEW keep \in SUBSET DOMAIN owner["image"].root,
         NEW n \in 0..MaxPages, BeginPublish(keep, n)
  PROVE  ManifestInv'
<1> USE DEF ManifestInv
<1> DEFINE v == Edited(keep, n)
           p == pages["image"]
           u == punched["image"]
           e == promised.end
           q == Written(v, e)
<1>1. /\ mode = "serving" /\ ~failed["image"] /\ publishes < MaxPublishes
      /\ owner["image"] = promised
  BY DEF BeginPublish, Healthy, PromiseInv, Open
<1>2. /\ pages' = [pages EXCEPT !["image"] = q]
      /\ job' = [Idle EXCEPT !.kind = "publish", !.view = v]
      /\ failed' = [failed EXCEPT !["image"] = TRUE]
      /\ publishes' = publishes + 1
      /\ UNCHANGED <<punched, catalog, mode, owner, base, readers, promised, crashes>>
  BY <1>1 DEF BeginPublish
<1>3. "image" \in Files /\ "snap" \in Files
  BY DEF Files
<1>4. /\ p \in Seq(Page) /\ u \in SUBSET Nat /\ e \in Nat /\ e >= 1 /\ n \in Nat
      /\ Len(p) = e /\ publishes \in Nat /\ promised \in View /\ u \subseteq 1..e
      /\ promised.gen \in Nat
  <2>1. /\ p \in Seq(Page) /\ u \in SUBSET Nat /\ publishes \in Nat /\ promised \in View
        /\ e \in Nat /\ promised.gen \in Nat
    BY Facts DEF View
  <2>2. e >= 1 /\ Len(p) = e
    BY <1>1 DEF PromiseInv, Open
  <2>3. u \subseteq DOMAIN p
    BY <1>3 DEF BoundInv
  <2>4. n \in Nat
    BY ManifestAssumption
  <2>5. DOMAIN p = 1..e
    BY <2>1, <2>2
  <2> QED BY <2>1, <2>2, <2>3, <2>4, <2>5
<1>5. /\ DOMAIN promised.root \subseteq 1..e - 1
      /\ \A o \in DOMAIN promised.root : promised.root[o] \in 1..publishes
  BY Facts DEF WellFormed
<1>6. keep \subseteq DOMAIN promised.root
  BY <1>1
<1>7. /\ v.tx = publishes + 1 /\ v.gen = promised.gen + 1 /\ v.end = e + n + 1
      /\ DOMAIN v.root = keep \cup (e + 1 .. e + n)
      /\ \A o \in DOMAIN v.root :
           v.root[o] = IF o \in keep THEN promised.root[o] ELSE publishes + 1
  BY <1>1 DEF Edited
<1>8. v \in View
  <2> DEFINE root == [o \in keep \cup (e + 1 .. e + n) |->
                        IF o \in keep THEN promised.root[o] ELSE publishes + 1]
             D == keep \cup (e + 1 .. e + n)
  <2>1. D \subseteq Nat
    BY <1>4, <1>5, <1>6
  <2>2. \A o \in D : (IF o \in keep THEN promised.root[o] ELSE publishes + 1) \in Nat
    BY <1>4, <1>5, <1>6
  <2>3. root \in [D -> Nat]
    BY <2>2
  <2>4. root \in Roots
    BY <2>1, <2>3 DEF Roots
  <2>5. v = [tx |-> publishes + 1, gen |-> promised.gen + 1, end |-> e + n + 1,
             root |-> root]
    BY <1>1 DEF Edited
  <2> HIDE DEF root, v
  <2> QED BY <1>4, <2>4, <2>5 DEF View
<1> HIDE DEF v
<1>9. q = [o \in 1..v.end |-> IF o \in e + 1 .. v.end - 1 THEN TreePage(v.tx)
                              ELSE IF o = v.end THEN CommitPage(v) ELSE p[o]]
  BY <1>4, <1>7 DEF Written
<1> HIDE DEF q
<1>10. /\ \A o \in 1..e : q[o] = p[o]
       /\ \A o \in e + 1 .. v.end - 1 : q[o] = TreePage(v.tx)
       /\ q[v.end] = CommitPage(v) /\ DOMAIN q = 1..v.end
       /\ v.end \in Nat /\ v.end > e
  <2>1. v.end \in Nat /\ v.end > e
    BY <1>4, <1>7
  <2>2. DOMAIN q = 1..v.end
    BY <1>9
  <2>3. ASSUME NEW o \in 1..e PROVE q[o] = p[o]
    <3>1. o \in 1..v.end /\ o \notin e + 1 .. v.end - 1 /\ o # v.end
      BY <1>4, <2>1
    <3> QED BY <1>9, <3>1
  <2>4. ASSUME NEW o \in e + 1 .. v.end - 1 PROVE q[o] = TreePage(v.tx)
    <3>1. o \in 1..v.end
      BY <1>4, <2>1
    <3> QED BY <1>9, <3>1
  <2>5. q[v.end] = CommitPage(v)
    <3>1. v.end \in 1..v.end /\ v.end \notin e + 1 .. v.end - 1
      BY <1>4, <2>1
    <3> QED BY <1>9, <3>1
  <2> QED BY <2>1, <2>2, <2>3, <2>4, <2>5
<1>11. \A o \in 1..v.end : q[o] \in Page
  <2> SUFFICES ASSUME NEW o \in 1..v.end PROVE q[o] \in Page
    OBVIOUS
  <2>1. o \in 1..e \/ o \in e + 1 .. v.end - 1 \/ o = v.end
    BY <1>4, <1>10
  <2>2. v.tx \in Nat
    BY <1>4, <1>7
  <2>3. \A x \in 1..e : p[x] \in Page
    BY <1>4
  <2> QED BY <1>8, <1>10, <2>1, <2>2, <2>3, Built
<1>12. q \in Seq(Page) /\ Len(q) = v.end
  <2>1. q \in [1..v.end -> Page]
    BY <1>9, <1>10, <1>11
  <2> QED BY <1>10, <2>1
<1>13. /\ pages' \in [Files -> Seq(Page)] /\ pages'["image"] = q
       /\ pages'["snap"] = pages["snap"]
  BY <1>2, <1>12 DEF TypeInv, Files
<1>14. failed' \in [Files -> BOOLEAN] /\ failed'["image"]
  <2>1. ASSUME NEW b \in BOOLEAN
        PROVE  [failed EXCEPT !["image"] = b] \in [Files -> BOOLEAN]
    BY DEF TypeInv
  <2> QED BY <1>2, <1>3, <2>1 DEF TypeInv
<1>15. job' \in JobType /\ job'.kind = "publish" /\ job'.view = v
  BY <1>2, <1>8, Built DEF JobType, Idle
<1>16. publishes' \in Nat /\ publishes' \in 0..MaxPublishes /\ publishes <= publishes'
  BY <1>1, <1>2, <1>4, ManifestAssumption
<1>17. TypeInv'
  BY <1>2, <1>13, <1>14, <1>15, <1>16 DEF TypeInv
<1>18. WellFormed(v, publishes')
  <2> SUFFICES ASSUME NEW o \in DOMAIN v.root
               PROVE  o \in 1..v.end - 1 /\ v.root[o] \in 1..publishes + 1
    BY <1>2 DEF WellFormed
  <2>1. CASE o \in keep
    <3>1. o \in 1..e - 1 /\ promised.root[o] \in 1..publishes
      BY <1>5, <1>6, <2>1
    <3> QED BY <1>4, <1>7, <2>1, <3>1, SMTT(30)
  <2>2. CASE o \notin keep
    BY <1>4, <1>7, <2>2, SMTT(30)
  <2> QED BY <2>1, <2>2
<1>19. BoundInv'
  <2>1. \A w : WellFormed(w, publishes) => WellFormed(w, publishes')
    BY <1>4, <1>16, StaysFormed
  <2>2. \A f \in Files : punched'[f] \subseteq DOMAIN pages'[f]
    <3>1. u \subseteq DOMAIN q
      BY <1>4, <1>10
    <3> QED BY <1>2, <1>13, <3>1 DEF BoundInv, Files
  <2>3. \A o \in DOMAIN q : q[o].tx <= publishes'
    <3> SUFFICES ASSUME NEW o \in DOMAIN q PROVE q[o].tx <= publishes'
      OBVIOUS
    <3>1. o \in 1..e \/ o \in e + 1 .. v.end - 1 \/ o = v.end
      BY <1>4, <1>10
    <3>2. CASE o \in 1..e
      <4>1. p[o] \in Page /\ o \in DOMAIN p
        BY <1>4, <3>2
      <4>2. p[o].tx <= publishes /\ p[o].tx \in Nat
        BY <1>3, <4>1 DEF BoundInv, Page
      <4> QED BY <1>4, <1>10, <1>16, <3>2, <4>2
    <3>3. CASE o \in e + 1 .. v.end - 1 \/ o = v.end
      <4>1. q[o].tx = v.tx
        BY <1>4, <1>7, <1>8, <1>10, <3>3, Built
      <4> QED BY <1>2, <1>4, <1>7, <4>1
    <3> QED BY <3>1, <3>2, <3>3
  <2>4. \A f \in Files : \A o \in DOMAIN pages'[f] : pages'[f][o].tx <= publishes'
    <3> SUFFICES ASSUME NEW o \in DOMAIN pages["snap"]
                 PROVE  pages["snap"][o].tx <= publishes'
      BY <1>13, <2>3 DEF Files
    <3>1. pages["snap"][o] \in Page
      BY Facts
    <3>2. pages["snap"][o].tx <= publishes /\ pages["snap"][o].tx \in Nat
      BY <1>3, <3>1 DEF BoundInv, Page
    <3> QED BY <1>4, <1>16, <3>2
  <2>5. \A f \in Files : WellFormed(owner'[f], publishes')
    BY <1>2, <2>1, Facts DEF Files
  <2> QED BY <1>2, <1>15, <1>18, <2>1, <2>2, <2>4, <2>5, Facts DEF BoundInv
<1>20. \A w \in View : w.end <= e /\ Holds(p, u, w) /\ WellFormed(w, publishes) =>
         Holds(q, u, w) /\ (Safe(p, u, w) => Safe(q, u, w))
  <2> SUFFICES ASSUME NEW w \in View, w.end <= e, Holds(p, u, w),
                      WellFormed(w, publishes)
               PROVE  Holds(q, u, w) /\ (Safe(p, u, w) => Safe(q, u, w))
    OBVIOUS
  <2>1. \A o \in PagesOf(w) : o \in 1..e
    <3>1. w.end \in DOMAIN p
      BY DEF Holds, In
    <3> QED BY <1>4, <3>1 DEF PagesOf, WellFormed, View
  <2>2. \A o \in PagesOf(w) : q[o] = p[o] /\ o \in DOMAIN q
    BY <1>4, <1>10, <2>1
  <2>3. Holds(q, u, w)
    BY <2>2 DEF Holds, In, PagesOf
  <2> QED BY <2>2, <2>3 DEF Safe
<1>21. PromiseInv'
  <2>1. Safe(q, u, promised)
    BY <1>4, <1>20, Facts DEF PromiseInv, Safe
  <2> QED BY <1>1, <1>2, <1>13, <1>14, <2>1 DEF PromiseInv, Open
<1>22. Holds(q, u, v)
  <2>1. In(q, u, v.end) /\ q[v.end].kind = "commit" /\ q[v.end].tx = v.tx
    BY <1>4, <1>8, <1>10, Built DEF In
  <2>2. q[v.end].gen = v.gen /\ q[v.end].root = v.root
    BY <1>8, <1>10, Built
  <2>3. ASSUME NEW o \in DOMAIN v.root
        PROVE  In(q, u, o) /\ q[o].kind = "tree" /\ q[o].tx = v.root[o]
    <3>1. CASE o \in keep
      <4>1. o \in DOMAIN promised.root /\ o \in 1..e /\ v.root[o] = promised.root[o]
        BY <1>4, <1>5, <1>6, <1>7, <3>1
      <4>2. In(p, u, o) /\ p[o].kind = "tree" /\ p[o].tx = promised.root[o]
        BY <4>1 DEF PromiseInv, Safe, Holds
      <4> QED BY <1>4, <1>10, <4>1, <4>2 DEF In
    <3>2. CASE o \notin keep
      <4>1. o \in e + 1 .. v.end - 1 /\ v.root[o] = v.tx
        BY <1>4, <1>7, <3>2
      <4>2. q[o].kind = "tree" /\ q[o].tx = v.tx /\ o \notin u /\ o \in DOMAIN q
        BY <1>4, <1>7, <1>10, <4>1, Built, SMTT(30)
      <4> QED BY <4>1, <4>2 DEF In
    <3> QED BY <3>1, <3>2
  <2> QED BY <2>1, <2>2, <2>3 DEF Holds
<1>23. TailInv'
  <2>1. \A c \in DOMAIN q : c > e /\ q[c].kind = "commit" => c = v.end
    <3> SUFFICES ASSUME NEW c \in DOMAIN q, c > e, c # v.end PROVE q[c].kind # "commit"
      OBVIOUS
    <3>1. c \in e + 1 .. v.end - 1 /\ v.tx \in Nat
      BY <1>4, <1>7, <1>10
    <3> QED BY <1>10, <3>1, Built
  <2>2. q[v.end].gen = promised.gen + 1 /\ q[v.end].root = v.root
    BY <1>7, <1>22 DEF Holds
  <2>3. ASSUME NEW o \in DOMAIN v.root
        PROVE  /\ o \in 1..v.end - 1 /\ v.root[o] \in 1..publishes'
               /\ o <= e => o \in DOMAIN promised.root /\ promised.root[o] = v.root[o]
               /\ q[o].tx = v.root[o]
    <3>1. o \in 1..v.end - 1 /\ v.root[o] \in 1..publishes'
      BY <1>18 DEF WellFormed
    <3>2. o <= e => o \in keep
      BY <1>4, <1>7
    <3> QED BY <1>6, <1>7, <1>22, <3>1, <3>2 DEF Holds
  <2>4. Tail1(q, promised, publishes')
    BY <2>1, <2>2, <2>3 DEF Tail1
  <2> QED BY <1>2, <1>13, <2>4 DEF TailInv
<1>24. JobInv'
  BY <1>1, <1>2, <1>10, <1>12, <1>13, <1>14, <1>15, <1>22 DEF JobInv
<1>25. SnapInv'
  BY <1>2, <1>13 DEF SnapInv
<1>26. UseInv'
  <2>1. Used(base)'
    BY <1>2, <1>13, <1>20, Facts DEF UseInv, Used
  <2>2. \A r \in Readers : Used(readers[r])'
    BY <1>2, <1>13, <1>20, Facts DEF UseInv, Used
  <2> QED BY <1>2, <2>1, <2>2 DEF UseInv
<1> QED BY <1>17, <1>19, <1>21, <1>23, <1>24, <1>25, <1>26

\* The reflink copies the view that is current, and nothing behind it.
LEMMA BeginSnapshotInv == ASSUME ManifestInv, BeginSnapshot PROVE ManifestInv'
<1> USE DEF ManifestInv
<1> DEFINE v == promised
           p == pages["image"]
           u == punched["image"]
           q == Copied(v)
<1>1. /\ mode = "serving" /\ catalog = NoView /\ owner["image"] = promised
      /\ pages' = [pages EXCEPT !["snap"] = q]
      /\ job' = [Idle EXCEPT !.kind = "copied", !.file = "snap", !.view = v]
      /\ UNCHANGED <<punched, catalog, mode, owner, failed, base, readers, promised,
                     publishes, crashes>>
  BY DEF BeginSnapshot, Healthy, counts, PromiseInv, Open
<1>2. "image" \in Files /\ "snap" \in Files
  BY DEF Files
<1>3. /\ p \in Seq(Page) /\ v \in View /\ v.end \in Nat /\ v.end >= 1 /\ Holds(p, u, v)
      /\ publishes \in Nat /\ DOMAIN v.root \subseteq 1..v.end - 1
  BY Facts DEF View, PromiseInv, Safe, WellFormed
<1>4. v.end \in DOMAIN p
  BY <1>3 DEF Holds, In
<1>5. 1..v.end \subseteq DOMAIN p
  BY <1>3, <1>4
<1>6. /\ DOMAIN q = 1..v.end
      /\ \A o \in 1..v.end : q[o] = IF In(p, u, o) THEN [p[o] EXCEPT !.st = "issued"]
                                                   ELSE Hole
  BY DEF Copied, Present, In
<1>7. q = [o \in 1..v.end |-> q[o]]
  BY DEF Copied
<1> HIDE DEF q
<1>8. ASSUME NEW o \in 1..v.end
      PROVE  /\ q[o] \in Page /\ q[o].tx <= publishes
             /\ In(p, u, o) => SamePage(p, q, o)
  <2>1. p[o] \in Page /\ p[o].tx <= publishes
    BY <1>2, <1>3, <1>5 DEF BoundInv
  <2>2. CASE In(p, u, o)
    <3>1. q[o] = [p[o] EXCEPT !.st = "issued"]
      BY <1>6, <2>2
    <3> QED BY <2>1, <3>1 DEF Page, SamePage
  <2>3. CASE ~In(p, u, o)
    <3>1. q[o] = Hole
      BY <1>6, <2>3
    <3> QED BY <1>3, <2>3, <3>1, Built
  <2> QED BY <2>2, <2>3
<1>9. q \in Seq(Page) /\ Len(q) = v.end
  <2>1. q \in [1..v.end -> Page]
    BY <1>7, <1>8
  <2> QED BY <1>3, <2>1
<1>10. punched["snap"] = {}
  BY <1>1 DEF SnapInv
<1>11. Holds(q, {}, v)
  <2>1. \A o \in PagesOf(v) : o \in 1..v.end
    BY <1>3 DEF PagesOf
  <2>2. \A o \in PagesOf(v) : In(p, u, o) => o \in DOMAIN q /\ o \notin {}
                                               /\ SamePage(p, q, o)
    BY <1>6, <1>8, <2>1
  <2> HIDE DEF v, p, u
  <2> QED BY <1>3, <2>2, HoldsKept
<1>12. /\ pages' \in [Files -> Seq(Page)] /\ pages'["snap"] = q
       /\ pages'["image"] = pages["image"]
  BY <1>1, <1>9 DEF TypeInv, Files
<1>13. job' \in JobType /\ job'.kind = "copied" /\ job'.view = v
  <2>1. ASSUME NEW w \in View
        PROVE  [Idle EXCEPT !.kind = "copied", !.file = "snap", !.view = w] \in JobType
    BY Built DEF JobType, Idle, Files
  <2> QED BY <1>1, <1>3, <2>1 DEF Idle
<1>14. TypeInv'
  BY <1>1, <1>12, <1>13 DEF TypeInv
<1>15. BoundInv'
  <2>1. \A f \in Files : punched'[f] \subseteq DOMAIN pages'[f]
    BY <1>1, <1>10, <1>12 DEF BoundInv, Files
  <2>2. \A f \in Files : \A o \in DOMAIN pages'[f] : pages'[f][o].tx <= publishes'
    BY <1>1, <1>6, <1>8, <1>12 DEF BoundInv, Files
  <2> QED BY <1>1, <1>13, <2>1, <2>2, Facts DEF BoundInv
<1>16. PromiseInv' /\ TailInv' /\ UseInv'
  BY <1>1, <1>12 DEF PromiseInv, Open, TailInv, UseInv, Used
<1>17. JobInv'
  BY <1>1, <1>3, <1>9, <1>10, <1>11, <1>12, <1>13 DEF JobInv
<1>18. SnapInv'
  BY <1>1 DEF SnapInv
<1> QED BY <1>14, <1>15, <1>16, <1>17, <1>18

\* The copy is synced before the catalog names it.
LEMMA SyncSnapshotInv == ASSUME ManifestInv, SyncSnapshot PROVE ManifestInv'
<1> USE DEF ManifestInv
<1>1. /\ mode = "serving" /\ job.kind = "copied"
      /\ pages' = [pages EXCEPT !["snap"] = Synced("snap")]
      /\ job' = [job EXCEPT !.kind = "synced"]
      /\ UNCHANGED <<punched, catalog, mode, owner, failed, base, readers, promised,
                     publishes, crashes>>
  BY DEF SyncSnapshot, SyncCopy, counts
<1>2. "image" \in Files /\ "snap" \in Files
  BY DEF Files
<1>3. /\ Holds(pages["snap"], punched["snap"], job.view) /\ catalog = NoView
      /\ Len(pages["snap"]) = job.view.end /\ job.view.end >= 1
  BY <1>1 DEF JobInv
<1>4. punched["snap"] = {}
  BY <1>3 DEF SnapInv
<1>5. punched' = [punched EXCEPT !["snap"] = {}]
  BY <1>1, <1>4 DEF TypeInv
<1>6. /\ pages' \in [Files -> Seq(Page)]
      /\ \A g \in Files :
           /\ Len(pages'[g]) = Len(pages[g]) /\ punched'[g] \subseteq DOMAIN pages'[g]
           /\ \A o \in DOMAIN pages'[g] : pages'[g][o].tx <= publishes
      /\ Safe(pages'["snap"], punched'["snap"], job.view)
  BY <1>1, <1>2, <1>3, <1>5, SyncStep
<1>7. pages'["image"] = pages["image"]
  BY <1>1 DEF TypeInv, Files
<1>8. job' \in JobType /\ job'.kind = "synced" /\ job'.view = job.view
  BY <1>1 DEF TypeInv, JobType
<1>9. TypeInv'
  BY <1>1, <1>6, <1>8 DEF TypeInv
<1>10. BoundInv'
  BY <1>1, <1>6, <1>8, Facts DEF BoundInv
<1>11. PromiseInv' /\ TailInv' /\ UseInv'
  BY <1>1, <1>7 DEF PromiseInv, Open, TailInv, UseInv, Used
<1>12. JobInv'
  BY <1>1, <1>2, <1>3, <1>6, <1>8 DEF JobInv, Safe
<1>13. SnapInv'
  BY <1>1, <1>3 DEF SnapInv
<1> QED BY <1>9, <1>10, <1>11, <1>12, <1>13

-----------------------------------------------------------------------------
(* Crashes and repair.                                                     *)

\* A crash can take or settle a page that was not synced, and no other.
Settled(f, lost, back, power) ==
  [o \in DOMAIN pages[f] |-> Settle(f, o, lost, back, power)]
LEMMA SettledIs ==
  ASSUME ManifestInv, NEW f \in Files, NEW power \in BOOLEAN, NEW lost, NEW back,
         lost \subseteq Issued
  PROVE  /\ Settled(f, lost, back, power) \in Seq(Page)
         /\ Len(Settled(f, lost, back, power)) = Len(pages[f])
         /\ Thinner(pages[f], Settled(f, lost, back, power))
         /\ \A o \in DOMAIN pages[f] : Settled(f, lost, back, power)[o].tx <= publishes
         /\ \A o \in DOMAIN pages[f] : o \notin punched[f] /\ pages[f][o].st = "synced" =>
              /\ SamePage(pages[f], Settled(f, lost, back, power), o)
              /\ Settled(f, lost, back, power)[o].st = "synced"
<1> DEFINE p == pages[f]
           q == Settled(f, lost, back, power)
<1>1. p \in Seq(Page) /\ publishes \in Nat
  BY Facts DEF Files
<1>2. DOMAIN p = 1..Len(p) /\ Len(p) \in Nat
  BY <1>1
<1>3. q = [o \in 1..Len(p) |-> q[o]] /\ DOMAIN q = 1..Len(p)
  BY <1>2 DEF Settled
<1>4. \A o \in DOMAIN p : q[o] = Settle(f, o, lost, back, power)
  BY DEF Settled
<1> HIDE DEF q
<1>5. ASSUME NEW o \in DOMAIN p
      PROVE  /\ q[o] \in Page /\ (q[o] = Hole \/ SamePage(p, q, o))
             /\ q[o].tx <= publishes
             /\ o \notin punched[f] /\ p[o].st = "synced" =>
                  SamePage(p, q, o) /\ q[o].st = "synced"
  <2>1. p[o] \in Page /\ p[o].tx <= publishes
    BY <1>1 DEF ManifestInv, BoundInv
  <2>2. \/ q[o] = Hole /\ (<<f, o>> \in lost \/ o \in punched[f])
        \/ q[o] = [p[o] EXCEPT !.st = "synced"] \/ q[o] = p[o]
    BY <1>4 DEF Settle
  <2>3. <<f, o>> \in lost => p[o].st = "issued"
    BY DEF Issued
  <2>4. CASE q[o] = Hole /\ (<<f, o>> \in lost \/ o \in punched[f])
    BY <1>1, <2>3, <2>4, Built
  <2>5. CASE q[o] = [p[o] EXCEPT !.st = "synced"]
    BY <2>1, <2>5 DEF Page, SamePage
  <2>6. CASE q[o] = p[o]
    BY <2>1, <2>6 DEF SamePage
  <2> QED BY <2>2, <2>4, <2>5, <2>6
<1>6. q \in Seq(Page) /\ Len(q) = Len(p)
  <2>1. q \in [1..Len(p) -> Page]
    BY <1>2, <1>3, <1>5
  <2> QED BY <1>2, <2>1
<1>7. Thinner(p, q)
  BY <1>2, <1>3, <1>5, Built DEF Thinner
<1> QED BY <1>5, <1>6, <1>7 DEF q

\* Whatever instant the process or the host stops at, the promise is there.
LEMMA CrashInv ==
  ASSUME ManifestInv, NEW power \in BOOLEAN, NEW lost, NEW back,
         Crash(power, lost, back)
  PROVE  ManifestInv'
<1> USE DEF ManifestInv
<1> DEFINE s(f) == Settled(f, lost, back, power)
<1>1. /\ lost \subseteq Issued /\ crashes < MaxCrashes /\ mode' = "down"
      /\ crashes' = crashes + 1 /\ job' = Idle
      /\ pages' = [f \in Files |-> IF f \notin Kept THEN <<>> ELSE s(f)]
      /\ punched' = IF power THEN [f \in Files |-> {}] ELSE punched
      /\ owner' = [f \in Files |-> NoView] /\ failed' = [f \in Files |-> TRUE]
      /\ base' = NoView /\ readers' = [r \in Readers |-> NoView]
      /\ UNCHANGED <<catalog, promised, publishes>>
  BY DEF Crash, Settled
<1>2. "image" \in Files /\ "snap" \in Files
  BY DEF Files
<1>3. \A f \in Files : s(f) \in Seq(Page) /\ Len(s(f)) = Len(pages[f])
  BY <1>1, SettledIs
<1>4. \A f \in Files : Thinner(pages[f], s(f))
  BY <1>1, SettledIs
<1>5. \A f \in Files : \A o \in DOMAIN pages[f] : s(f)[o].tx <= publishes
  BY <1>1, SettledIs
<1>6. \A f \in Files : \A o \in DOMAIN pages[f] :
        o \notin punched[f] /\ pages[f][o].st = "synced" =>
          SamePage(pages[f], s(f), o) /\ s(f)[o].st = "synced"
  BY <1>1, SettledIs
<1> HIDE DEF s
<1>7. /\ pages' \in [Files -> Seq(Page)] /\ pages'["image"] = s("image")
      /\ catalog # NoView => pages'["snap"] = s("snap")
      /\ catalog = NoView => pages'["snap"] = <<>>
  <2>1. <<>> \in Seq(Page)
    OBVIOUS
  <2> QED BY <1>1, <1>2, <1>3, <2>1 DEF Kept, Files
<1>8. /\ punched' \in [Files -> SUBSET Nat]
      /\ \A f \in Files : punched'[f] = {} \/ punched'[f] = punched[f]
  <2>1. [f \in Files |-> {}] \in [Files -> SUBSET Nat]
    OBVIOUS
  <2> QED BY <1>1, <2>1 DEF TypeInv
<1>9. ASSUME NEW f \in Files, NEW v, Safe(pages[f], punched[f], v)
      PROVE  Safe(s(f), punched'[f], v)
  <2>1. DOMAIN s(f) = DOMAIN pages[f]
    BY <1>2, <1>3, Facts DEF Files
  <2>2. ASSUME NEW o \in PagesOf(v), In(pages[f], punched[f], o),
               pages[f][o].st = "synced"
        PROVE  /\ o \in DOMAIN s(f) /\ o \notin punched'[f] /\ SamePage(pages[f], s(f), o)
               /\ s(f)[o].st = "synced"
    BY <1>6, <1>8, <2>1, <2>2 DEF In
  <2> DEFINE p == pages[f]
             u == punched[f]
             q == s(f)
             w == punched'[f]
  <2>3. /\ Safe(p, u, v)
        /\ \A o \in PagesOf(v) : In(p, u, o) /\ p[o].st = "synced" =>
             o \in DOMAIN q /\ o \notin w /\ SamePage(p, q, o) /\ q[o].st = "synced"
    BY <1>9, <2>2
  <2> HIDE DEF p, u, q, w
  <2>4. Safe(q, w, v)
    BY <2>3, SafeKept
  <2> QED BY <2>4 DEF q, w
<1>10. TypeInv'
  <2>1. /\ owner' \in [Files -> View] /\ failed' \in [Files -> BOOLEAN]
        /\ readers' \in [Readers -> View] /\ base' \in View
    <3>1. TRUE \in BOOLEAN
      OBVIOUS
    <3>2. \A b \in BOOLEAN : [f \in Files |-> b] \in [Files -> BOOLEAN]
      OBVIOUS
    <3>3. NoView \in View
      BY Built
    <3> HIDE DEF ManifestInv
    <3> QED BY <1>1, <3>1, <3>2, <3>3
  <2>2. crashes' \in 0..MaxCrashes
    BY <1>1, ManifestAssumption DEF TypeInv
  <2> QED BY <1>1, <1>7, <1>8, <2>1, <2>2, IdleJob DEF TypeInv
<1>11. BoundInv'
  <2>1. \A f \in Files : punched'[f] \subseteq DOMAIN pages'[f]
    <3>1. punched'["image"] \subseteq DOMAIN pages'["image"]
      <4>1. DOMAIN s("image") = DOMAIN pages["image"]
        BY <1>2, <1>3, Facts
      <4> QED BY <1>2, <1>7, <1>8, <4>1 DEF BoundInv
    <3>2. punched'["snap"] \subseteq DOMAIN pages'["snap"]
      <4>1. DOMAIN s("snap") = DOMAIN pages["snap"]
        BY <1>2, <1>3, Facts
      <4>2. CASE catalog = NoView
        BY <1>2, <1>8, <4>2 DEF SnapInv
      <4>3. CASE catalog # NoView
        BY <1>2, <1>7, <1>8, <4>1, <4>3 DEF BoundInv
      <4> QED BY <4>2, <4>3
    <3> QED BY <3>1, <3>2 DEF Files
  <2>2. \A f \in Files : \A o \in DOMAIN pages'[f] : pages'[f][o].tx <= publishes'
    <3>1. \A f \in Files : \A o \in DOMAIN s(f) : s(f)[o].tx <= publishes
      <4>1. \A f \in Files : DOMAIN s(f) = DOMAIN pages[f]
        BY <1>3, Facts DEF Files
      <4> QED BY <1>5, <4>1
    <3>2. DOMAIN <<>> = {}
      BY EmptyTree
    <3>3. \A f \in Files : pages'[f] = s(f) \/ pages'[f] = <<>>
      BY <1>1
    <3> QED BY <1>1, <3>1, <3>2, <3>3
  <2>3. /\ \A f \in Files : WellFormed(owner'[f], publishes')
        /\ \A r \in Readers : WellFormed(readers'[r], publishes')
        /\ WellFormed(base', publishes') /\ WellFormed(job'.view, publishes')
    BY <1>1, Facts, NoViewFormed, Built
  <2> QED BY <1>1, <2>1, <2>2, <2>3, Facts DEF BoundInv
<1>12. PromiseInv'
  <2>1. Safe(s("image"), punched'["image"], promised)
    BY <1>2, <1>9 DEF PromiseInv
  <2> QED BY <1>1, <1>2, <1>7, <2>1 DEF PromiseInv, Open
<1>13. TailInv'
  <2> DEFINE p == pages["image"]
             q == s("image")
  <2>1. /\ p \in Seq(Page) /\ q \in Seq(Page) /\ Thinner(p, q)
        /\ Tail1(p, promised, publishes) /\ promised \in View /\ publishes \in Nat
    BY <1>2, <1>3, <1>4, Facts DEF TailInv
  <2> HIDE DEF p, q
  <2>2. Tail1(q, promised, publishes)
    BY <2>1, ThinTail
  <2> QED BY <1>1, <1>7, <2>2 DEF TailInv, q
<1>14. JobInv'
  BY <1>1, IdleJob
<1>15. SnapInv'
  <2>1. catalog # NoView => Safe(s("snap"), punched'["snap"], catalog)
    BY <1>2, <1>9 DEF SnapInv
  <2>2. catalog = NoView => punched'["snap"] = {}
    BY <1>2, <1>8 DEF SnapInv
  <2> QED BY <1>1, <1>2, <1>3, <1>7, <2>1, <2>2 DEF SnapInv
<1>16. UseInv'
  BY <1>1 DEF UseInv, Used
<1> QED BY <1>10, <1>11, <1>12, <1>13, <1>14, <1>15, <1>16

\* What the rejected suffix leaves is the view that was selected.
LEMMA CutIs ==
  ASSUME NEW s \in Seq(Page), NEW e \in Nat, e <= Len(s)
  PROVE  /\ SubSeq(s, 1, e) \in Seq(Page) /\ Len(SubSeq(s, 1, e)) = e
         /\ \A o \in 1..e : SubSeq(s, 1, e)[o] = s[o]
OBVIOUS
LEMMA RecoverInv == ASSUME ManifestInv, NEW f \in Files, Recover(f) PROVE ManifestInv'
<1> USE DEF ManifestInv
<1> DEFINE p == pages[f]
           u == punched[f]
           v == owner[f]
           z == SyncOf(p, u)
           q == SubSeq(z, 1, v.end)
<1>1. /\ mode = "repair" /\ owner[f] # NoView /\ failed[f]
      /\ f = "snap" => ~failed["image"]
      /\ pages' = [pages EXCEPT ![f] = q] /\ punched' = [punched EXCEPT ![f] = {}]
      /\ failed' = [failed EXCEPT ![f] = FALSE]
      /\ promised' = IF f = "image" THEN owner[f] ELSE promised
      /\ UNCHANGED <<catalog, mode, owner, base, job, readers, publishes, crashes>>
  <2>1. Synced(f) = z
    BY DEF Synced, SyncOf, Present, In
  <2> QED BY <2>1 DEF Recover, Cut, counts
<1>2. "image" \in Files /\ "snap" \in Files /\ (f = "image" \/ f = "snap")
  BY DEF Files
<1>3. p \in Seq(Page) /\ u \in SUBSET Nat /\ v \in View /\ publishes \in Nat
  BY <1>2, Facts
<1>4. Holds(p, u, v) /\ v.end >= 1 /\ (f = "snap" => v = catalog)
  BY <1>1, <1>2 DEF PromiseInv, SnapInv, Safe
<1>5. /\ v.end \in Nat /\ v.end \in DOMAIN p /\ v.end <= Len(p)
      /\ DOMAIN v.root \subseteq 1..v.end - 1
  <2>1. v.end \in DOMAIN p
    BY <1>4 DEF Holds, In
  <2>2. WellFormed(v, publishes)
    BY <1>2, Facts
  <2> QED BY <1>3, <2>1, <2>2 DEF View, WellFormed
<1>6. /\ z \in Seq(Page) /\ Len(z) = Len(p) /\ DOMAIN z = DOMAIN p
      /\ \A o \in DOMAIN p : (SamePage(p, z, o) \/ z[o] = Hole)
  BY <1>3, SyncIs
<1>7. Safe(z, {}, v)
  BY <1>3, <1>4, SyncKeeps
<1> HIDE DEF z
<1>8. /\ q \in Seq(Page) /\ Len(q) = v.end /\ DOMAIN q = 1..v.end
      /\ \A o \in 1..v.end : q[o] = z[o]
  BY <1>5, <1>6, CutIs
<1> HIDE DEF q
<1>9. Safe(q, {}, v)
  <2>1. \A o \in PagesOf(v) : o \in 1..v.end
    BY <1>4, <1>5 DEF PagesOf
  <2>2. \A o \in PagesOf(v) : o \in DOMAIN q /\ q[o] = z[o]
    BY <1>8, <2>1
  <2> HIDE DEF v
  <2>3. Holds(q, {}, v)
    BY <1>7, <2>2 DEF Safe, Holds, In, PagesOf
  <2> QED BY <1>7, <2>2, <2>3 DEF Safe
<1>10. \A o \in DOMAIN q : q[o].tx <= publishes
  <2> SUFFICES ASSUME NEW o \in DOMAIN q PROVE q[o].tx <= publishes
    OBVIOUS
  <2>1. o \in DOMAIN p /\ q[o] = z[o]
    BY <1>3, <1>5, <1>8
  <2>2. p[o].tx <= publishes
    BY <2>1 DEF BoundInv
  <2> QED BY <1>3, <1>6, <2>1, <2>2, Built DEF SamePage
<1>11. /\ pages' \in [Files -> Seq(Page)] /\ pages'[f] = q
       /\ punched' \in [Files -> SUBSET Nat] /\ punched'[f] = {}
       /\ \A g \in Files \ {f} : pages'[g] = pages[g] /\ punched'[g] = punched[g]
  BY <1>1, <1>8 DEF TypeInv
<1>12. /\ failed' \in [Files -> BOOLEAN] /\ failed'[f] = FALSE
       /\ \A g \in Files \ {f} : failed'[g] = failed[g]
  <2>1. ASSUME NEW b \in BOOLEAN
        PROVE  [failed EXCEPT ![f] = b] \in [Files -> BOOLEAN]
    BY DEF TypeInv
  <2> QED BY <1>1, <2>1 DEF TypeInv
<1>13. promised' \in View /\ WellFormed(promised', publishes)
  BY <1>1, <1>2, Facts
<1>14. TypeInv'
  BY <1>1, <1>11, <1>12, <1>13 DEF TypeInv
<1>15. BoundInv'
  <2>1. \A g \in Files : punched'[g] \subseteq DOMAIN pages'[g]
    BY <1>11 DEF BoundInv
  <2>2. \A g \in Files : \A o \in DOMAIN pages'[g] : pages'[g][o].tx <= publishes
    BY <1>10, <1>11 DEF BoundInv
  <2> QED BY <1>1, <1>13, <2>1, <2>2 DEF BoundInv
<1>16. job = Idle
  BY <1>1, Facts DEF JobInv, JobType
<1>17. JobInv'
  BY <1>1, <1>16, IdleJob
<1>18. UseInv'
  BY <1>1 DEF UseInv, Used
<1>19. CASE f = "image"
  <2>1. promised' = v /\ pages'["image"] = q /\ punched'["image"] = {}
    BY <1>1, <1>11, <1>19
  <2>2. PromiseInv'
    BY <1>1, <1>4, <1>8, <1>9, <1>12, <1>19, <2>1, ZenonT(60) DEF PromiseInv, Open, Safe
  <2>3. TailInv'
    <3>1. \A c \in DOMAIN q : ~(c > v.end)
      BY <1>5, <1>8
    <3> QED BY <2>1, <3>1 DEF TailInv, Tail1
  <2>4. SnapInv'
    <3>1. pages'["snap"] = pages["snap"] /\ punched'["snap"] = punched["snap"]
      BY <1>2, <1>11, <1>19
    <3> QED BY <1>1, <3>1 DEF SnapInv
  <2> QED BY <1>14, <1>15, <1>17, <1>18, <2>2, <2>3, <2>4
<1>20. CASE f = "snap"
  <2>1. /\ promised' = promised /\ pages'["image"] = pages["image"]
        /\ punched'["image"] = punched["image"] /\ failed'["image"] = failed["image"]
    BY <1>1, <1>2, <1>11, <1>12, <1>20
  <2>2. PromiseInv' /\ TailInv'
    BY <1>1, <2>1 DEF PromiseInv, Open, TailInv
  <2>3. SnapInv'
    BY <1>1, <1>4, <1>8, <1>9, <1>11, <1>20 DEF SnapInv
  <2> QED BY <1>14, <1>15, <1>17, <1>18, <2>2, <2>3
<1> QED BY <1>2, <1>19, <1>20

-----------------------------------------------------------------------------
(* The theorems.                                                           *)

\* A new image is a file of one synced COMMIT.
LEMMA InitInv == ASSUME Init PROVE ManifestInv
<1>1. "image" \in Files /\ "snap" \in Files
  BY DEF Files
<1> DEFINE c == [CommitPage(Initial) EXCEPT !.st = "synced"]
<1>2. /\ pages = [f \in Files |-> IF f = "image" THEN <<c>> ELSE <<>>]
      /\ punched = [f \in Files |-> {}] /\ catalog = NoView /\ mode = "serving"
      /\ owner = [f \in Files |-> IF f = "image" THEN Initial ELSE NoView]
      /\ failed = [f \in Files |-> f # "image"] /\ base = Initial /\ job = Idle
      /\ readers = [r \in Readers |-> NoView] /\ promised = Initial
      /\ publishes = 0 /\ crashes = 0
  BY DEF Init
<1>3. /\ c \in Page /\ c.kind = "commit" /\ c.tx = 0 /\ c.gen = 1
      /\ c.root = Initial.root /\ c.st = "synced"
  BY Built DEF Page, CommitPage, Initial
<1> HIDE DEF c
<1>4. /\ <<c>> \in Seq(Page) /\ Len(<<c>>) = 1 /\ DOMAIN <<c>> = {1} /\ <<c>>[1] = c
      /\ <<>> \in Seq(Page) /\ DOMAIN <<>> = {}
  BY <1>3, EmptyTree
<1>5. /\ pages \in [Files -> Seq(Page)] /\ pages["image"] = <<c>> /\ pages["snap"] = <<>>
      /\ punched \in [Files -> SUBSET Nat] /\ punched["image"] = {}
      /\ punched["snap"] = {} /\ owner["image"] = Initial /\ owner["snap"] = NoView
      /\ failed["image"] = FALSE /\ failed \in [Files -> BOOLEAN]
      /\ owner \in [Files -> View] /\ readers \in [Readers -> View]
  <2>1. pages \in [Files -> Seq(Page)] /\ pages["image"] = <<c>> /\ pages["snap"] = <<>>
    BY <1>1, <1>2, <1>4
  <2>2. /\ punched \in [Files -> SUBSET Nat] /\ punched["image"] = {}
        /\ punched["snap"] = {}
    BY <1>1, <1>2
  <2>3. /\ owner["image"] = Initial /\ owner["snap"] = NoView
        /\ owner \in [Files -> View] /\ readers \in [Readers -> View]
    BY <1>1, <1>2, Built
  <2>4. failed["image"] = FALSE /\ failed \in [Files -> BOOLEAN]
    BY <1>1, <1>2
  <2> QED BY <2>1, <2>2, <2>3, <2>4
<1>6. TypeInv
  BY <1>2, <1>5, Built, ManifestAssumption DEF TypeInv
<1>7. Safe(pages["image"], punched["image"], promised)
  <2> DEFINE p == pages["image"]
  <2>1. /\ DOMAIN p = {1} /\ p[1] = c /\ punched["image"] = {} /\ promised.end = 1
        /\ promised.tx = 0 /\ promised.gen = 1 /\ promised.root = Initial.root
        /\ DOMAIN promised.root = {}
    BY <1>2, <1>4, <1>5, Built
  <2> HIDE DEF p
  <2>2. Holds(p, {}, promised)
    BY <1>3, <2>1 DEF Holds, In
  <2>3. Safe(p, {}, promised)
    BY <1>3, <2>1, <2>2 DEF Safe, PagesOf
  <2> QED BY <2>1, <2>3 DEF p
<1>8. BoundInv
  <2>1. \A n \in Nat : WellFormed(Initial, n) /\ WellFormed(NoView, n)
    BY Built DEF WellFormed
  <2>2. \A f \in Files : \A o \in DOMAIN pages[f] : pages[f][o].tx <= publishes
    BY <1>2, <1>3, <1>4, <1>5 DEF Files
  <2> QED BY <1>2, <1>5, <2>1, <2>2, Built DEF BoundInv, Files
<1>9. PromiseInv
  BY <1>2, <1>4, <1>5, <1>7, Built DEF PromiseInv, Open
<1>10. TailInv
  BY <1>2, <1>4, <1>5, Built DEF TailInv, Tail1
<1>11. JobInv /\ SnapInv
  BY <1>2, <1>5, Built DEF JobInv, SnapInv
<1>12. UseInv
  <2>1. Used(base)
    BY <1>2, <1>7, Built DEF Used, Safe
  <2>2. \A r \in Readers : Used(readers[r])
    BY <1>2 DEF Used
  <2> QED BY <1>2, <2>1, <2>2, Built DEF UseInv
<1> QED BY <1>6, <1>8, <1>9, <1>10, <1>11, <1>12 DEF ManifestInv

\* Nothing happens.
LEMMA StutterInv == ASSUME ManifestInv, UNCHANGED vars PROVE ManifestInv'
<1>1. UNCHANGED <<pages, punched, catalog, mode, owner, failed, base, job, readers,
                  promised, publishes, crashes>>
  BY DEF vars
<1>2. TypeInv' /\ BoundInv' /\ PromiseInv' /\ TailInv'
  BY <1>1 DEF ManifestInv, TypeInv, BoundInv, PromiseInv, Open, TailInv
<1>3. JobInv' /\ SnapInv' /\ UseInv'
  BY <1>1 DEF ManifestInv, JobInv, SnapInv, UseInv, Used
<1> QED BY <1>2, <1>3 DEF ManifestInv

\* Every step of the system.
LEMMA NextInv == ASSUME ManifestInv, Next PROVE ManifestInv'
<1>1. CASE WorkerStep
  BY <1>1, FinishPublishInv, InstallBaseInv, PunchInv, FinishReclaimInv,
     SyncSnapshotInv, PublishSnapshotInv DEF WorkerStep
<1>2. CASE RecoveryStep
  BY <1>2, InspectInv, RecoverInv, FinishRecoveryInv DEF RecoveryStep
<1>3. CASE CrashStep
  BY <1>3, CrashInv DEF CrashStep
<1>4. CASE \E keep \in SUBSET DOMAIN owner["image"].root, n \in 0..MaxPages :
             BeginPublish(keep, n)
  BY <1>4, BeginPublishInv
<1>5. CASE \E f \in Files : BeginReclaim(f)
  BY <1>5, BeginReclaimInv
<1>6. CASE \E r \in Readers : OpenView(r) \/ CloseView(r)
  BY <1>6, ViewInv
<1> QED BY <1>1, <1>2, <1>3, <1>4, <1>5, <1>6, BeginSnapshotInv, FailInv DEF Next

\* The invariant holds for any number of readers, pages of a transaction,
\* transactions and crashes.
THEOREM ManifestInvariant == Spec => []ManifestInv
<1>1. Init => ManifestInv
  BY InitInv
<1>2. ManifestInv /\ [Next]_vars => ManifestInv'
  BY NextInv, StutterInv
<1> QED BY <1>1, <1>2, PTL DEF Spec

\* Whatever instant the process or the host stops at, selection accepts the file,
\* takes the last view returned or the transaction after it, and finds in it
\* exactly the pages its transactions wrote (select, publish, recover).
THEOREM PublicationsSurvive == Spec => []PublishedSurvives
<1>1. ManifestInv => PublishedSurvives
  <2> SUFFICES ASSUME ManifestInv PROVE PublishedSurvives
    OBVIOUS
  <2>1. PICK o \in DOMAIN pages["image"] : Selects(o)
    BY SomeSelected
  <2>2. /\ Holds(pages["image"], punched["image"], ViewAt(o))
        /\ \/ pages["image"][o].tx = promised.tx
           \/ pages["image"][o].gen = promised.gen + 1
    BY <2>1, SelectedHolds
  <2>3. Intact("image", ViewAt(o))
    BY <2>2 DEF Holds, In, Intact, Present
  <2> QED BY <2>1, <2>2, <2>3 DEF PublishedSurvives
<1> QED BY <1>1, ManifestInvariant, PTL

\* Every view in use, of an image or of a snapshot, keeps its exact content through
\* publications, reclamation, failures, crashes and repair (publish, reclaim,
\* Snapshot::copy).
THEOREM ViewsNeverChange == Spec => []ViewsExact
<1>1. ManifestInv => ViewsExact
  <2> SUFFICES ASSUME ManifestInv PROVE ViewsExact
    OBVIOUS
  <2> USE DEF ManifestInv
  <2>1. "image" \in Files /\ "snap" \in Files
    BY DEF Files
  <2>2. \A f \in Files : \A v : Holds(pages[f], punched[f], v) => Intact(f, v)
    BY DEF Holds, In, Intact, Present
  <2>3. ViewsReadable
    <3>1. mode = "serving" => /\ Intact("image", owner["image"])
                              /\ (owner["snap"] # NoView => Intact("snap", owner["snap"]))
      BY <2>1, <2>2 DEF PromiseInv, Open, SnapInv, Safe
    <3>2. mode = "serving" => Intact("image", base)
      BY <2>1, <2>2 DEF UseInv, Used
    <3>3. \A r \in Readers : readers[r] # NoView => Intact("image", readers[r])
      BY <2>1, <2>2 DEF UseInv, Used
    <3> QED BY <3>1, <3>2, <3>3 DEF ViewsReadable, Files
  <2>4. SnapshotExact
    <3> SUFFICES ASSUME catalog # NoView
                 PROVE  Intact("snap", catalog) /\ SnapshotVerified
      BY DEF SnapshotExact
    <3>1. /\ Holds(pages["snap"], punched["snap"], catalog)
          /\ Len(pages["snap"]) = catalog.end
      BY DEF SnapInv, Safe
    <3>2. Intact("snap", catalog)
      BY <2>1, <2>2, <3>1
    <3> QED BY <3>1, <3>2 DEF SnapshotVerified, Intact
  <2>5. \A v : WellFormed(v, publishes) => RootType(v)
    BY DEF WellFormed, RootType
  <2>6. ASSUME NEW f \in Files
        PROVE  owner[f].end <= Len(pages[f]) /\ RootType(owner[f])
    <3>1. RootType(owner[f])
      BY <2>5, Facts DEF Files
    <3>2. owner[f] = NoView \/ Holds(pages[f], punched[f], owner[f])
      BY <2>1 DEF Files, TypeInv, PromiseInv, Open, SnapInv, Safe
    <3>3. pages[f] \in Seq(Page) /\ owner[f] \in View
      BY Facts DEF Files
    <3>4. CASE owner[f] = NoView
      BY <3>3, <3>4, <3>1, Built
    <3>5. CASE Holds(pages[f], punched[f], owner[f])
      BY <3>1, <3>3, <3>5 DEF Holds, In, View
    <3> QED BY <3>2, <3>4, <3>5
  <2>7. ASSUME NEW f \in Files, NEW o \in DOMAIN pages[f]
        PROVE  /\ pages[f][o].kind \in {"tree", "commit", "hole"}
               /\ pages[f][o].st \in {"issued", "synced"}
               /\ pages[f][o].tx \in 0..publishes
    <3>1. pages[f][o] \in Page /\ publishes \in Nat
      BY Facts DEF Files
    <3>2. pages[f][o].tx <= publishes
      BY DEF BoundInv
    <3> QED BY <3>1, <3>2 DEF Page
  <2>8. TypeOK
    <3>1. /\ RootType(base) /\ RootType(promised) /\ RootType(catalog)
          /\ \A r \in Readers : RootType(readers[r])
      BY <2>5, Facts
    <3>2. job.kind \in {"idle", "publish", "install", "reclaim", "copied", "synced"}
      BY DEF TypeInv, JobType
    <3> QED BY <2>6, <2>7, <3>1, <3>2 DEF TypeOK, TypeInv, BoundInv
  <2> QED BY <2>3, <2>4, <2>8 DEF ViewsExact
<1> QED BY <1>1, ManifestInvariant, PTL

=============================================================================
