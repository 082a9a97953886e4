------------------------- MODULE DeployerRefinement -------------------------
(***************************************************************************)
(* Deployer implements CappLifecycle: the mapping from its state to that   *)
(* of the abstract specification, and what the revisions of its copies     *)
(* have to do with each other.                                             *)
(***************************************************************************)
EXTENDS DeployerInv

Phase(obj) ==
    IF obj = None THEN "absent"
    ELSE IF obj.deleting THEN "leaving"
    ELSE IF obj.fin THEN "guarded" ELSE "new"

phase == [c \in Capps |-> Phase(capp[c])]

Rev(obj) == IF obj = None THEN 0 ELSE obj.rev

rev == [c \in Capps |-> Rev(capp[c])]

works == [k \in Clusters |-> [n \in MWNames |->
             IF mw[k][n] = None THEN None ELSE mw[k][n].manifest]]

Life == INSTANCE CappLifecycle WITH WorkNames <- MWNames, Strict <- FALSE

StrictLife == INSTANCE CappLifecycle WITH WorkNames <- MWNames, Strict <- TRUE

\* In every environment the operator implements the lifecycle of a Capp: nothing
\* is published before the finalizer, no deletion is undone, what is published
\* is a revision the Capp had and only moves forward.
ImplementsLifecycle == Life!Spec

\* While decisions and sites stay and the ManifestWork cache is up to date, it
\* implements the strict one: one cluster at a time, and no Capp goes before its
\* ManifestWork.
ImplementsStrictLifecycle == StrictLife!Spec
-----------------------------------------------------------------------------
(* The order of revisions, which the proof of the refinement rests on.     *)

\* Of two versions of c that the informer shows, the later one has no older
\* spec, and no spec is newer than the version it is in.
Monotone(c) ==
    \A x, y \in Seen(c) \ {None} : x.rev <= x.rv /\ (x.rv <= y.rv => x.rev <= y.rev)

\* No copy of c that may yet be published is older than revision r.
NoneOlder(c, r) ==
    /\ r <= ver[c]
    /\ \A obj \in Seen(c) \ {None} : r <= obj.rev

SyncRevision == sync.pc # "idle" => NoneOlder(sync.key, sync.obj.rev)

\* The sync worker holds a copy of the Capp that the manifest w is of.
Rewrites(w) == sync.pc # "idle" /\ sync.key = w.capp

WorkRevision(w) ==
    /\ NoneOlder(w.capp, w.rev)
    /\ Rewrites(w) => w.rev <= sync.obj.rev

\* What is published of a Capp is no newer than any copy of it that is stored,
\* on its way to the cache, cached or held by SyncReconciler.Reconcile: whichever
\* of them SyncManifestWork publishes next takes no spec back.
RevisionsOrdered ==
    /\ \A c \in Capps : Monotone(c)
    /\ SyncRevision
    /\ \A k \in Clusters, n \in MWNames : mw[k][n] # None => WorkRevision(mw[k][n].manifest)

RInv == IInv /\ RevisionsOrdered
=============================================================================
