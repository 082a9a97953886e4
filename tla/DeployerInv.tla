---------------------------- MODULE DeployerInv ----------------------------
(***************************************************************************)
(* The inductive invariant of Deployer: what the informer's queue of       *)
(* events, the copies of Capps that the workers hold and the stored Capps  *)
(* have to do with each other in every reachable state, for every Env.     *)
(***************************************************************************)
EXTENDS Deployer

\* The cached copy of c, the pending events and the stored object are
\* successive versions, counted by ver[c].
InOrder(c) ==
    /\ Len(events[c]) <= ver[c]
    /\ capp[c] # None => capp[c].rv = ver[c]
    /\ cache[c] # None => cache[c].rv = ver[c] - Len(events[c])
    /\ \A i \in 1..Len(events[c]) :
          events[c][i] # None => events[c][i].rv = ver[c] - Len(events[c]) + i
    /\ capp[c] = IF events[c] = <<>> THEN cache[c] ELSE events[c][Len(events[c])]

\* What the informer has shown or has yet to show of c.
Seen(c) == {cache[c]} \cup {events[c][i] : i \in 1..Len(events[c])}

\* Once a live Capp was seen with the finalizer, the stored one has it until the
\* informer shows a later version.
Guarded(c) ==
    \A obj \in Seen(c) :
       obj # None /\ obj.fin /\ ~obj.deleting => capp[c] # None /\ capp[c].fin

\* A copy held by a worker is an old version, or else the stored object itself.
Snapshot(c, obj) ==
    /\ obj.rv <= ver[c]
    /\ capp[c] # None /\ obj.rv = ver[c] => obj = capp[c]

PlaceSnapshot == place.obj # None => Snapshot(place.key, place.obj)

\* The sync worker's copy is no newer than the cache; it goes on to publish only
\* while the stored Capp has the finalizer.
SyncSnapshot ==
    sync.pc # "idle" =>
       /\ Snapshot(sync.key, sync.obj)
       /\ sync.obj.rv <= ver[sync.key] - Len(events[sync.key])
       /\ sync.pc = "delete" <=> sync.obj.deleting
       /\ sync.pc = "apply" => capp[sync.key] # None /\ capp[sync.key].fin

\* The copies the operator works from are consistent: the reason why its writes
\* lose no update and its ManifestWorks are covered by a finalizer.
ConsistentCopies ==
    /\ \A c \in Capps : InOrder(c) /\ Guarded(c)
    /\ PlaceSnapshot
    /\ SyncSnapshot

IInv == TypeOK /\ ConsistentCopies
-----------------------------------------------------------------------------
(* While nothing moves a placed Capp.                                      *)

\* What keeps a placed Capp where it is: nobody revises a site, an annotation, the
\* RCSConfig or a decision that was made, all PlacementDecisions of a Placement
\* name one cluster, and the ManifestWork cache is up to date.
Steady ==
    /\ Env \cap {"siteChange", "userAnnotates", "configChange", "decisionChange", "mwLag"} = {}
    /\ \A ds \in Decisions : \A pd, other \in ds :
          GetDecisionClusterName(pd) = GetDecisionClusterName(other)

\* Where Reconcile sends a Capp now: its site, or what its Placement decides.
Targets(obj) ==
    IF obj.site \in {None} \cup Listed(config) THEN pickDecision(obj.site, config)
    ELSE {obj.site}

\* The annotation that the sync controller publishes by is the status that it
\* cleans up by.
Agrees(obj) == obj.anno # None => obj.anno = obj.status

\* The stored Capp, while it is still the one that was copied, has kept the status.
KeepsStatus(c, obj) ==
    /\ obj.uid <= ver[c]
    /\ capp[c] # None /\ capp[c].uid = obj.uid /\ obj.status # None
          => capp[c].status = obj.status

\* A live copy with the finalizer is of the Capp that is stored, not of an
\* earlier one of its name.
SameCapp(c, obj) == obj.fin /\ ~obj.deleting => capp[c] # None /\ capp[c].uid = obj.uid

CappSettled(c) ==
    /\ \A obj \in Seen(c) \ {None} : Agrees(obj) /\ KeepsStatus(c, obj) /\ SameCapp(c, obj)
    /\ capp[c] # None /\ capp[c].status # None => capp[c].status \in Targets(capp[c])

PlaceSettled ==
    /\ config # None
    /\ place.pc # "idle" => place.placements = config
    /\ place.obj # None => place.dest \in Targets(place.obj)
    /\ place.pc = "annotate" => place.obj.status = place.dest

SyncSettled ==
    sync.pc # "idle" =>
       /\ Agrees(sync.obj)
       /\ KeepsStatus(sync.key, sync.obj)
       /\ sync.pc = "apply" => capp[sync.key] # None /\ capp[sync.key].uid = sync.obj.uid

\* A ManifestWork is found under the name that its own Capp asks for.
WorkNamed ==
    \A k \in Clusters, n \in MWNames :
       mw[k][n] # None => n = GenerateMWName(mw[k][n].manifest.capp)

\* The two places where the operator writes down the cluster of a Capp, the status
\* and then the annotation, and every copy that a worker or the informer has of
\* them, agree with each other and with what the placement controller would
\* choose again: the reason why HandleCappDeletion finds every ManifestWork.
PlacementSettled ==
    /\ \A c \in Capps : CappSettled(c)
    /\ PlaceSettled
    /\ SyncSettled
    /\ WorkNamed
-----------------------------------------------------------------------------
(* No key is lost.                                                         *)

\* Placed Capp c is no longer what SyncReconciler.Reconcile read and works from.
Outdated(c) ==
    /\ sync.pc \in {"finalizer", "apply"} /\ sync.key = c
    /\ capp[c] # None /\ ContainsPlacementAnnotation(capp[c])
    /\ \/ capp[c].deleting
       \/ capp[c].rev # sync.obj.rev
       \/ capp[c].anno # sync.obj.anno

\* Another reconcile follows the one that works from an outdated copy, which
\* therefore may end without an error.
OutdatedReadAgain ==
    \A c \in Capps : Outdated(c) => c \in syncQ \/ events[c] # <<>>

WakeInv == IInv /\ NoCappForgotten /\ OutdatedReadAgain

\* No two Capps share the name of a ManifestWork.
DistinctNames == \A c, d \in Capps : GenerateMWName(c) = GenerateMWName(d) => c = d

\* A copy that is being deleted is of the stored Capp, once that one has the
\* finalizer: HandleCappDeletion does not take an earlier Capp for it.
SameDeletion(c, obj) ==
    obj.deleting /\ capp[c] # None /\ capp[c].fin => capp[c].deleting

DeletionsFinal ==
    /\ \A c \in Capps : \A obj \in Seen(c) \ {None} : SameDeletion(c, obj)
    /\ sync.pc # "idle" => SameDeletion(sync.key, sync.obj)

\* No ManifestWork of a live Capp was told to go.
MarkedWithCapp ==
    \A k \in Clusters, n \in MWNames :
       mw[k][n] # None /\ mw[k][n].deleting => capp[mw[k][n].manifest.capp].deleting
-----------------------------------------------------------------------------
(* While the RCSConfig stays.                                              *)

\* Every site that is no Placement is a cluster, and only clusters are recorded.
SitesKnown ==
    /\ config # None
    /\ \A c \in Capps : \A obj \in Seen(c) \ {None} :
          /\ obj.site \in Clusters \cup {None} \cup Listed(config)
          /\ obj.status \in Clusters \cup {None}
    /\ place.pc # "idle" => place.placements = config
    /\ place.obj # None => place.dest \in Clusters
=============================================================================
