------------------------------ MODULE Deployer ------------------------------
(***************************************************************************)
(* The operator on its hub: the placement and the sync controller share    *)
(* one Capp informer and one process, and hand Capps over to each other    *)
(* through the has-placement annotation that their event filters test.     *)
(***************************************************************************)
EXTENDS PlacementController, SyncController, HubEnvironment

vars == <<cappVars, mwVars, ocmVars, faults, placeVars, syncVars, ops>>

Init == HubInit /\ PlaceInit /\ SyncInit /\ EnvInit

-----------------------------------------------------------------------------
(* The Capp informer and the two event filters.                            *)

\* An event about obj passes the filters of the two controllers, whatever its kind.
Enqueue(c, obj) ==
    /\ syncQ' = IF CappPredicateFuncs(obj) THEN syncQ \cup {c} ELSE syncQ
    /\ placeQ' = IF CappPredicateFunctions(obj) THEN placeQ \cup {c} ELSE placeQ

\* The next watch event of key c reaches the cache and the event handlers; a
\* delete event carries the last state of the object.
Deliver(c) ==
    /\ events[c] # <<>>
    /\ cache' = [cache EXCEPT ![c] = Head(events[c])]
    /\ events' = [events EXCEPT ![c] = Tail(@)]
    /\ Enqueue(c, IF Head(events[c]) = None THEN cache[c] ELSE Head(events[c]))
    /\ UNCHANGED <<capp, ver, mwVars, ocmVars, faults, place, sync, ops>>

\* The informer's periodic resync repeats an update event for a cached object.
Resync(c) ==
    /\ cache[c] # None
    /\ Enqueue(c, cache[c])
    /\ UNCHANGED <<cappVars, mwVars, ocmVars, faults, place, sync, ops>>

\* The process dies and starts again: caches are filled by a List, and a create
\* event for every stored Capp passes the event filters.
Restart ==
    LET stored == {c \in Capps : capp[c] # None}
    IN  /\ Fault
        /\ cache' = capp
        /\ events' = [c \in Capps |-> <<>>]
        /\ mwCache' = mw
        /\ place' = PlaceIdle
        /\ sync' = SyncIdle
        /\ syncQ' = {c \in stored : CappPredicateFuncs(capp[c])}
        /\ placeQ' = {c \in stored : CappPredicateFunctions(capp[c])}
        /\ UNCHANGED <<capp, ver, mw, ocmVars, ops>>

ManagerNext ==
    \/ \E c \in Capps : Deliver(c) \/ Resync(c)
    \/ Restart

-----------------------------------------------------------------------------

Next ==
    \/ PlaceNext /\ UNCHANGED <<syncVars, ops>>
    \/ SyncNext /\ UNCHANGED <<placeVars, ops>>
    \/ ManagerNext
    \/ EnvNext /\ UNCHANGED <<placeVars, syncVars>>

Spec == Init /\ [][Next]_vars

\* Both controllers start one worker goroutine each, a rate-limited queue hands
\* out every key that stays on it (again and again, so strongly fair), and the
\* informers and the work agents keep up.  Users, administrators, resyncs and
\* faults owe nothing.
Fairness ==
    /\ \A c \in Capps :
          /\ SF_vars(PlaceGetConfig(c) /\ UNCHANGED <<syncVars, ops>>)
          /\ SF_vars(SyncBegin(c) /\ UNCHANGED <<placeVars, ops>>)
          /\ WF_vars(Deliver(c))
    /\ WF_vars((PlaceSelect \/ UpdateCappDestination \/ AddCappHasPlacementAnnotation)
                /\ UNCHANGED <<syncVars, ops>>)
    /\ WF_vars((EnsureFinalizer \/ SyncManifestWork \/ HandleCappDeletion)
                /\ UNCHANGED <<placeVars, ops>>)
    /\ WF_vars(RefreshMWCache /\ UNCHANGED <<placeVars, syncVars>>)
    /\ \A k \in Clusters, n \in MWNames :
          WF_vars((AgentApply(k, n) \/ AgentCleanup(k, n)) /\ UNCHANGED <<placeVars, syncVars>>)

FairSpec == Spec /\ Fairness

-----------------------------------------------------------------------------
(* Properties.                                                             *)

\* Every variable keeps its type.
TypeOK == HubTypeOK /\ PlaceTypeOK /\ SyncTypeOK /\ EnvTypeOK

\* A step of the operator, not of a user or an administrator.
OperatorStep == ops' = ops

\* What a step of the operator may do to the stored Capp of key c.
LosesNothing(c) ==
    capp[c] # None /\ OperatorStep =>
       IF capp'[c] = None THEN capp[c].deleting
       ELSE /\ capp'[c].site = capp[c].site
            /\ capp'[c].rev = capp[c].rev
            /\ capp'[c].uid = capp[c].uid
            /\ capp'[c].deleting = capp[c].deleting
            /\ capp'[c].fin # capp[c].fin => UNCHANGED place
            /\ capp'[c].anno # capp[c].anno \/ capp'[c].status # capp[c].status => UNCHANGED sync

\* The controllers write whole Capp objects from copies that may be stale
\* (UpdateCappDestination, EnsureFinalizer, removeFinalizer), and yet no write of
\* theirs undoes a user's edit or deletion, the placement controller never
\* touches the finalizer nor the sync controller the placement, and only a Capp
\* that its user deleted ever goes away.
NoLostUpdate == [][\A c \in Capps : LosesNothing(c)]_vars

\* A ManifestWork appears only while its Capp is stored with the finalizer.
Covered(k, n) ==
    mw[k][n] = None /\ mw'[k][n] # None =>
       LET c == mw'[k][n].manifest.capp IN capp[c] # None /\ capp[c].fin

\* SyncManifestWork works from the copy of the Capp it read before other steps,
\* yet a ManifestWork only ever appears while its Capp is stored with the cleanup
\* finalizer, whoever deletes the Capp meanwhile.
CreatedUnderFinalizer == [][\A k \in Clusters, n \in MWNames : Covered(k, n)]_vars

\* Stale copies never roll a ManifestWork back to an older spec of its Capp,
\* across retries, restarts and re-created Capps of the same name.
NeverRollsBack ==
    [][\A k \in Clusters, n \in MWNames :
          /\ mw[k][n] # None
          /\ mw'[k][n] # None
          /\ mw'[k][n].manifest.capp = mw[k][n].manifest.capp
          => mw'[k][n].manifest.rev >= mw[k][n].manifest.rev]_vars

\* HandleCappDeletion looks for the ManifestWork where Status.Site points while
\* SyncManifestWork put it where the annotation pointed: every ManifestWork is
\* where its Capp's status points, and that Capp still waits for its cleanup.
WorkReachable ==
    \A k \in Clusters, n \in MWNames : mw[k][n] # None =>
       LET obj == capp[mw[k][n].manifest.capp]
       IN  obj # None /\ obj.fin /\ obj.status = k

\* A Capp is published on at most one managed cluster.
OneCluster ==
    \A n \in MWNames : Cardinality({k \in Clusters : mw[k][n] # None}) <= 1

\* No ManifestWork outlives its Capp.
NoOrphan ==
    \A k \in Clusters, n \in MWNames :
       mw[k][n] # None => capp[mw[k][n].manifest.capp] # None

\* The sync controller never puts one Capp's manifests over another's.
OwnWork ==
    [][\A k \in Clusters, n \in MWNames :
          mw[k][n] # None /\ mw'[k][n] # None =>
             mw'[k][n].manifest.capp = mw[k][n].manifest.capp]_vars

\* The placement controller records a managed cluster, never a Placement, as
\* the site a Capp runs on.
SiteIsCluster ==
    \A c \in Capps : capp[c] # None => capp[c].status \in Clusters \cup {None}

\* A reconcile of Capp c is under way, or will follow from a queued key or from an
\* event that the informer has yet to deliver.
PlacePending(c) ==
    c \in placeQ \/ (place.pc # "idle" /\ place.key = c) \/ events[c] # <<>>

SyncPending(c) ==
    c \in syncQ \/ (sync.pc # "idle" /\ sync.key = c) \/ events[c] # <<>>

\* Nothing but Capps is watched and each controller's filter drops what is the
\* other's, yet no Capp falls between them: one without annotation is always on
\* its way through the placement controller, and one that lacks its finalizer or
\* is being deleted through the sync controller.
NoCappForgotten ==
    \A c \in Capps : capp[c] # None =>
       IF ~ContainsPlacementAnnotation(capp[c]) THEN PlacePending(c)
       ELSE capp[c].deleting \/ ~capp[c].fin => SyncPending(c)

\* A Capp that the sync controller does not have on its way is published as it is.
PublishedOrPending ==
    \A c \in Capps :
       /\ capp[c] # None
       /\ ~capp[c].deleting
       /\ capp[c].anno \in clusters
       /\ ~SyncPending(c)
       => LET work == mw[capp[c].anno][GenerateMWName(c)]
          IN  /\ work # None
              /\ work.manifest = [capp |-> c, rev |-> capp[c].rev]
              /\ ~work.deleting

\* The webhook admits writes to the Capp and its Placement, if it needs one,
\* has a decision with a registered cluster.
Schedulable(c) ==
    /\ capp[c] # None
    /\ Admitted(capp[c])
    /\ capp[c].site \in {None} \cup Listed(config)
          => pickDecision(capp[c].site, config) \subseteq clusters

\* A deleted Capp that stays schedulable is cleaned up and goes away, despite
\* conflicts, lost answers, failed calls and restarts on the way.
SchedulableDeletionCompletes ==
    \A c \in Capps :
       (capp[c] # None /\ capp[c].deleting) ~> (capp[c] = None \/ ~Schedulable(c))

Published(c) ==
    \E k \in Clusters :
       /\ mw[k][GenerateMWName(c)] # None
       /\ mw[k][GenerateMWName(c)].applied = [capp |-> c, rev |-> capp[c].rev]

\* Once users stop editing, every Capp that is not being deleted, is schedulable
\* and finds its volumes runs on a cluster in its latest revision, whatever
\* conflicts, lost answers, failed calls and restarts there were on the way.
Converges ==
    \A c \in Capps :
       <>[](\/ capp[c] = None \/ capp[c].deleting
            \/ ~Schedulable(c) \/ ~resolvable[c]
            \/ Published(c))
=============================================================================
