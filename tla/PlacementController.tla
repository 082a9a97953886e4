------------------------ MODULE PlacementController ------------------------
(***************************************************************************)
(* PlacementReconciler: one worker that takes a Capp key from its queue,   *)
(* picks a managed cluster for it and writes the choice first into the     *)
(* status and then into the has-placement annotation.  A reconcile is four *)
(* steps, split where it reads RCSConfig, where it reads the Capp and at   *)
(* its two writes; other actors may move in between.  Every error, panic   *)
(* and RequeueAfter puts the key back on the queue.                        *)
(***************************************************************************)
EXTENDS HubApi

VARIABLES
    placeQ,  \* keys queued, waiting for a back-off or for RequeueAfter
    place    \* the worker: program counter, key and the locals of Reconcile

placeVars == <<placeQ, place>>

PlaceIdle == [pc |-> "idle", key |-> None, placements |-> None, obj |-> None, dest |-> None]

PlaceTypeOK ==
    /\ placeQ \subseteq Capps
    /\ \/ place = PlaceIdle
       \/ place \in [pc : {"select"}, key : Capps, placements : Configs,
                     obj : {None}, dest : {None}]
       \/ place \in [pc : {"status", "annotate"}, key : Capps, placements : Configs,
                     obj : CappObjs, dest : Names]

PlaceInit == placeQ = {} /\ place = PlaceIdle

\* return ctrl.Result{}, nil
PlaceDone == place' = PlaceIdle /\ UNCHANGED placeQ

\* Faulty variant: the error is logged and forgotten.
PlaceRetryNever == PlaceDone

\* return an error, or ctrl.Result{RequeueAfter: RequeueTime}
PlaceRetry == place' = PlaceIdle /\ placeQ' = placeQ \cup {place.key}

\* The event filter: Capps that are not placed yet.
CappPredicateFunctions(obj) == ~ContainsPlacementAnnotation(obj)

\* The PlacementDecisions labelled with a Placement's name.
GetPlacementDecisionList(placementRef) == decisions[placementRef]

\* The cluster a PlacementDecision names: its only one as it is, else the first
\* that is not the local cluster; None if there is none.
GetDecisionClusterName(pd) ==
    LET chosen == IF Len(pd) = 1 THEN {1}
                  ELSE {i \in DOMAIN pd : /\ pd[i] # LocalCluster
                                          /\ \A j \in 1..(i - 1) : pd[j] = LocalCluster}
    IN  IF chosen = {} THEN None ELSE pd[CHOOSE i \in chosen : TRUE]

\* What pickDecision may return, None for each of its failures: the list of
\* placements is empty (placements[0] panics, which controller-runtime turns
\* into an error), the Placement does not exist, it has no decision.  Items[0]
\* of a cached List is any of the PlacementDecisions.
pickDecision(site, placements) ==
    LET placementRef == IF site = None THEN placements[1] ELSE site
        list == GetPlacementDecisionList(placementRef)
    IN  IF (site = None /\ placements = <<>>) \/ list = None \/ list = {}
        THEN {None}
        ELSE {GetDecisionClusterName(pd) : pd \in list}

-----------------------------------------------------------------------------

\* Take key c and Get the RCSConfig; without one the key just stays queued.
PlaceGetConfig(c) ==
    /\ place.pc = "idle"
    /\ c \in placeQ
    /\ config # None
    /\ placeQ' = placeQ \ {c}
    /\ place' = [PlaceIdle EXCEPT !.pc = "select", !.key = c, !.placements = config]
    /\ UNCHANGED <<cappVars, mwVars, ocmVars, faults>>

PlaceNotFound ==
    /\ place.pc = "select"
    /\ cache[place.key] = None
    /\ PlaceDone

\* Spec.Site does not name a placement of the RCSConfig: it is taken for a cluster.
PlaceOnSite ==
    /\ place.pc = "select"
    /\ cache[place.key] # None
    /\ cache[place.key].site \notin {None} \cup Listed(place.placements)
    /\ place' = [place EXCEPT !.pc = "status", !.obj = cache[place.key],
                              !.dest = cache[place.key].site]
    /\ UNCHANGED placeQ

\* Faulty variant: an empty cluster name is not taken for "no managed cluster".
PlaceByDecisionUnchecked ==
    /\ place.pc = "select"
    /\ cache[place.key] # None
    /\ cache[place.key].site \in {None} \cup Listed(place.placements)
    /\ \E cluster \in pickDecision(cache[place.key].site, place.placements) :
          place' = [place EXCEPT !.pc = "status", !.obj = cache[place.key], !.dest = cluster]
    /\ UNCHANGED placeQ

PlaceByDecision ==
    /\ place.pc = "select"
    /\ cache[place.key] # None
    /\ cache[place.key].site \in {None} \cup Listed(place.placements)
    /\ \E cluster \in pickDecision(cache[place.key].site, place.placements) :
          \/ /\ cluster = None
             /\ PlaceRetry
          \/ /\ cluster # None
             /\ place' = [place EXCEPT !.pc = "status", !.obj = cache[place.key],
                                       !.dest = cluster]
             /\ UNCHANGED placeQ

\* Get the Capp and choose its destination.
PlaceSelect ==
    /\ PlaceNotFound \/ PlaceOnSite \/ PlaceByDecision
    /\ UNCHANGED <<cappVars, mwVars, ocmVars, faults>>

\* UpdateCappDestination, first half: Status().Update, whose answer refreshes the local copy.
UpdateCappDestination ==
    /\ place.pc = "status"
    /\ IF Current(place.key, place.obj)
       THEN /\ UpdateCappStatus(place.key, [place.obj EXCEPT !.status = place.dest])
            /\ place' = [place EXCEPT !.pc = "annotate", !.obj = capp'[place.key]]
            /\ UNCHANGED placeQ
       ELSE PlaceRetry /\ UNCHANGED cappVars
    /\ UNCHANGED <<mwVars, ocmVars, faults>>

\* Faulty variant: a conflict is overridden with the latest resourceVersion.
AddCappHasPlacementAnnotationForced ==
    /\ place.pc = "annotate"
    /\ IF capp[place.key] # None /\ Admitted(place.obj)
       THEN /\ UpdateCapp(place.key, [place.obj EXCEPT !.anno = place.dest])
            /\ PlaceDone
       ELSE PlaceRetry /\ UNCHANGED cappVars
    /\ UNCHANGED <<mwVars, ocmVars, faults>>

\* UpdateCappDestination, second half: Update with the annotation added.
AddCappHasPlacementAnnotation ==
    /\ place.pc = "annotate"
    /\ IF Current(place.key, place.obj) /\ Admitted(place.obj)
       THEN /\ UpdateCapp(place.key, [place.obj EXCEPT !.anno = place.dest])
            /\ \/ PlaceDone /\ UNCHANGED faults
               \/ PlaceRetry /\ Fault
       ELSE PlaceRetry /\ UNCHANGED <<cappVars, faults>>
    /\ UNCHANGED <<mwVars, ocmVars>>

PlaceCallFails ==
    /\ place.pc # "idle"
    /\ Fault
    /\ PlaceRetry
    /\ UNCHANGED <<cappVars, mwVars, ocmVars>>

PlaceNext ==
    \/ \E c \in Capps : PlaceGetConfig(c)
    \/ PlaceSelect
    \/ UpdateCappDestination
    \/ AddCappHasPlacementAnnotation
    \/ PlaceCallFails
=============================================================================
