--------------------------- MODULE DeployerProofs ---------------------------
(***************************************************************************)
(* Proofs about Deployer for every set of Capps, clusters, placements and  *)
(* sites, every environment and every bound.                               *)
(***************************************************************************)
EXTENDS DeployerInv, TLAPS

-----------------------------------------------------------------------------
(* Types.                                                                  *)

\* Updating a field of a Capp with a value of its type gives a Capp.
LEMMA CappFields ==
    ASSUME NEW obj \in CappObjs
    PROVE  /\ \A x \in Names \cup {None} : /\ [obj EXCEPT !.anno = x] \in CappObjs
                                           /\ [obj EXCEPT !.status = x] \in CappObjs
           /\ \A x \in BOOLEAN : /\ [obj EXCEPT !.fin = x] \in CappObjs
                                 /\ [obj EXCEPT !.deleting = x] \in CappObjs
           /\ \A x \in Nat : [obj EXCEPT !.rv = x] \in CappObjs
           /\ \A x \in Nat, y \in Names \cup {None} :
                 [obj EXCEPT !.rev = x, !.site = y] \in CappObjs
  BY DEF CappObjs

\* The type of the four variables that Store changes.
CappTypeOK ==
    /\ capp \in [Capps -> CappObjs \cup {None}]
    /\ ver \in [Capps -> Nat]
    /\ cache \in [Capps -> CappObjs \cup {None}]
    /\ events \in [Capps -> Seq(CappObjs \cup {None})]

LEMMA StoreType ==
    ASSUME CappTypeOK, NEW c \in Capps, NEW obj \in CappObjs \cup {None}, Store(c, obj)
    PROVE  CappTypeOK'
  BY DEF CappTypeOK, Store

LEMMA WriteType ==
    ASSUME CappTypeOK, NEW c \in Capps, NEW obj \in CappObjs, Write(c, obj)
    PROVE  CappTypeOK'
  <1>1. CASE obj = capp[c]
    BY <1>1 DEF Write, CappTypeOK, cappVars
  <1>2. CASE obj # capp[c]
    <2>1. ver[c] + 1 \in Nat
      BY DEF CappTypeOK
    <2>2. [obj EXCEPT !.rv = ver[c] + 1] \in CappObjs
      BY <2>1, CappFields
    <2> QED BY <1>2, <2>2, StoreType DEF Write
  <1> QED BY <1>1, <1>2

LEMMA UpdateCappType ==
    ASSUME CappTypeOK, NEW c \in Capps, capp[c] # None, NEW obj \in CappObjs, UpdateCapp(c, obj)
    PROVE  CappTypeOK'
  <1> DEFINE new == [obj EXCEPT !.status = capp[c].status]
  <1>1. capp[c].status \in Names \cup {None}
    BY DEF CappTypeOK, CappObjs
  <1>2. new \in CappObjs
    BY <1>1, CappFields
  <1>3. CASE new.deleting /\ ~new.fin
    BY <1>3, StoreType DEF UpdateCapp
  <1>4. CASE ~(new.deleting /\ ~new.fin)
    BY <1>2, <1>4, WriteType DEF UpdateCapp
  <1> QED BY <1>3, <1>4

WorkType == [Clusters -> [MWNames -> MWObjs \cup {None}]]

LEMMA PutWorkType ==
    ASSUME mw \in WorkType, NEW k \in Clusters, NEW n \in MWNames,
           NEW work \in MWObjs \cup {None}, PutManifestWork(k, n, work)
    PROVE  mw' \in WorkType
  BY DEF PutManifestWork, WorkType

LEMMA MWNameType ==
    ASSUME NEW c \in Capps
    PROVE  GenerateMWName(c) \in MWNames
  BY DEF MWNames

LEMMA FaultType ==
    ASSUME faults \in 0..MaxFaults, Fault
    PROVE  faults' \in 0..MaxFaults
  BY ConstantsAssumption DEF Fault

\* A decision names a cluster or none.
LEMMA DecisionType ==
    ASSUME NEW pd \in Seq(Clusters \cup {None})
    PROVE  GetDecisionClusterName(pd) \in Clusters \cup {None}
  <1> DEFINE chosen == IF Len(pd) = 1 THEN {1}
                       ELSE {i \in DOMAIN pd : /\ pd[i] # LocalCluster
                                               /\ \A j \in 1..(i - 1) : pd[j] = LocalCluster}
  <1>1. chosen \subseteq DOMAIN pd
    OBVIOUS
  <1>2. CASE chosen = {}
    BY <1>2 DEF GetDecisionClusterName
  <1>3. CASE chosen # {}
    <2> DEFINE i == CHOOSE x \in chosen : TRUE
    <2> HIDE DEF chosen
    <2>1. i \in chosen
      BY <1>3
    <2>2. pd[i] \in Clusters \cup {None}
      BY <2>1, <1>1
    <2>3. GetDecisionClusterName(pd) = pd[i]
      BY <1>3 DEF GetDecisionClusterName, chosen
    <2> QED BY <2>2, <2>3
  <1> QED BY <1>2, <1>3

LEMMA PickType ==
    ASSUME decisions \in [Placements -> Decisions \cup {None}],
           NEW placements \in Configs,
           NEW site \in {None} \cup Listed(placements),
           NEW cluster \in pickDecision(site, placements)
    PROVE  cluster \in Clusters \cup {None}
  <1> DEFINE ref == IF site = None THEN placements[1] ELSE site
  <1>1. CASE \/ site = None /\ placements = <<>>
             \/ decisions[ref] = None
             \/ decisions[ref] = {}
    BY <1>1 DEF pickDecision, GetPlacementDecisionList
  <1>2. CASE ~(\/ site = None /\ placements = <<>>
               \/ decisions[ref] = None
               \/ decisions[ref] = {})
    <2>1. placements \in Seq(Placements)
      BY ConstantsAssumption
    <2>2. ref \in Placements
      <3>1. CASE site = None
        BY <1>2, <2>1, <3>1
      <3>2. CASE site # None
        BY <2>1, <3>2 DEF Listed
      <3> QED BY <3>1, <3>2
    <2>3. decisions[ref] \in Decisions
      BY <1>2, <2>2
    <2>4. PICK pd \in decisions[ref] : cluster = GetDecisionClusterName(pd)
      BY <1>2 DEF pickDecision, GetPlacementDecisionList
    <2>5. pd \in Seq(Clusters \cup {None})
      BY <2>3, <2>4, ConstantsAssumption
    <2> QED BY <2>4, <2>5, DecisionType
  <1> QED BY <1>1, <1>2
LEMMA PlaceType ==
    ASSUME TypeOK, PlaceNext
    PROVE  HubTypeOK' /\ PlaceTypeOK'
  <1> USE DEF TypeOK
  <1>1. CappTypeOK
    BY DEF HubTypeOK, CappTypeOK
  <1>2. ASSUME NEW c \in Capps, PlaceGetConfig(c)
        PROVE  HubTypeOK' /\ PlaceTypeOK'
    <2>1. HubTypeOK'
      BY <1>2 DEF PlaceGetConfig, HubTypeOK, cappVars, mwVars, ocmVars
    <2>2. PlaceTypeOK'
      BY <1>2 DEF PlaceGetConfig, PlaceTypeOK, PlaceIdle, HubTypeOK
    <2> QED BY <2>1, <2>2
  <1>3. CASE PlaceSelect
    <2>1. HubTypeOK'
      BY <1>3 DEF PlaceSelect, HubTypeOK, cappVars, mwVars, ocmVars
    <2>2. ASSUME place.pc = "select"
          PROVE  place.key \in Capps /\ place.placements \in Configs
                 /\ place \in [pc : {"select"}, key : Capps, placements : Configs,
                               obj : {None}, dest : {None}]
      BY <2>2 DEF PlaceTypeOK, PlaceIdle
    <2>3. CASE PlaceNotFound
      BY <2>1, <2>3 DEF PlaceNotFound, PlaceDone, PlaceTypeOK
    <2>4. ASSUME place.pc = "select", cache[place.key] # None,
                 NEW x \in Names,
                 place' = [place EXCEPT !.pc = "status", !.obj = cache[place.key], !.dest = x],
                 UNCHANGED placeQ
          PROVE  PlaceTypeOK'
      <3>1. cache[place.key] \in CappObjs
        BY <2>2, <2>4 DEF HubTypeOK
      <3>2. place' \in [pc : {"status", "annotate"}, key : Capps, placements : Configs,
                        obj : CappObjs, dest : Names]
        BY <2>2, <2>4, <3>1
      <3> QED BY <2>4, <3>2 DEF PlaceTypeOK
    <2>5. CASE PlaceOnSite
      <3>1. cache[place.key].site \in Names
        BY <2>2, <2>5 DEF PlaceOnSite, HubTypeOK, CappObjs
      <3> QED BY <2>1, <2>4, <2>5, <3>1 DEF PlaceOnSite
    <2>6. CASE PlaceByDecision
      <3>1. PICK cluster \in pickDecision(cache[place.key].site, place.placements) :
               \/ cluster = None /\ PlaceRetry
               \/ /\ cluster # None
                  /\ place' = [place EXCEPT !.pc = "status", !.obj = cache[place.key],
                                            !.dest = cluster]
                  /\ UNCHANGED placeQ
        BY <2>6 DEF PlaceByDecision
      <3>2. CASE cluster = None /\ PlaceRetry
        BY <2>1, <2>2, <2>6, <3>2 DEF PlaceByDecision, PlaceRetry, PlaceTypeOK
      <3>3. CASE cluster # None
        <4>1. cluster \in Clusters \cup {None}
          BY <2>2, <2>6, PickType DEF PlaceByDecision, HubTypeOK
        <4>2. cluster \in Names
          BY <3>3, <4>1 DEF Names
        <4> QED BY <2>1, <2>4, <2>6, <3>1, <3>3, <4>2 DEF PlaceByDecision
      <3> QED BY <3>1, <3>2, <3>3
    <2> QED BY <1>3, <2>1, <2>3, <2>5, <2>6 DEF PlaceSelect
  <1>4. ASSUME place.pc \in {"status", "annotate"}
        PROVE  place \in [pc : {"status", "annotate"}, key : Capps, placements : Configs,
                          obj : CappObjs, dest : Names]
    BY <1>4 DEF PlaceTypeOK, PlaceIdle
  <1>5. ASSUME place.pc # "idle", PlaceRetry
        PROVE  PlaceTypeOK'
    BY <1>5 DEF PlaceRetry, PlaceTypeOK, PlaceIdle
  <1>6. ASSUME CappTypeOK', UNCHANGED <<mwVars, ocmVars>>, faults' \in 0..MaxFaults
        PROVE  HubTypeOK'
    BY <1>6 DEF HubTypeOK, CappTypeOK, mwVars, ocmVars
  <1>7. CASE UpdateCappDestination
    <2>1. CASE Current(place.key, place.obj)
      <3> DEFINE new == [capp[place.key] EXCEPT !.status = [place.obj EXCEPT !.status = place.dest].status]
      <3>1. /\ capp[place.key] \in CappObjs
            /\ [place.obj EXCEPT !.status = place.dest].status \in Names \cup {None}
        BY <1>1, <1>4, <1>7, <2>1 DEF UpdateCappDestination, Current, CappTypeOK, CappObjs
      <3>2. new \in CappObjs
        BY <3>1, CappFields
      <3>3. Write(place.key, new)
        BY <1>7, <2>1 DEF UpdateCappDestination, UpdateCappStatus
      <3>4. CappTypeOK'
        BY <1>1, <1>4, <1>7, <3>2, <3>3, WriteType DEF UpdateCappDestination
      <3>5. capp'[place.key] \in CappObjs
        <4>1. place.key \in Capps
          BY <1>4, <1>7 DEF UpdateCappDestination
        <4>2. CASE new = capp[place.key]
          BY <3>1, <3>3, <4>2 DEF Write, cappVars
        <4>3. CASE new # capp[place.key]
          <5>1. ver[place.key] + 1 \in Nat
            BY <1>1, <4>1 DEF CappTypeOK
          <5>2. [new EXCEPT !.rv = ver[place.key] + 1] \in CappObjs
            BY <3>2, <5>1, CappFields
          <5> HIDE DEF new
          <5> QED BY <1>1, <3>3, <4>1, <4>3, <5>2 DEF Write, Store, CappTypeOK
        <4> QED BY <4>2, <4>3
      <3>6. PlaceTypeOK'
        BY <1>4, <1>7, <2>1, <3>5 DEF UpdateCappDestination, PlaceTypeOK
      <3> QED BY <1>6, <1>7, <3>4, <3>6 DEF UpdateCappDestination, HubTypeOK
    <2>2. CASE ~Current(place.key, place.obj)
      BY <1>1, <1>5, <1>6, <1>7, <2>2 DEF UpdateCappDestination, CappTypeOK, cappVars, HubTypeOK
    <2> QED BY <2>1, <2>2
  <1>8. CASE AddCappHasPlacementAnnotation
    <2>1. CASE Current(place.key, place.obj) /\ Admitted(place.obj)
      <3>1. [place.obj EXCEPT !.anno = place.dest] \in CappObjs
        BY <1>4, <1>8, CappFields DEF AddCappHasPlacementAnnotation
      <3>2. CappTypeOK'
        BY <1>1, <1>4, <1>8, <2>1, <3>1, UpdateCappType
           DEF AddCappHasPlacementAnnotation, Current
      <3>3. PlaceTypeOK' /\ faults' \in 0..MaxFaults
        BY <1>5, <1>8, <2>1, FaultType
           DEF AddCappHasPlacementAnnotation, PlaceDone, PlaceTypeOK, HubTypeOK
      <3> QED BY <1>6, <1>8, <3>2, <3>3 DEF AddCappHasPlacementAnnotation
    <2>2. CASE ~(Current(place.key, place.obj) /\ Admitted(place.obj))
      BY <1>1, <1>5, <1>6, <1>8, <2>2
         DEF AddCappHasPlacementAnnotation, CappTypeOK, cappVars, HubTypeOK
    <2> QED BY <2>1, <2>2
  <1>9. CASE PlaceCallFails
    BY <1>1, <1>5, <1>6, <1>9, FaultType DEF PlaceCallFails, CappTypeOK, cappVars, HubTypeOK
  <1> QED BY <1>2, <1>3, <1>7, <1>8, <1>9 DEF PlaceNext
LEMMA SyncType ==
    ASSUME TypeOK, SyncNext
    PROVE  HubTypeOK' /\ SyncTypeOK'
  <1> USE DEF TypeOK
  <1>1. CappTypeOK /\ mw \in WorkType
    BY DEF HubTypeOK, CappTypeOK, WorkType
  <1>2. ASSUME NEW c \in Capps, SyncBegin(c)
        PROVE  HubTypeOK' /\ SyncTypeOK'
    <2>1. HubTypeOK'
      BY <1>2 DEF SyncBegin, HubTypeOK, cappVars, mwVars, ocmVars
    <2>2. CASE cache[c] = None
      BY <1>2, <2>1, <2>2 DEF SyncBegin, SyncTypeOK
    <2>3. CASE cache[c] # None
      <3>1. cache[c] \in CappObjs
        BY <2>3 DEF HubTypeOK
      <3>2. sync' \in [pc : {"finalizer", "apply", "delete"}, key : Capps, obj : CappObjs]
        BY <1>2, <2>3, <3>1 DEF SyncBegin
      <3> QED BY <1>2, <2>1, <3>2 DEF SyncBegin, SyncTypeOK
    <2> QED BY <2>2, <2>3
  <1>3. ASSUME sync.pc # "idle"
        PROVE  /\ sync \in [pc : {"finalizer", "apply", "delete"}, key : Capps, obj : CappObjs]
               /\ sync.key \in Capps
               /\ sync.obj \in CappObjs
               /\ GenerateMWName(sync.key) \in MWNames
    BY <1>3, MWNameType DEF SyncTypeOK, SyncIdle
  <1>4. ASSUME sync.pc # "idle", SyncRetry
        PROVE  SyncTypeOK'
    BY <1>3, <1>4 DEF SyncRetry, SyncTypeOK
  <1>5. ASSUME CappTypeOK', mw' \in WorkType, UNCHANGED <<mwCache, ocmVars>>, faults' \in 0..MaxFaults
        PROVE  HubTypeOK'
    BY <1>5 DEF HubTypeOK, CappTypeOK, WorkType, ocmVars
  <1>6. CASE EnsureFinalizer
    <2>0. mw' \in WorkType /\ UNCHANGED <<mwCache, ocmVars>> /\ faults' \in 0..MaxFaults
      BY <1>1, <1>6 DEF EnsureFinalizer, mwVars, HubTypeOK
    <2>1. CASE Current(sync.key, sync.obj) /\ Admitted(sync.obj)
      <3>1. [sync.obj EXCEPT !.fin = TRUE] \in CappObjs
        BY <1>3, <1>6, CappFields DEF EnsureFinalizer
      <3>2. CappTypeOK'
        BY <1>1, <1>3, <1>6, <2>1, <3>1, UpdateCappType DEF EnsureFinalizer, Current
      <3>3. SyncTypeOK'
        BY <1>3, <1>6, <2>1 DEF EnsureFinalizer, SyncTypeOK
      <3> QED BY <1>5, <2>0, <3>2, <3>3
    <2>2. CASE ~(Current(sync.key, sync.obj) /\ Admitted(sync.obj))
      BY <1>1, <1>4, <1>5, <1>6, <2>0, <2>2 DEF EnsureFinalizer, CappTypeOK, cappVars
    <2> QED BY <2>1, <2>2
  <1>7. CASE SyncManifestWork
    <2> DEFINE n == GenerateMWName(sync.key)
               k == sync.obj.anno
               manifests == [capp |-> sync.key, rev |-> sync.obj.rev]
    <2>1. CappTypeOK' /\ UNCHANGED <<mwCache, ocmVars>>
      BY <1>1, <1>7 DEF SyncManifestWork, CappTypeOK, cappVars
    <2>2. manifests \in Workloads
      BY <1>3, <1>7 DEF SyncManifestWork, Workloads, CappObjs
    <2>3. sync.pc # "idle" /\ n \in MWNames
      BY <1>3, <1>7 DEF SyncManifestWork
    <2>4. ASSUME SyncAnswered PROVE SyncTypeOK' /\ faults' \in 0..MaxFaults
      BY <1>4, <2>3, <2>4, FaultType DEF SyncAnswered, SyncDone, SyncTypeOK, HubTypeOK
    <2>5. ASSUME SyncRetry /\ UNCHANGED <<mw, faults>>
          PROVE  mw' \in WorkType /\ SyncTypeOK' /\ faults' \in 0..MaxFaults
      BY <1>1, <1>4, <2>3, <2>5 DEF HubTypeOK
    <2>6. ASSUME CreateManifestWork(k, n, manifests)
          PROVE  mw' \in WorkType /\ SyncTypeOK' /\ faults' \in 0..MaxFaults
      <3>1. CASE k \in clusters /\ mw[k][n] = None
        <4> DEFINE work == [manifest |-> manifests, applied |-> None, deleting |-> FALSE]
        <4>1. work \in MWObjs
          BY <2>2 DEF MWObjs
        <4>2. PutManifestWork(k, n, work) /\ SyncAnswered
          BY <2>6, <3>1 DEF CreateManifestWork
        <4>3. k \in Clusters
          BY <3>1 DEF HubTypeOK
        <4> HIDE DEF work, manifests, k, n
        <4> QED BY <1>1, <2>3, <2>4, <4>1, <4>2, <4>3, PutWorkType
      <3>2. CASE ~(k \in clusters /\ mw[k][n] = None)
        BY <2>5, <2>6, <3>2 DEF CreateManifestWork
      <3> QED BY <3>1, <3>2
    <2>7. ASSUME GetManifestWork(k, n) # None, UpdateManifestWork(k, n, manifests)
          PROVE  mw' \in WorkType /\ SyncTypeOK' /\ faults' \in 0..MaxFaults
      <3>1. CASE mwCache[k][n] = mw[k][n]
        <4> DEFINE work == [mw[k][n] EXCEPT !.manifest = manifests]
        <4>1. k \in Clusters /\ mw[k][n] # None
          BY <2>7, <3>1 DEF GetManifestWork
        <4>2. mw[k][n] \in MWObjs
          BY <1>1, <2>3, <4>1 DEF WorkType
        <4>3. work \in MWObjs
          BY <2>2, <4>2 DEF MWObjs
        <4>4. PutManifestWork(k, n, work) /\ SyncAnswered
          BY <2>7, <3>1 DEF UpdateManifestWork
        <4> HIDE DEF work, manifests, k, n
        <4> QED BY <1>1, <2>3, <2>4, <4>1, <4>3, <4>4, PutWorkType
      <3>2. CASE mwCache[k][n] # mw[k][n]
        BY <2>5, <2>7, <3>2 DEF UpdateManifestWork
      <3> QED BY <3>1, <3>2
    <2>8. mw' \in WorkType /\ SyncTypeOK' /\ faults' \in 0..MaxFaults
      BY <1>7, <2>5, <2>6, <2>7 DEF SyncManifestWork, AssembleFails
    <2> QED BY <1>5, <2>1, <2>8
  <1>8. CASE HandleCappDeletion
    <2> DEFINE n == GenerateMWName(sync.key)
               k == sync.obj.status
    <2>1. sync.pc # "idle" /\ n \in MWNames /\ SyncTypeOK'
      BY <1>3, <1>4, <1>8 DEF HandleCappDeletion
    <2>2. faults' \in 0..MaxFaults /\ UNCHANGED <<mwCache, ocmVars>>
      BY <1>8 DEF HandleCappDeletion, HubTypeOK
    <2>3. CASE UNCHANGED <<cappVars, mw>>
      BY <1>1, <1>5, <2>1, <2>2, <2>3 DEF CappTypeOK, cappVars
    <2>4. CASE removeFinalizer /\ UNCHANGED mw
      <3>1. CASE Current(sync.key, sync.obj) /\ Admitted(sync.obj)
        <4>1. [sync.obj EXCEPT !.fin = FALSE] \in CappObjs
          BY <1>3, <2>1, CappFields
        <4>2. CappTypeOK'
          BY <1>1, <1>3, <2>1, <2>4, <3>1, <4>1, UpdateCappType DEF removeFinalizer, Current
        <4> QED BY <1>1, <1>5, <2>1, <2>2, <2>4, <4>2
      <3>2. CASE ~(Current(sync.key, sync.obj) /\ Admitted(sync.obj))
        BY <2>3, <2>4, <3>2 DEF removeFinalizer
      <3> QED BY <3>1, <3>2
    <2>5. CASE GetManifestWork(k, n) # None /\ finalizeCapp(k, n)
      <3>1. CASE mw[k][n] # None
        <4> DEFINE work == IF mw[k][n].applied = None THEN None
                           ELSE [mw[k][n] EXCEPT !.deleting = TRUE]
        <4>1. k \in Clusters
          BY <2>5 DEF GetManifestWork
        <4>2. mw[k][n] \in MWObjs
          BY <1>1, <2>1, <3>1, <4>1 DEF WorkType
        <4>3. work \in MWObjs \cup {None}
          BY <4>2 DEF MWObjs
        <4>4. PutManifestWork(k, n, work)
          BY <2>5, <3>1 DEF finalizeCapp, DeleteManifestWork
        <4>5. mw' \in WorkType
          <5> HIDE DEF work, k, n
          <5> QED BY <1>1, <2>1, <4>1, <4>3, <4>4, PutWorkType
        <4>6. CappTypeOK'
          BY <1>1, <2>5 DEF finalizeCapp, CappTypeOK, cappVars
        <4> QED BY <1>5, <2>1, <2>2, <4>5, <4>6
      <3>2. CASE mw[k][n] = None
        BY <2>3, <2>5, <3>2 DEF finalizeCapp
      <3> QED BY <3>1, <3>2
    <2> QED BY <1>8, <2>3, <2>4, <2>5 DEF HandleCappDeletion, CleanUp
  <1>9. CASE SyncCallFails
    BY <1>1, <1>4, <1>5, <1>9, FaultType
       DEF SyncCallFails, CappTypeOK, cappVars, mwVars, HubTypeOK
  <1> QED BY <1>2, <1>6, <1>7, <1>8, <1>9 DEF SyncNext
LEMMA EnvType ==
    ASSUME TypeOK, EnvNext
    PROVE  HubTypeOK' /\ EnvTypeOK'
  <1> USE DEF TypeOK
  <1>1. CappTypeOK /\ mw \in WorkType
    BY DEF HubTypeOK, CappTypeOK, WorkType
  <1>2. ASSUME CappTypeOK', UNCHANGED <<mwVars, ocmVars, faults>>
        PROVE  HubTypeOK'
    BY <1>2 DEF HubTypeOK, CappTypeOK, mwVars, ocmVars
  <1>3. ASSUME UNCHANGED <<cappVars, mwCache, ocmVars, faults>>, mw' \in WorkType
        PROVE  HubTypeOK'
    BY <1>3 DEF HubTypeOK, WorkType, cappVars, ocmVars
  <1>4. ASSUME Operate PROVE EnvTypeOK'
    BY <1>4, EnvironmentAssumption DEF Operate, EnvTypeOK
  <1>5. ASSUME NEW c \in Capps, NEW site \in Sites, NEW anno \in Clusters \cup {None},
               CreateCapp(c, site, anno)
        PROVE  HubTypeOK' /\ EnvTypeOK'
    <2> DEFINE new == ver[c] + 1
               obj == [site |-> site, rev |-> new, anno |-> anno, status |-> None, fin |-> FALSE,
                       deleting |-> FALSE, uid |-> new, rv |-> new]
    <2>1. obj \in CappObjs
      BY <1>1, <1>5, EnvironmentAssumption DEF CappObjs, CappTypeOK, Names
    <2>2. Store(c, obj) /\ Operate /\ UNCHANGED <<mwVars, ocmVars, faults>>
      BY <1>5 DEF CreateCapp
    <2> HIDE DEF obj
    <2> QED BY <1>1, <1>2, <1>4, <2>1, <2>2, StoreType
  <1>6. ASSUME NEW c \in Capps, NEW site \in Sites, EditCapp(c, site)
        PROVE  HubTypeOK' /\ EnvTypeOK'
    <2> DEFINE obj == [capp[c] EXCEPT !.rev = ver[c] + 1, !.site = site]
    <2>1. capp[c] \in CappObjs /\ ver[c] + 1 \in Nat /\ site \in Names \cup {None}
      BY <1>1, <1>6, EnvironmentAssumption DEF EditCapp, CappTypeOK
    <2>2. obj \in CappObjs
      BY <2>1, CappFields
    <2>3. Write(c, obj) /\ Operate /\ UNCHANGED <<mwVars, ocmVars, faults>>
      BY <1>6 DEF EditCapp
    <2> HIDE DEF obj
    <2> QED BY <1>1, <1>2, <1>4, <2>2, <2>3, WriteType
  <1>7. ASSUME NEW c \in Capps, DeleteCapp(c)
        PROVE  HubTypeOK' /\ EnvTypeOK'
    <2>1. capp[c] \in CappObjs
      BY <1>1, <1>7 DEF DeleteCapp, CappTypeOK
    <2>2. [capp[c] EXCEPT !.deleting = TRUE] \in CappObjs
      BY <2>1, CappFields
    <2>3. CappTypeOK'
      BY <1>1, <1>7, <2>2, StoreType, WriteType DEF DeleteCapp
    <2> QED BY <1>2, <1>4, <1>7, <2>3 DEF DeleteCapp
  <1>8. ASSUME NEW c \in Capps, ToggleVolumes(c)
        PROVE  HubTypeOK' /\ EnvTypeOK'
    BY <1>4, <1>8 DEF ToggleVolumes, HubTypeOK, cappVars, mwVars
  <1>9. ASSUME NEW placements \in Configs \cup {None}, SetConfig(placements)
        PROVE  HubTypeOK' /\ EnvTypeOK'
    BY <1>4, <1>9 DEF SetConfig, HubTypeOK, cappVars, mwVars
  <1>10. ASSUME NEW p \in Placements, NEW pds \in Decisions, SetDecision(p, pds)
         PROVE  HubTypeOK' /\ EnvTypeOK'
    BY <1>4, <1>10 DEF SetDecision, HubTypeOK, cappVars, mwVars
  <1>11. ASSUME NEW k \in Clusters, DetachCluster(k)
         PROVE  HubTypeOK' /\ EnvTypeOK'
    BY <1>4, <1>11 DEF DetachCluster, HubTypeOK, cappVars
  <1>12. ASSUME NEW k \in Clusters, NEW n \in MWNames, AgentApply(k, n)
         PROVE  HubTypeOK' /\ EnvTypeOK'
    <2> DEFINE work == [mw[k][n] EXCEPT !.applied = mw[k][n].manifest]
    <2>1. mw[k][n] \in MWObjs
      BY <1>1, <1>12 DEF AgentApply, WorkType
    <2>2. work \in MWObjs
      BY <2>1 DEF MWObjs
    <2>3. PutManifestWork(k, n, work)
      BY <1>12 DEF AgentApply
    <2>4. mw' \in WorkType
      <3> HIDE DEF work
      <3> QED BY <1>1, <2>2, <2>3, PutWorkType
    <2> QED BY <1>3, <1>12, <2>4 DEF AgentApply, EnvTypeOK
  <1>13. ASSUME NEW k \in Clusters, NEW n \in MWNames, AgentCleanup(k, n)
         PROVE  HubTypeOK' /\ EnvTypeOK'
    BY <1>1, <1>3, <1>13, PutWorkType DEF AgentCleanup, EnvTypeOK
  <1>14. CASE RefreshMWCache
    BY <1>14 DEF RefreshMWCache, HubTypeOK, EnvTypeOK, cappVars, ocmVars
  <1> QED BY <1>5, <1>6, <1>7, <1>8, <1>9, <1>10, <1>11, <1>12, <1>13, <1>14
         DEF EnvNext, UserNext, AdminNext, AgentNext

LEMMA ManagerType ==
    ASSUME TypeOK, ManagerNext
    PROVE  TypeOK'
  <1> USE DEF TypeOK
  <1>1. ASSUME NEW c \in Capps, NEW obj, Enqueue(c, obj), UNCHANGED <<place, sync>>
        PROVE  PlaceTypeOK' /\ SyncTypeOK'
    BY <1>1 DEF Enqueue, PlaceTypeOK, SyncTypeOK
  <1>2. ASSUME NEW c \in Capps, Deliver(c)
        PROVE  TypeOK'
    <2>1. /\ Head(events[c]) \in CappObjs \cup {None}
          /\ Tail(events[c]) \in Seq(CappObjs \cup {None})
      BY <1>2 DEF Deliver, HubTypeOK
    <2>2. HubTypeOK' /\ EnvTypeOK'
      BY <1>2, <2>1 DEF Deliver, HubTypeOK, EnvTypeOK, mwVars, ocmVars
    <2>3. PlaceTypeOK' /\ SyncTypeOK'
      BY <1>1, <1>2 DEF Deliver
    <2> QED BY <2>2, <2>3
  <1>3. ASSUME NEW c \in Capps, Resync(c)
        PROVE  TypeOK'
    <2>1. HubTypeOK' /\ EnvTypeOK'
      BY <1>3 DEF Resync, HubTypeOK, EnvTypeOK, cappVars, mwVars, ocmVars
    <2>2. PlaceTypeOK' /\ SyncTypeOK'
      BY <1>1, <1>3 DEF Resync
    <2> QED BY <2>1, <2>2
  <1>4. CASE Restart
    <2>1. HubTypeOK' /\ EnvTypeOK'
      BY <1>4, FaultType DEF Restart, HubTypeOK, EnvTypeOK, ocmVars
    <2>2. PlaceTypeOK' /\ SyncTypeOK'
      BY <1>4 DEF Restart, PlaceTypeOK, SyncTypeOK
    <2> QED BY <2>1, <2>2
  <1> QED BY <1>2, <1>3, <1>4 DEF ManagerNext

LEMMA InitType == Init => TypeOK
  <1> SUFFICES ASSUME Init PROVE TypeOK
    OBVIOUS
  <1>1. HubTypeOK
    BY ConstantsAssumption DEF Init, HubInit, HubTypeOK
  <1>2. PlaceTypeOK /\ SyncTypeOK /\ EnvTypeOK
    BY EnvironmentAssumption
       DEF Init, PlaceInit, SyncInit, EnvInit, PlaceTypeOK, SyncTypeOK, EnvTypeOK
  <1> QED BY <1>1, <1>2 DEF TypeOK

LEMMA NextType == TypeOK /\ [Next]_vars => TypeOK'
  <1> SUFFICES ASSUME TypeOK, [Next]_vars PROVE TypeOK'
    OBVIOUS
  <1>1. CASE PlaceNext /\ UNCHANGED <<syncVars, ops>>
    BY <1>1, PlaceType DEF TypeOK, SyncTypeOK, EnvTypeOK, syncVars
  <1>2. CASE SyncNext /\ UNCHANGED <<placeVars, ops>>
    BY <1>2, SyncType DEF TypeOK, PlaceTypeOK, EnvTypeOK, placeVars
  <1>3. CASE ManagerNext
    BY <1>3, ManagerType
  <1>4. CASE EnvNext /\ UNCHANGED <<placeVars, syncVars>>
    BY <1>4, EnvType DEF TypeOK, PlaceTypeOK, SyncTypeOK, placeVars, syncVars
  <1>5. CASE UNCHANGED vars
    BY <1>5 DEF vars, TypeOK, HubTypeOK, PlaceTypeOK, SyncTypeOK, EnvTypeOK,
                cappVars, mwVars, ocmVars, placeVars, syncVars
  <1> QED BY <1>1, <1>2, <1>3, <1>4, <1>5 DEF Next

\* Every variable of the operator, its hub and its environment keeps its type.
THEOREM TypeCorrect == Spec => []TypeOK
  BY InitType, NextType, PTL DEF Spec
-----------------------------------------------------------------------------
(* Consistent copies.                                                      *)

InformerOK == \A c \in Capps : InOrder(c) /\ Guarded(c)

\* A step that keeps every copy consistent and takes no finalizer away.
KeepsCopies ==
    /\ InformerOK'
    /\ \A c \in Capps, obj \in CappObjs : Snapshot(c, obj) => Snapshot(c, obj)'
    /\ \A c \in Capps : ver'[c] - Len(events'[c]) = ver[c] - Len(events[c])
    /\ \A c \in Capps : capp[c] # None /\ capp[c].fin => capp'[c] # None /\ capp'[c].fin

LEMMA UnchangedKeeps ==
    ASSUME InformerOK, UNCHANGED cappVars
    PROVE  KeepsCopies
  BY DEF KeepsCopies, InformerOK, InOrder, Guarded, Seen, Snapshot, cappVars

\* Storing the next version of an object keeps the versions in order; what was
\* seen stays covered by the finalizer if the write keeps it, or if the informer
\* has nothing to show but the deleted object.
LEMMA StoreInOrder ==
    ASSUME CappTypeOK, InformerOK, NEW c \in Capps, NEW obj \in CappObjs \cup {None},
           obj # None => obj.rv = ver[c] + 1, Store(c, obj),
           \/ capp[c] # None /\ capp[c].fin => obj # None /\ obj.fin
           \/ events[c] = <<>> /\ capp[c].deleting
    PROVE  /\ InformerOK'
           /\ \A d \in Capps, x \in CappObjs : Snapshot(d, x) => Snapshot(d, x)'
           /\ \A d \in Capps : ver'[d] - Len(events'[d]) = ver[d] - Len(events[d])
           /\ \A d \in Capps : capp'[d] = IF d = c THEN obj ELSE capp[d]
  <1>1. /\ cache' = cache
        /\ ver'[c] = ver[c] + 1
        /\ capp'[c] = obj
        /\ events'[c] = Append(events[c], obj)
        /\ \A d \in Capps \ {c} : capp'[d] = capp[d] /\ ver'[d] = ver[d] /\ events'[d] = events[d]
    BY DEF CappTypeOK, Store
  <1>2. /\ events[c] \in Seq(CappObjs \cup {None})
        /\ ver[c] \in Nat
    BY DEF CappTypeOK
  <1>3. /\ Len(events'[c]) = Len(events[c]) + 1
        /\ events'[c] # <<>>
        /\ events'[c][Len(events[c]) + 1] = obj
        /\ \A i \in 1..Len(events[c]) : events'[c][i] = events[c][i]
    BY <1>1, <1>2
  <1>4. ASSUME NEW d \in Capps
        PROVE  InOrder(d)'
    <2>1. CASE d = c
      <3>1. InOrder(c)
        BY DEF InformerOK
      <3>2. ASSUME NEW i \in 1..(Len(events[c]) + 1), events'[c][i] # None
            PROVE  events'[c][i].rv = ver'[c] - Len(events'[c]) + i
        <4>1. CASE i = Len(events[c]) + 1
          BY <1>1, <1>2, <1>3, <3>2, <4>1
        <4>2. CASE i \in 1..Len(events[c])
          BY <1>1, <1>2, <1>3, <3>1, <3>2, <4>2 DEF InOrder
        <4> QED BY <1>2, <4>1, <4>2
      <3>3. Len(events[c]) \in Nat
        BY <1>2
      <3>4. Len(events'[c]) <= ver'[c]
        BY <1>1, <1>2, <1>3, <3>1, <3>3 DEF InOrder
      <3>5. capp'[c] # None => capp'[c].rv = ver'[c]
        BY <1>1
      <3>6. cache'[c] # None => cache'[c].rv = ver'[c] - Len(events'[c])
        BY <1>1, <1>2, <1>3, <3>1, <3>3 DEF InOrder
      <3>7. capp'[c] = events'[c][Len(events'[c])]
        BY <1>1, <1>3
      <3>8. \A i \in 1..Len(events'[c]) :
               events'[c][i] # None => events'[c][i].rv = ver'[c] - Len(events'[c]) + i
        BY <1>3, <3>2
      <3> QED BY <1>3, <2>1, <3>4, <3>5, <3>6, <3>7, <3>8 DEF InOrder
    <2>2. CASE d # c
      BY <1>1, <2>2 DEF InformerOK, InOrder
    <2> QED BY <2>1, <2>2
  <1>5. ASSUME NEW d \in Capps
        PROVE  Guarded(d)'
    <2>1. CASE d = c
      <3>1. Seen(c)' = Seen(c) \cup {obj}
        <4>1. 1..Len(events'[c]) = (1..Len(events[c])) \cup {Len(events[c]) + 1}
          BY <1>2, <1>3
        <4> QED BY <1>1, <1>3, <4>1 DEF Seen
      <3>2. InOrder(c) /\ Guarded(c)
        BY DEF InformerOK
      <3>3. CASE capp[c] # None /\ capp[c].fin => obj # None /\ obj.fin
        BY <1>1, <2>1, <3>1, <3>2, <3>3 DEF Guarded
      <3>4. CASE events[c] = <<>> /\ capp[c].deleting
        <4>1. Seen(c) = {capp[c]}
          BY <3>2, <3>4 DEF Seen, InOrder
        <4> QED BY <1>1, <2>1, <3>1, <3>4, <4>1 DEF Guarded
      <3> QED BY <3>3, <3>4
    <2>2. CASE d # c
      BY <1>1, <2>2 DEF InformerOK, Guarded, Seen
    <2> QED BY <2>1, <2>2
  <1>6. ASSUME NEW d \in Capps, NEW x \in CappObjs, Snapshot(d, x)
        PROVE  Snapshot(d, x)'
    BY <1>1, <1>2, <1>6 DEF Snapshot, CappObjs
  <1>7. \A d \in Capps : ver'[d] - Len(events'[d]) = ver[d] - Len(events[d])
    <2>1. ver'[c] - Len(events'[c]) = ver[c] - Len(events[c])
      <3>1. Len(events[c]) \in Nat /\ ver[c] \in Nat
        BY <1>2
      <3>2. ver'[c] = ver[c] + 1
        BY <1>1
      <3>3. Len(events'[c]) = Len(events[c]) + 1
        BY <1>3
      <3> QED BY <3>1, <3>2, <3>3
    <2> QED BY <1>1, <2>1
  <1> QED BY <1>1, <1>4, <1>5, <1>6, <1>7 DEF InformerOK

LEMMA StoreKeeps ==
    ASSUME CappTypeOK, InformerOK, NEW c \in Capps, NEW obj \in CappObjs \cup {None},
           obj # None => obj.rv = ver[c] + 1, Store(c, obj),
           capp[c] # None /\ capp[c].fin => obj # None /\ obj.fin
    PROVE  KeepsCopies
  <1>1. /\ InformerOK'
        /\ \A d \in Capps, x \in CappObjs : Snapshot(d, x) => Snapshot(d, x)'
        /\ \A d \in Capps : ver'[d] - Len(events'[d]) = ver[d] - Len(events[d])
        /\ \A d \in Capps : capp'[d] = IF d = c THEN obj ELSE capp[d]
    BY StoreInOrder
  <1> QED BY <1>1 DEF KeepsCopies

LEMMA WriteKeeps ==
    ASSUME CappTypeOK, InformerOK, NEW c \in Capps, NEW obj \in CappObjs, Write(c, obj),
           capp[c] # None /\ capp[c].fin => obj.fin
    PROVE  KeepsCopies
  <1>1. CASE obj = capp[c]
    BY <1>1, UnchangedKeeps DEF Write
  <1>2. CASE obj # capp[c]
    <2> DEFINE new == [obj EXCEPT !.rv = ver[c] + 1]
    <2>1. ver[c] + 1 \in Nat
      BY DEF CappTypeOK
    <2>2. new \in CappObjs
      BY <2>1, CappFields
    <2>3. new.rv = ver[c] + 1 /\ new.fin = obj.fin
      BY DEF CappObjs
    <2>4. new # None
      BY <2>2, NoneAssumption
    <2>5. Store(c, new)
      BY <1>2 DEF Write
    <2> HIDE DEF new
    <2> QED BY <2>2, <2>3, <2>4, <2>5, StoreKeeps
  <1> QED BY <1>1, <1>2

LEMMA UpdateCappKeeps ==
    ASSUME CappTypeOK, InformerOK, NEW c \in Capps, capp[c] # None, NEW obj \in CappObjs,
           UpdateCapp(c, obj), capp[c].fin => obj.fin
    PROVE  KeepsCopies
  <1> DEFINE new == [obj EXCEPT !.status = capp[c].status]
  <1>1. capp[c].status \in Names \cup {None}
    BY DEF CappTypeOK, CappObjs
  <1>2. new \in CappObjs /\ new.fin = obj.fin
    BY <1>1, CappFields DEF CappObjs
  <1>3. CASE new.deleting /\ ~new.fin
    BY <1>2, <1>3, StoreKeeps DEF UpdateCapp
  <1>4. CASE ~(new.deleting /\ ~new.fin)
    BY <1>2, <1>4, WriteKeeps DEF UpdateCapp
  <1> QED BY <1>3, <1>4

\* A worker that takes no step keeps its copy consistent.
LEMMA PlaceKeeps ==
    ASSUME TypeOK, PlaceSnapshot, KeepsCopies, place' = PlaceIdle \/ UNCHANGED place
    PROVE  PlaceSnapshot'
  BY DEF TypeOK, PlaceTypeOK, PlaceIdle, PlaceSnapshot, KeepsCopies

LEMMA SyncKeeps ==
    ASSUME TypeOK, SyncSnapshot, KeepsCopies, sync' = SyncIdle \/ UNCHANGED sync
    PROVE  SyncSnapshot'
  BY DEF TypeOK, SyncTypeOK, SyncIdle, SyncSnapshot, KeepsCopies

\* A copy on which an optimistic write succeeds is the stored object itself.
LEMMA CurrentCopy ==
    ASSUME CappTypeOK, InformerOK, NEW c \in Capps, NEW obj \in CappObjs,
           Snapshot(c, obj), Current(c, obj)
    PROVE  capp[c] \in CappObjs /\ obj = capp[c]
  BY DEF CappTypeOK, InformerOK, InOrder, Snapshot, Current

\* A copy read from the cache is consistent.
LEMMA CachedCopy ==
    ASSUME CappTypeOK, InformerOK, NEW c \in Capps, cache[c] # None
    PROVE  /\ cache[c] \in CappObjs
           /\ Snapshot(c, cache[c])
           /\ cache[c].rv <= ver[c] - Len(events[c])
  <1>1. /\ cache[c] \in CappObjs
        /\ ver[c] \in Nat
        /\ events[c] \in Seq(CappObjs \cup {None})
        /\ Len(events[c]) \in Nat
        /\ InOrder(c)
    BY DEF CappTypeOK, InformerOK
  <1>2. cache[c].rv = ver[c] => Len(events[c]) = 0
    BY <1>1 DEF InOrder
  <1> QED BY <1>1, <1>2 DEF InOrder, Snapshot
LEMMA PlaceConsistent ==
    ASSUME IInv, PlaceNext
    PROVE  KeepsCopies /\ PlaceSnapshot'
  <1>1. TypeOK /\ CappTypeOK /\ InformerOK /\ PlaceSnapshot
    BY DEF IInv, ConsistentCopies, InformerOK, TypeOK, HubTypeOK, CappTypeOK
  <1>2. ASSUME UNCHANGED cappVars
        PROVE  KeepsCopies
    BY <1>1, <1>2, UnchangedKeeps
  <1>3. ASSUME KeepsCopies, PlaceDone \/ PlaceRetry
        PROVE  PlaceSnapshot'
    BY <1>1, <1>3, PlaceKeeps DEF PlaceDone, PlaceRetry
  <1>4. ASSUME NEW c \in Capps, PlaceGetConfig(c)
        PROVE  KeepsCopies /\ PlaceSnapshot'
    BY <1>2, <1>4 DEF PlaceGetConfig, PlaceIdle, PlaceSnapshot
  <1>5. CASE PlaceSelect
    <2>1. KeepsCopies
      BY <1>2, <1>5 DEF PlaceSelect
    <2>2. place.pc = "select" => place.key \in Capps /\ DOMAIN place = {"pc", "key", "placements", "obj", "dest"}
      BY <1>1 DEF TypeOK, PlaceTypeOK, PlaceIdle
    <2>3. ASSUME NEW x, place.pc = "select", cache[place.key] # None,
                 place' = [place EXCEPT !.pc = "status", !.obj = cache[place.key], !.dest = x]
          PROVE  PlaceSnapshot'
      <3>1. Snapshot(place.key, cache[place.key])
        BY <1>1, <2>2, <2>3, CachedCopy
      <3>2. place'.key = place.key /\ place'.obj = cache[place.key]
        BY <2>2, <2>3
      <3>3. UNCHANGED <<capp, ver>>
        BY <1>5 DEF PlaceSelect, cappVars
      <3> QED BY <3>1, <3>2, <3>3 DEF PlaceSnapshot, Snapshot
    <2> QED BY <1>3, <1>5, <2>1, <2>3 DEF PlaceSelect, PlaceNotFound, PlaceOnSite, PlaceByDecision
  <1>6. ASSUME place.pc \in {"status", "annotate"}
        PROVE  /\ place \in [pc : {"status", "annotate"}, key : Capps, placements : Configs,
                             obj : CappObjs, dest : Names]
               /\ place.key \in Capps
               /\ place.obj \in CappObjs
               /\ place.obj # None
               /\ place.dest \in Names
    BY <1>1, <1>6, NoneAssumption DEF TypeOK, PlaceTypeOK, PlaceIdle
  <1>7. CASE UpdateCappDestination
    <2>1. CASE Current(place.key, place.obj)
      <3> DEFINE new == [capp[place.key] EXCEPT !.status = [place.obj EXCEPT !.status = place.dest].status]
      <3>1. /\ capp[place.key] \in CappObjs
            /\ [place.obj EXCEPT !.status = place.dest].status \in Names \cup {None}
        BY <1>1, <1>6, <1>7, <2>1 DEF UpdateCappDestination, Current, CappTypeOK, CappObjs
      <3>2. new \in CappObjs /\ new.fin = capp[place.key].fin
        BY <3>1, CappFields DEF CappObjs
      <3>3. Write(place.key, new)
        BY <1>7, <2>1 DEF UpdateCappDestination, UpdateCappStatus
      <3>4. KeepsCopies
        <4> HIDE DEF new
        <4> QED BY <1>1, <1>6, <1>7, <3>2, <3>3, WriteKeeps DEF UpdateCappDestination
      <3>5. place'.key = place.key /\ place'.obj = capp'[place.key]
        BY <1>6, <1>7, <2>1 DEF UpdateCappDestination
      <3>6. CappTypeOK'
        BY <1>1, <1>6, <1>7, <3>2, <3>3, WriteType DEF UpdateCappDestination
      <3>7. PICK c \in Capps : c = place.key
        BY <1>6, <1>7 DEF UpdateCappDestination
      <3>8. InOrder(c)' /\ capp'[c] \in CappObjs \cup {None} /\ ver'[c] \in Nat
        BY <3>4, <3>6 DEF KeepsCopies, InformerOK, CappTypeOK
      <3>9. capp'[c] # None => Snapshot(c, capp[c])'
        BY <3>8, NoneAssumption DEF Snapshot, InOrder
      <3>10. PlaceSnapshot'
        BY <3>5, <3>7, <3>9 DEF PlaceSnapshot
      <3> QED BY <3>4, <3>10
    <2>2. CASE ~Current(place.key, place.obj)
      BY <1>2, <1>3, <1>7, <2>2 DEF UpdateCappDestination
    <2> QED BY <2>1, <2>2
  <1>8. CASE AddCappHasPlacementAnnotation
    <2>1. CASE Current(place.key, place.obj) /\ Admitted(place.obj)
      <3> DEFINE new == [place.obj EXCEPT !.anno = place.dest]
      <3>1. capp[place.key] \in CappObjs /\ place.obj = capp[place.key]
        BY <1>1, <1>6, <1>8, <2>1, CurrentCopy DEF AddCappHasPlacementAnnotation, PlaceSnapshot
      <3>2. new \in CappObjs
        BY <1>6, <1>8, CappFields DEF AddCappHasPlacementAnnotation
      <3>3. new.fin = capp[place.key].fin
        BY <3>1 DEF CappObjs
      <3>4. UpdateCapp(place.key, new)
        BY <1>8, <2>1 DEF AddCappHasPlacementAnnotation
      <3>5. KeepsCopies
        <4> HIDE DEF new
        <4> QED BY <1>1, <1>6, <1>8, <2>1, <3>2, <3>3, <3>4, UpdateCappKeeps
               DEF AddCappHasPlacementAnnotation, Current
      <3> QED BY <1>3, <1>8, <2>1, <3>5 DEF AddCappHasPlacementAnnotation
    <2>2. CASE ~(Current(place.key, place.obj) /\ Admitted(place.obj))
      BY <1>2, <1>3, <1>8, <2>2 DEF AddCappHasPlacementAnnotation
    <2> QED BY <2>1, <2>2
  <1>9. CASE PlaceCallFails
    BY <1>2, <1>3, <1>9 DEF PlaceCallFails
  <1> QED BY <1>4, <1>5, <1>7, <1>8, <1>9 DEF PlaceNext
\* Giving up the finalizer: the copy was no newer than the cache and is the
\* stored object, so the informer has nothing else to show than the deleted Capp.
LEMMA RemovalConsistent ==
    ASSUME IInv, sync.pc = "delete", removeFinalizer
    PROVE  /\ InformerOK'
           /\ \A c \in Capps, obj \in CappObjs : Snapshot(c, obj) => Snapshot(c, obj)'
  <1>1. TypeOK /\ CappTypeOK /\ InformerOK /\ SyncSnapshot
    BY DEF IInv, ConsistentCopies, InformerOK, TypeOK, HubTypeOK, CappTypeOK
  <1>2. CASE Current(sync.key, sync.obj) /\ Admitted(sync.obj)
    <2> DEFINE obj == [sync.obj EXCEPT !.fin = FALSE]
               new == [obj EXCEPT !.status = capp[sync.key].status]
    <2>1. sync.key \in Capps /\ sync.obj \in CappObjs
      BY <1>1 DEF TypeOK, SyncTypeOK, SyncIdle
    <2>2. sync.obj = capp[sync.key] /\ capp[sync.key] \in CappObjs
      BY <1>1, <1>2, <2>1, CurrentCopy DEF SyncSnapshot
    <2>3. capp[sync.key].deleting
      BY <1>1, <2>2 DEF SyncSnapshot
    <2>4. new.deleting /\ ~new.fin
      BY <2>2, <2>3 DEF CappObjs
    <2>5. Store(sync.key, None)
      BY <1>2, <2>4 DEF removeFinalizer, UpdateCapp
    <2>6. /\ capp[sync.key].rv = ver[sync.key]
          /\ capp[sync.key].rv <= ver[sync.key] - Len(events[sync.key])
      BY <1>1, <1>2, <2>1, <2>2 DEF SyncSnapshot, InformerOK, InOrder, Current
    <2>7. events[sync.key] = <<>>
      <3>1. ver[sync.key] \in Nat /\ events[sync.key] \in Seq(CappObjs \cup {None})
        BY <1>1, <2>1 DEF CappTypeOK
      <3>2. Len(events[sync.key]) \in Nat
        BY <3>1
      <3>3. Len(events[sync.key]) = 0
        BY <2>6, <3>1, <3>2
      <3> QED BY <3>1, <3>3
    <2> QED BY <1>1, <2>1, <2>3, <2>5, <2>7, StoreInOrder
  <1>3. CASE ~(Current(sync.key, sync.obj) /\ Admitted(sync.obj))
    BY <1>1, <1>3, UnchangedKeeps DEF removeFinalizer, KeepsCopies
  <1> QED BY <1>2, <1>3

LEMMA SyncConsistent ==
    ASSUME IInv, SyncNext, UNCHANGED place
    PROVE  ConsistentCopies'
  <1>1. TypeOK /\ CappTypeOK /\ InformerOK /\ PlaceSnapshot /\ SyncSnapshot
    BY DEF IInv, ConsistentCopies, InformerOK, TypeOK, HubTypeOK, CappTypeOK
  <1>2. ASSUME UNCHANGED cappVars
        PROVE  KeepsCopies
    BY <1>1, <1>2, UnchangedKeeps
  <1>3. ASSUME KeepsCopies, SyncSnapshot'
        PROVE  ConsistentCopies'
    BY <1>1, <1>3, PlaceKeeps DEF ConsistentCopies, KeepsCopies, InformerOK
  <1>4. ASSUME KeepsCopies, SyncDone \/ SyncRetry
        PROVE  ConsistentCopies'
    BY <1>1, <1>3, <1>4, SyncKeeps DEF SyncDone, SyncRetry
  <1>5. ASSUME NEW c \in Capps, SyncBegin(c)
        PROVE  ConsistentCopies'
    <2>1. KeepsCopies /\ UNCHANGED <<capp, ver, events>>
      BY <1>2, <1>5 DEF SyncBegin, cappVars
    <2>2. CASE cache[c] = None
      BY <1>1, <1>3, <1>5, <2>1, <2>2, SyncKeeps DEF SyncBegin
    <2>3. CASE cache[c] # None
      <3>1. /\ cache[c] \in CappObjs
            /\ Snapshot(c, cache[c])
            /\ cache[c].rv <= ver[c] - Len(events[c])
        BY <1>1, <2>3, CachedCopy
      <3>2. cache[c].fin /\ ~cache[c].deleting => capp[c] # None /\ capp[c].fin
        BY <1>1, <2>3 DEF InformerOK, Guarded, Seen
      <3>3. /\ sync'.key = c
            /\ sync'.obj = cache[c]
            /\ sync'.pc = IF cache[c].deleting THEN "delete"
                          ELSE IF cache[c].fin THEN "apply" ELSE "finalizer"
        BY <1>5, <2>3 DEF SyncBegin
      <3>4. SyncSnapshot'
        BY <2>1, <3>1, <3>2, <3>3 DEF SyncSnapshot, Snapshot
      <3> QED BY <1>3, <2>1, <3>4
    <2> QED BY <2>2, <2>3
  <1>6. CASE EnsureFinalizer
    <2>1. sync.key \in Capps /\ sync.obj \in CappObjs
          /\ sync \in [pc : {"finalizer", "apply", "delete"}, key : Capps, obj : CappObjs]
      BY <1>1, <1>6 DEF EnsureFinalizer, TypeOK, SyncTypeOK, SyncIdle
    <2>2. CASE Current(sync.key, sync.obj) /\ Admitted(sync.obj)
      <3> DEFINE new == [sync.obj EXCEPT !.fin = TRUE]
      <3>1. new \in CappObjs /\ new.fin
        BY <2>1, CappFields DEF CappObjs
      <3>2. UpdateCapp(sync.key, new) /\ capp[sync.key] # None
        BY <1>6, <2>2 DEF EnsureFinalizer, Current
      <3>3. KeepsCopies
        <4> HIDE DEF new
        <4> QED BY <1>1, <2>1, <3>1, <3>2, UpdateCappKeeps
      <3>4. PICK c \in Capps : c = sync.key
        BY <2>1
      <3>5. capp'[c] # None /\ capp'[c].fin
        <4> DEFINE put == [new EXCEPT !.status = capp[c].status]
        <4>1. put \in CappObjs /\ put.fin
          <5>1. capp[c].status \in Names \cup {None}
            BY <1>1, <3>2, <3>4 DEF CappTypeOK, CappObjs
          <5> HIDE DEF new
          <5>2. put \in CappObjs
            BY <3>1, <5>1, CappFields
          <5>3. put.fin
            BY <3>1 DEF CappObjs
          <5> QED BY <5>2, <5>3
        <4>2. Write(c, put)
          BY <3>2, <3>4, <4>1 DEF UpdateCapp
        <4>3. ver[c] + 1 \in Nat
          BY <1>1 DEF CappTypeOK
        <4>4. /\ [put EXCEPT !.rv = ver[c] + 1] \in CappObjs
              /\ [put EXCEPT !.rv = ver[c] + 1].fin
          <5> HIDE DEF put
          <5> QED BY <4>1, <4>3, CappFields DEF CappObjs
        <4>5. CASE put = capp[c]
          BY <3>2, <3>4, <4>1, <4>2, <4>5 DEF Write, cappVars
        <4>6. CASE put # capp[c]
          <5> HIDE DEF put
          <5> QED BY <1>1, <4>2, <4>4, <4>6, NoneAssumption DEF Write, Store, CappTypeOK
        <4> QED BY <4>5, <4>6
      <3>6. sync'.key = c /\ sync'.obj = sync.obj /\ sync'.pc = "apply"
        BY <1>6, <2>1, <2>2, <3>4 DEF EnsureFinalizer
      <3>7. PICK obj \in CappObjs : obj = sync.obj
        BY <2>1
      <3>8. Snapshot(c, obj) /\ obj.rv <= ver[c] - Len(events[c]) /\ ~obj.deleting
        BY <1>1, <1>6, <3>4, <3>7 DEF EnsureFinalizer, SyncSnapshot
      <3>9. Snapshot(c, obj)' /\ obj.rv <= ver'[c] - Len(events'[c])
        BY <3>3, <3>8 DEF KeepsCopies
      <3>10. SyncSnapshot'
        BY <3>5, <3>6, <3>7, <3>8, <3>9 DEF SyncSnapshot
      <3> QED BY <1>3, <3>3, <3>10
    <2>3. CASE ~(Current(sync.key, sync.obj) /\ Admitted(sync.obj))
      BY <1>2, <1>4, <1>6, <2>3 DEF EnsureFinalizer
    <2> QED BY <2>2, <2>3
  <1>7. CASE SyncManifestWork
    BY <1>2, <1>4, <1>7 DEF SyncManifestWork, AssembleFails, SyncAnswered, CreateManifestWork, UpdateManifestWork
  <1>8. CASE HandleCappDeletion
    <2>1. CASE UNCHANGED cappVars
      BY <1>2, <1>4, <1>8, <2>1 DEF HandleCappDeletion
    <2>2. CASE removeFinalizer
      <3>1. /\ InformerOK'
            /\ \A c \in Capps, obj \in CappObjs : Snapshot(c, obj) => Snapshot(c, obj)'
        BY <1>8, <2>2, RemovalConsistent DEF HandleCappDeletion
      <3>2. PlaceSnapshot'
        BY <1>1, <3>1 DEF TypeOK, PlaceTypeOK, PlaceIdle, PlaceSnapshot
      <3>3. SyncSnapshot'
        BY <1>8 DEF HandleCappDeletion, SyncRetry, SyncIdle, SyncSnapshot
      <3> QED BY <3>1, <3>2, <3>3 DEF ConsistentCopies, InformerOK
    <2> QED BY <1>8, <2>1, <2>2 DEF HandleCappDeletion, CleanUp, finalizeCapp
  <1>9. CASE SyncCallFails
    BY <1>2, <1>4, <1>9 DEF SyncCallFails
  <1> QED BY <1>5, <1>6, <1>7, <1>8, <1>9 DEF SyncNext
LEMMA EnvConsistent ==
    ASSUME IInv, EnvNext
    PROVE  KeepsCopies
  <1>1. TypeOK /\ CappTypeOK /\ InformerOK
    BY DEF IInv, ConsistentCopies, InformerOK, TypeOK, HubTypeOK, CappTypeOK
  <1>2. ASSUME NEW c \in Capps, NEW site \in Sites, NEW anno \in Clusters \cup {None},
               CreateCapp(c, site, anno)
        PROVE  KeepsCopies
    <2> DEFINE new == ver[c] + 1
               obj == [site |-> site, rev |-> new, anno |-> anno, status |-> None, fin |-> FALSE,
                       deleting |-> FALSE, uid |-> new, rv |-> new]
    <2>1. obj \in CappObjs
      BY <1>1, <1>2, EnvironmentAssumption DEF CappObjs, CappTypeOK, Names
    <2>2. obj.rv = ver[c] + 1
      OBVIOUS
    <2>3. Store(c, obj) /\ capp[c] = None
      BY <1>2 DEF CreateCapp
    <2> HIDE DEF obj
    <2> QED BY <1>1, <2>1, <2>2, <2>3, StoreKeeps
  <1>3. ASSUME NEW c \in Capps, NEW site \in Sites, EditCapp(c, site)
        PROVE  KeepsCopies
    <2> DEFINE obj == [capp[c] EXCEPT !.rev = ver[c] + 1, !.site = site]
    <2>1. capp[c] \in CappObjs /\ ver[c] + 1 \in Nat /\ site \in Names \cup {None}
      BY <1>1, <1>3, EnvironmentAssumption DEF EditCapp, CappTypeOK
    <2>2. obj \in CappObjs
      BY <2>1, CappFields
    <2>3. obj.fin = capp[c].fin
      BY <2>1 DEF CappObjs
    <2>4. Write(c, obj)
      BY <1>3 DEF EditCapp
    <2> HIDE DEF obj
    <2> QED BY <1>1, <2>2, <2>3, <2>4, WriteKeeps
  <1>4. ASSUME NEW c \in Capps, DeleteCapp(c)
        PROVE  KeepsCopies
    <2> DEFINE obj == [capp[c] EXCEPT !.deleting = TRUE]
    <2>1. capp[c] \in CappObjs
      BY <1>1, <1>4 DEF DeleteCapp, CappTypeOK
    <2>2. obj \in CappObjs
      BY <2>1, CappFields
    <2>3. obj.fin = capp[c].fin
      BY <2>1 DEF CappObjs
    <2>4. CASE capp[c].fin
      <3>1. Write(c, obj)
        BY <1>4, <2>4 DEF DeleteCapp
      <3> HIDE DEF obj
      <3> QED BY <1>1, <2>2, <2>3, <3>1, WriteKeeps
    <2>5. CASE ~capp[c].fin
      <3>1. Store(c, None)
        BY <1>4, <2>5 DEF DeleteCapp
      <3> QED BY <1>1, <2>5, <3>1, StoreKeeps
    <2> QED BY <2>4, <2>5
  <1>5. CASE UNCHANGED cappVars
    BY <1>1, <1>5, UnchangedKeeps
  <1>6. AdminNext \/ AgentNext => UNCHANGED cappVars
    BY DEF AdminNext, AgentNext, SetConfig, SetDecision, DetachCluster, AgentApply,
           AgentCleanup, RefreshMWCache
  <1>7. ASSUME NEW c \in Capps, ToggleVolumes(c)
        PROVE  UNCHANGED cappVars
    BY <1>7 DEF ToggleVolumes
  <1> QED BY <1>2, <1>3, <1>4, <1>5, <1>6, <1>7 DEF EnvNext, UserNext

\* The queue of events after its head is taken.
LEMMA TailFacts ==
    ASSUME NEW S, NEW s \in Seq(S), s # <<>>
    PROVE  /\ Len(s) \in Nat
           /\ Len(s) > 0
           /\ Head(s) = s[1]
           /\ Len(Tail(s)) = Len(s) - 1
           /\ \A i \in 1..Len(Tail(s)) : Tail(s)[i] = s[i + 1]
           /\ Tail(s) = <<>> <=> Len(s) = 1
  <1>1. Len(s) \in Nat /\ Len(s) > 0
    OBVIOUS
  <1>2. Head(s) = s[1]
    OBVIOUS
  <1>3. Tail(s) \in Seq(S) /\ Len(Tail(s)) = Len(s) - 1
    OBVIOUS
  <1>4. \A i \in 1..Len(Tail(s)) : Tail(s)[i] = s[i + 1]
    BY <1>1, <1>3
  <1>5. ASSUME NEW t \in Seq(S)
        PROVE  t = <<>> <=> Len(t) = 0
    OBVIOUS
  <1>6. PICK t \in Seq(S) : t = Tail(s)
    BY <1>3
  <1>7. t = <<>> <=> Len(t) = 0
    BY <1>5
  <1>8. Len(t) = 0 <=> Len(s) = 1
    BY <1>1, <1>3, <1>6
  <1>9. Tail(s) = <<>> <=> Len(s) = 1
    BY <1>6, <1>7, <1>8, Zenon
  <1> QED BY <1>1, <1>2, <1>3, <1>4, <1>9

LEMMA ManagerConsistent ==
    ASSUME IInv, ManagerNext
    PROVE  ConsistentCopies'
  <1>1. /\ TypeOK /\ CappTypeOK /\ InformerOK
        /\ PlaceSnapshot /\ SyncSnapshot
    BY DEF IInv, ConsistentCopies, InformerOK, TypeOK, HubTypeOK, CappTypeOK
  <1>2. ASSUME NEW c \in Capps, Deliver(c)
        PROVE  ConsistentCopies'
    <2>1. /\ UNCHANGED <<capp, ver, place, sync>>
          /\ events[c] # <<>>
          /\ cache'[c] = Head(events[c])
          /\ events'[c] = Tail(events[c])
          /\ \A d \in Capps \ {c} : cache'[d] = cache[d] /\ events'[d] = events[d]
      BY <1>1, <1>2 DEF Deliver, CappTypeOK
    <2>2. events[c] \in Seq(CappObjs \cup {None}) /\ ver[c] \in Nat
      BY <1>1 DEF CappTypeOK
    <2>3. /\ Len(events[c]) \in Nat
          /\ Len(events[c]) > 0
          /\ Len(events'[c]) = Len(events[c]) - 1
          /\ cache'[c] = events[c][1]
          /\ \A i \in 1..Len(events'[c]) : events'[c][i] = events[c][i + 1]
          /\ events'[c] = <<>> <=> Len(events[c]) = 1
      BY <2>1, <2>2, TailFacts
    <2>4. InOrder(c) /\ Guarded(c)
      BY <1>1 DEF InformerOK
    <2>5. InOrder(c)'
      <3>1. Len(events'[c]) <= ver'[c]
        BY <2>1, <2>2, <2>3, <2>4 DEF InOrder
      <3>2. capp'[c] # None => capp'[c].rv = ver'[c]
        BY <2>1, <2>4 DEF InOrder
      <3>3. cache'[c] # None => cache'[c].rv = ver'[c] - Len(events'[c])
        <4>1. 1 \in 1..Len(events[c])
          BY <2>3
        <4>2. cache'[c] # None => cache'[c].rv = ver[c] - Len(events[c]) + 1
          BY <2>3, <2>4, <4>1 DEF InOrder
        <4>3. ver[c] - Len(events[c]) + 1 = ver[c] - (Len(events[c]) - 1)
          BY <2>2, <2>3
        <4> QED BY <2>1, <2>3, <4>2, <4>3
      <3>4. ASSUME NEW i \in 1..Len(events'[c]), events'[c][i] # None
            PROVE  events'[c][i].rv = ver'[c] - Len(events'[c]) + i
        <4>1. i + 1 \in 1..Len(events[c]) /\ i \in Nat
          BY <2>3
        <4>2. events'[c][i].rv = ver[c] - Len(events[c]) + (i + 1)
          BY <2>3, <2>4, <3>4, <4>1 DEF InOrder
        <4>3. ver[c] \in Nat /\ Len(events[c]) \in Nat
          BY <2>2
        <4>4. ver[c] - Len(events[c]) + (i + 1) = ver[c] - (Len(events[c]) - 1) + i
          BY <4>1, <4>3
        <4> QED BY <2>1, <2>3, <4>2, <4>4
      <3>5. capp'[c] = IF events'[c] = <<>> THEN cache'[c] ELSE events'[c][Len(events'[c])]
        <4>1. capp'[c] = events[c][Len(events[c])]
          BY <2>1, <2>4 DEF InOrder
        <4>2. CASE Len(events[c]) = 1
          BY <2>3, <4>1, <4>2
        <4>3. CASE Len(events[c]) # 1
          <5>1. Len(events'[c]) \in 1..Len(events'[c]) /\ Len(events'[c]) + 1 = Len(events[c])
            BY <2>3, <4>3
          <5>2. events'[c][Len(events'[c])] = events[c][Len(events'[c]) + 1]
            BY <2>3, <5>1
          <5> QED BY <2>3, <4>1, <4>3, <5>1, <5>2
        <4> QED BY <4>2, <4>3
      <3> QED BY <3>1, <3>2, <3>3, <3>4, <3>5 DEF InOrder
    <2>6. Guarded(c)'
      <3>1. ASSUME NEW x \in Seen(c)'
            PROVE  x \in Seen(c)
        <4>1. CASE x = cache'[c]
          BY <2>3, <4>1 DEF Seen
        <4>2. ASSUME NEW i \in 1..Len(events'[c]), x = events'[c][i]
              PROVE  x \in Seen(c)
          <5>1. i + 1 \in 1..Len(events[c])
            BY <2>3
          <5> QED BY <2>3, <4>2, <5>1 DEF Seen
        <4> QED BY <3>1, <4>1, <4>2 DEF Seen
      <3> QED BY <2>1, <2>4, <3>1 DEF Guarded
    <2>7. ASSUME NEW d \in Capps
          PROVE  InOrder(d)' /\ Guarded(d)'
      <3>1. CASE d = c
        BY <2>5, <2>6, <3>1
      <3>2. CASE d # c
        BY <1>1, <2>1, <3>2 DEF InformerOK, InOrder, Guarded, Seen
      <3> QED BY <3>1, <3>2
    <2>8. PlaceSnapshot'
      BY <1>1, <2>1 DEF PlaceSnapshot, Snapshot
    <2>9. SyncSnapshot'
      <3>1. ASSUME NEW d \in Capps
            PROVE  ver[d] - Len(events[d]) <= ver'[d] - Len(events'[d])
        <4>1. ver[d] \in Nat /\ Len(events[d]) \in Nat
          BY <1>1 DEF CappTypeOK
        <4>2. CASE d = c
          <5>1. ver'[d] = ver[d] /\ Len(events'[d]) = Len(events[d]) - 1
            BY <2>1, <2>3, <4>2
          <5> QED BY <4>1, <5>1
        <4>3. CASE d # c
          <5>1. ver'[d] = ver[d] /\ events'[d] = events[d]
            BY <2>1, <4>3
          <5> QED BY <4>1, <5>1
        <4> QED BY <4>2, <4>3
      <3>2. CASE sync.pc = "idle"
        BY <2>1, <3>2 DEF SyncSnapshot
      <3>3. CASE sync.pc # "idle"
        <4>1. sync.key \in Capps /\ sync.obj.rv \in Nat
          BY <1>1, <3>3 DEF TypeOK, SyncTypeOK, SyncIdle, CappObjs
        <4>2. /\ ver[sync.key] - Len(events[sync.key]) \in Int
              /\ ver'[sync.key] - Len(events'[sync.key]) \in Int
          <5>1. ver[sync.key] \in Nat /\ Len(events[sync.key]) \in Nat
            BY <1>1, <4>1 DEF CappTypeOK
          <5>2. Len(events'[sync.key]) \in Int
            <6>1. CASE sync.key = c
              BY <2>3, <6>1
            <6>2. CASE sync.key # c
              BY <2>1, <4>1, <5>1, <6>2
            <6> QED BY <6>1, <6>2
          <5> QED BY <2>1, <5>1, <5>2
        <4>3. sync.obj.rv <= ver'[sync.key] - Len(events'[sync.key])
          BY <1>1, <3>1, <3>3, <4>1, <4>2 DEF SyncSnapshot
        <4> QED BY <1>1, <2>1, <3>3, <4>3 DEF SyncSnapshot, Snapshot
      <3> QED BY <3>2, <3>3
    <2> QED BY <2>7, <2>8, <2>9 DEF ConsistentCopies
  <1>3. ASSUME NEW c \in Capps, Resync(c)
        PROVE  ConsistentCopies'
    <2>1. KeepsCopies /\ UNCHANGED <<place, sync>>
      BY <1>1, <1>3, UnchangedKeeps DEF Resync
    <2> QED BY <1>1, <2>1, PlaceKeeps, SyncKeeps DEF ConsistentCopies, KeepsCopies, InformerOK
  <1>4. CASE Restart
    <2>1. /\ UNCHANGED <<capp, ver>>
          /\ cache' = capp
          /\ \A c \in Capps : events'[c] = <<>>
          /\ place' = PlaceIdle
          /\ sync' = SyncIdle
      BY <1>4 DEF Restart
    <2>2. ASSUME NEW c \in Capps
          PROVE  InOrder(c)' /\ Guarded(c)'
      <3>1. Len(events'[c]) = 0 /\ ver[c] \in Nat
        BY <1>1, <2>1 DEF CappTypeOK
      <3>2. capp[c] # None => capp[c].rv = ver[c]
        BY <1>1 DEF InformerOK, InOrder
      <3>3. InOrder(c)'
        BY <2>1, <3>1, <3>2 DEF InOrder
      <3>4. Seen(c)' = {capp[c]}
        BY <2>1, <3>1 DEF Seen
      <3>5. Guarded(c)'
        BY <2>1, <3>4 DEF Guarded
      <3> QED BY <3>3, <3>5
    <2>3. PlaceSnapshot' /\ SyncSnapshot'
      BY <2>1 DEF PlaceSnapshot, SyncSnapshot, PlaceIdle, SyncIdle
    <2> QED BY <2>2, <2>3 DEF ConsistentCopies
  <1> QED BY <1>2, <1>3, <1>4 DEF ManagerNext

LEMMA InitConsistent == Init => ConsistentCopies
  <1> SUFFICES ASSUME Init PROVE ConsistentCopies
    OBVIOUS
  <1>1. ASSUME NEW c \in Capps
        PROVE  InOrder(c) /\ Guarded(c)
    BY DEF Init, HubInit, InOrder, Guarded, Seen
  <1>2. PlaceSnapshot /\ SyncSnapshot
    BY DEF Init, PlaceInit, SyncInit, PlaceSnapshot, SyncSnapshot, PlaceIdle, SyncIdle
  <1> QED BY <1>1, <1>2 DEF ConsistentCopies

LEMMA NextConsistent == IInv /\ [Next]_vars => IInv'
  <1> SUFFICES ASSUME IInv, [Next]_vars PROVE IInv'
    OBVIOUS
  <1>1. TypeOK /\ InformerOK /\ PlaceSnapshot /\ SyncSnapshot
    BY DEF IInv, ConsistentCopies, InformerOK
  <1>2. TypeOK'
    BY <1>1, NextType
  <1>3. CASE PlaceNext /\ UNCHANGED <<syncVars, ops>>
    <2>1. KeepsCopies /\ PlaceSnapshot' /\ UNCHANGED sync
      BY <1>3, PlaceConsistent DEF syncVars
    <2> QED BY <1>1, <1>2, <2>1, SyncKeeps DEF IInv, ConsistentCopies, KeepsCopies, InformerOK
  <1>4. CASE SyncNext /\ UNCHANGED <<placeVars, ops>>
    BY <1>2, <1>4, SyncConsistent DEF IInv, placeVars
  <1>5. CASE ManagerNext
    BY <1>2, <1>5, ManagerConsistent DEF IInv
  <1>6. CASE EnvNext /\ UNCHANGED <<placeVars, syncVars>>
    <2>1. KeepsCopies /\ UNCHANGED <<place, sync>>
      BY <1>6, EnvConsistent DEF placeVars, syncVars
    <2> QED BY <1>1, <1>2, <2>1, PlaceKeeps, SyncKeeps
           DEF IInv, ConsistentCopies, KeepsCopies, InformerOK
  <1>7. CASE UNCHANGED vars
    <2>1. KeepsCopies /\ UNCHANGED <<place, sync>>
      BY <1>1, <1>7, UnchangedKeeps DEF vars, placeVars, syncVars
    <2> QED BY <1>1, <1>2, <2>1, PlaceKeeps, SyncKeeps
           DEF IInv, ConsistentCopies, KeepsCopies, InformerOK
  <1> QED BY <1>3, <1>4, <1>5, <1>6, <1>7 DEF Next

\* The copies the two controllers work from stay consistent with the API server
\* in every environment, through conflicts, failed calls and restarts.
THEOREM CopiesConsistent == Spec => []ConsistentCopies
  <1>1. Init => IInv
    BY InitType, InitConsistent DEF IInv
  <1>2. IInv /\ [Next]_vars => IInv'
    BY NextConsistent
  <1>3. IInv => ConsistentCopies
    BY DEF IInv
  <1> QED BY <1>1, <1>2, <1>3, PTL DEF Spec
-----------------------------------------------------------------------------
(* What the operator's steps may do.                                       *)

\* A write changes nothing but the object it is given, and its resourceVersion.
LEMMA WriteEffect ==
    ASSUME CappTypeOK, NEW c \in Capps, NEW obj \in CappObjs, Write(c, obj)
    PROVE  /\ \A d \in Capps \ {c} : capp'[d] = capp[d]
           /\ capp'[c] # None
           /\ capp'[c].site = obj.site
           /\ capp'[c].rev = obj.rev
           /\ capp'[c].anno = obj.anno
           /\ capp'[c].status = obj.status
           /\ capp'[c].fin = obj.fin
           /\ capp'[c].deleting = obj.deleting
           /\ capp'[c].uid = obj.uid
  <1>1. CASE obj = capp[c]
    BY <1>1, NoneAssumption DEF Write, cappVars
  <1>2. CASE obj # capp[c]
    <2> DEFINE new == [obj EXCEPT !.rv = ver[c] + 1]
    <2>1. /\ new.site = obj.site /\ new.rev = obj.rev /\ new.anno = obj.anno
          /\ new.status = obj.status /\ new.fin = obj.fin
          /\ new.deleting = obj.deleting /\ new.uid = obj.uid
      BY DEF CappObjs
    <2>2. ver[c] + 1 \in Nat
      BY DEF CappTypeOK
    <2>3. new \in CappObjs
      BY <2>2, CappFields
    <2>4. new # None
      BY <2>3, NoneAssumption
    <2>5. Store(c, new)
      BY <1>2 DEF Write
    <2> HIDE DEF new
    <2>6. capp' = [capp EXCEPT ![c] = new]
      BY <2>5 DEF Store
    <2> QED BY <2>1, <2>4, <2>6 DEF CappTypeOK
  <1> QED BY <1>1, <1>2

\* An Update whose copy differs from the stored Capp at most in annotation and
\* finalizer takes nothing else along.
LEMMA UpdateCappEffect ==
    ASSUME CappTypeOK, NEW c \in Capps, capp[c] \in CappObjs, NEW obj \in CappObjs,
           obj.site = capp[c].site, obj.rev = capp[c].rev, obj.uid = capp[c].uid,
           obj.deleting = capp[c].deleting, UpdateCapp(c, obj)
    PROVE  /\ \A d \in Capps \ {c} : capp'[d] = capp[d]
           /\ capp'[c] = None => capp[c].deleting
           /\ capp'[c] # None =>
                 /\ capp'[c].site = capp[c].site
                 /\ capp'[c].rev = capp[c].rev
                 /\ capp'[c].uid = capp[c].uid
                 /\ capp'[c].deleting = capp[c].deleting
                 /\ capp'[c].status = capp[c].status
                 /\ capp'[c].anno = obj.anno
                 /\ capp'[c].fin = obj.fin
  <1> DEFINE new == [obj EXCEPT !.status = capp[c].status]
  <1>1. capp[c].status \in Names \cup {None}
    BY DEF CappObjs
  <1>2. new \in CappObjs
    BY <1>1, CappFields
  <1>3. /\ new.site = obj.site /\ new.rev = obj.rev /\ new.anno = obj.anno
        /\ new.status = capp[c].status /\ new.fin = obj.fin
        /\ new.deleting = obj.deleting /\ new.uid = obj.uid
    BY DEF CappObjs
  <1>4. CASE new.deleting /\ ~new.fin
    <2>1. Store(c, None)
      BY <1>4 DEF UpdateCapp
    <2>2. capp' = [capp EXCEPT ![c] = None]
      BY <2>1 DEF Store
    <2> QED BY <1>3, <1>4, <2>2 DEF CappTypeOK
  <1>5. CASE ~(new.deleting /\ ~new.fin)
    <2>1. Write(c, new)
      BY <1>5 DEF UpdateCapp
    <2> HIDE DEF new
    <2> QED BY <1>2, <1>3, <2>1, WriteEffect
  <1> QED BY <1>4, <1>5

LEMMA PlaceLosesNothing ==
    ASSUME IInv, PlaceNext, UNCHANGED sync, NEW c \in Capps
    PROVE  LosesNothing(c)
  <1>1. TypeOK /\ CappTypeOK /\ InformerOK /\ PlaceSnapshot
    BY DEF IInv, ConsistentCopies, InformerOK, TypeOK, HubTypeOK, CappTypeOK
  <1>2. CASE UNCHANGED cappVars
    BY <1>2 DEF LosesNothing, cappVars
  <1>3. ASSUME place.pc \in {"status", "annotate"}
        PROVE  /\ place.key \in Capps
               /\ place.obj \in CappObjs
               /\ place.obj # None
               /\ place.dest \in Names
    BY <1>1, <1>3, NoneAssumption DEF TypeOK, PlaceTypeOK, PlaceIdle
  <1>4. CASE UpdateCappDestination /\ Current(place.key, place.obj)
    <2> DEFINE new == [capp[place.key] EXCEPT !.status = [place.obj EXCEPT !.status = place.dest].status]
    <2>1. /\ capp[place.key] \in CappObjs
          /\ [place.obj EXCEPT !.status = place.dest].status \in Names \cup {None}
      BY <1>1, <1>3, <1>4 DEF UpdateCappDestination, Current, CappTypeOK, CappObjs
    <2>2. new \in CappObjs
      BY <2>1, CappFields
    <2>3. /\ new.site = capp[place.key].site /\ new.rev = capp[place.key].rev
          /\ new.fin = capp[place.key].fin /\ new.uid = capp[place.key].uid
          /\ new.deleting = capp[place.key].deleting
      BY <2>1 DEF CappObjs
    <2>4. Write(place.key, new)
      BY <1>4 DEF UpdateCappDestination, UpdateCappStatus
    <2>5. place.key \in Capps
      BY <1>3, <1>4 DEF UpdateCappDestination
    <2> HIDE DEF new
    <2> QED BY <1>1, <2>2, <2>3, <2>4, <2>5, WriteEffect DEF LosesNothing
  <1>5. CASE AddCappHasPlacementAnnotation /\ Current(place.key, place.obj) /\ Admitted(place.obj)
    <2> DEFINE new == [place.obj EXCEPT !.anno = place.dest]
    <2>1. place.key \in Capps /\ capp[place.key] \in CappObjs /\ place.obj = capp[place.key]
      BY <1>1, <1>3, <1>5, CurrentCopy DEF AddCappHasPlacementAnnotation, PlaceSnapshot
    <2>2. new \in CappObjs
      BY <1>3, <1>5, CappFields DEF AddCappHasPlacementAnnotation
    <2>3. /\ new.site = capp[place.key].site /\ new.rev = capp[place.key].rev
          /\ new.fin = capp[place.key].fin /\ new.uid = capp[place.key].uid
          /\ new.deleting = capp[place.key].deleting
      BY <2>1 DEF CappObjs
    <2>4. UpdateCapp(place.key, new)
      BY <1>5 DEF AddCappHasPlacementAnnotation
    <2> HIDE DEF new
    <2> QED BY <1>1, <2>1, <2>2, <2>3, <2>4, UpdateCappEffect DEF LosesNothing
  <1> QED BY <1>2, <1>4, <1>5
         DEF PlaceNext, PlaceGetConfig, PlaceSelect, UpdateCappDestination,
             AddCappHasPlacementAnnotation, PlaceCallFails

LEMMA SyncLosesNothing ==
    ASSUME IInv, SyncNext, UNCHANGED place, NEW c \in Capps
    PROVE  LosesNothing(c)
  <1>1. TypeOK /\ CappTypeOK /\ InformerOK /\ SyncSnapshot
    BY DEF IInv, ConsistentCopies, InformerOK, TypeOK, HubTypeOK, CappTypeOK
  <1>2. CASE UNCHANGED cappVars
    BY <1>2 DEF LosesNothing, cappVars
  <1>3. ASSUME sync.pc # "idle"
        PROVE  sync.key \in Capps /\ sync.obj \in CappObjs
    BY <1>1, <1>3 DEF TypeOK, SyncTypeOK, SyncIdle
  <1>4. ASSUME NEW fin \in BOOLEAN, sync.pc # "idle", Current(sync.key, sync.obj),
               UpdateCapp(sync.key, [sync.obj EXCEPT !.fin = fin])
        PROVE  LosesNothing(c)
    <2> DEFINE new == [sync.obj EXCEPT !.fin = fin]
    <2>1. capp[sync.key] \in CappObjs /\ sync.obj = capp[sync.key]
      BY <1>1, <1>3, <1>4, CurrentCopy DEF SyncSnapshot
    <2>2. new \in CappObjs
      BY <1>3, <1>4, CappFields
    <2>3. /\ new.site = capp[sync.key].site /\ new.rev = capp[sync.key].rev
          /\ new.anno = capp[sync.key].anno /\ new.uid = capp[sync.key].uid
          /\ new.deleting = capp[sync.key].deleting
      BY <2>1 DEF CappObjs
    <2>4. UpdateCapp(sync.key, new)
      BY <1>4
    <2> HIDE DEF new
    <2> QED BY <1>1, <1>3, <1>4, <2>1, <2>2, <2>3, <2>4, UpdateCappEffect DEF LosesNothing
  <1>5. CASE EnsureFinalizer
    BY <1>2, <1>4, <1>5 DEF EnsureFinalizer
  <1>6. CASE HandleCappDeletion
    BY <1>2, <1>4, <1>6 DEF HandleCappDeletion, CleanUp, finalizeCapp, removeFinalizer
  <1> QED BY <1>2, <1>5, <1>6 DEF SyncNext, SyncBegin, SyncManifestWork, SyncCallFails

\* No controller write undoes a user's edit or deletion, or the other
\* controller's part of the Capp, and only deleted Capps go away, although
\* both controllers write whole objects from copies that may be stale.
THEOREM LostUpdatesExcluded == Spec => NoLostUpdate
  <1>1. Init => IInv
    BY InitType, InitConsistent DEF IInv
  <1>2. IInv /\ [Next]_vars => IInv'
    BY NextConsistent
  <1>3. IInv /\ [Next]_vars => [\A c \in Capps : LosesNothing(c)]_vars
    <2> SUFFICES ASSUME IInv, Next, NEW c \in Capps
                 PROVE  LosesNothing(c)
      OBVIOUS
    <2>1. CASE PlaceNext /\ UNCHANGED <<syncVars, ops>>
      BY <2>1, PlaceLosesNothing DEF syncVars
    <2>2. CASE SyncNext /\ UNCHANGED <<placeVars, ops>>
      BY <2>2, SyncLosesNothing DEF placeVars
    <2>3. CASE UNCHANGED capp
      BY <2>3 DEF LosesNothing
    <2>4. ManagerNext \/ AgentNext \/ AdminNext => UNCHANGED capp
      BY DEF ManagerNext, Deliver, Resync, Restart, AgentNext, AgentApply, AgentCleanup,
             RefreshMWCache, AdminNext, SetConfig, SetDecision, DetachCluster, cappVars
    <2>5. CASE UserNext
      <3>1. Operate
        BY <2>5 DEF UserNext, CreateCapp, EditCapp, DeleteCapp, ToggleVolumes
      <3>2. ops' # ops
        BY <3>1 DEF Operate, IInv, TypeOK, EnvTypeOK
      <3> QED BY <3>2 DEF LosesNothing, OperatorStep
    <2> QED BY <2>1, <2>2, <2>3, <2>4, <2>5 DEF Next, EnvNext
  <1> QED BY <1>1, <1>2, <1>3, PTL DEF Spec, NoLostUpdate
\* Putting a ManifestWork in place touches no other.
LEMMA PutEffect ==
    ASSUME mw \in WorkType, NEW k \in Clusters, NEW n \in MWNames, NEW work,
           PutManifestWork(k, n, work)
    PROVE  \A j \in Clusters, m \in MWNames :
              mw'[j][m] = IF j = k /\ m = n THEN work ELSE mw[j][m]
  BY DEF PutManifestWork, WorkType

\* A ManifestWork only ever appears while its Capp is stored with the cleanup
\* finalizer, whatever users, clusters and crashes do between the reads and the
\* writes of a reconcile.
THEOREM WorkCreatedUnderFinalizer == Spec => CreatedUnderFinalizer
  <1>1. Init => IInv
    BY InitType, InitConsistent DEF IInv
  <1>2. IInv /\ [Next]_vars => IInv'
    BY NextConsistent
  <1>3. IInv /\ [Next]_vars => [\A k \in Clusters, n \in MWNames : Covered(k, n)]_vars
    <2> SUFFICES ASSUME IInv, Next, NEW k \in Clusters, NEW n \in MWNames
                 PROVE  Covered(k, n)
      OBVIOUS
    <2>1. mw \in WorkType /\ clusters \subseteq Clusters
      BY DEF IInv, TypeOK, HubTypeOK, WorkType
    <2>2. CASE UNCHANGED mw
      BY <2>2 DEF Covered
    <2>3. PlaceNext => UNCHANGED mw
      BY DEF PlaceNext, PlaceGetConfig, PlaceSelect, UpdateCappDestination,
             AddCappHasPlacementAnnotation, PlaceCallFails, mwVars
    <2>4. ManagerNext \/ UserNext => UNCHANGED mw
      BY DEF ManagerNext, Deliver, Resync, Restart, UserNext, CreateCapp, EditCapp,
             DeleteCapp, ToggleVolumes, mwVars
    <2>5. CASE AdminNext
      BY <2>1, <2>5
         DEF AdminNext, SetConfig, SetDecision, DetachCluster, mwVars, Covered, WorkType
    <2>6. CASE AgentNext
      <3>1. ASSUME NEW j \in Clusters, NEW m \in MWNames, AgentApply(j, m) \/ AgentCleanup(j, m)
            PROVE  Covered(k, n)
        BY <2>1, <3>1, PutEffect DEF AgentApply, AgentCleanup, Covered
      <3> QED BY <2>2, <2>6, <3>1 DEF AgentNext, RefreshMWCache
    <2>7. CASE SyncNext
      <3>1. CASE SyncManifestWork
        <4> DEFINE m == GenerateMWName(sync.key)
                   j == sync.obj.anno
                   manifests == [capp |-> sync.key, rev |-> sync.obj.rev]
                   work == [manifest |-> manifests, applied |-> None, deleting |-> FALSE]
        <4>1. sync.key \in Capps /\ m \in MWNames
          BY <3>1, MWNameType DEF SyncManifestWork, IInv, TypeOK, SyncTypeOK, SyncIdle
        <4>2. capp[sync.key] # None /\ capp[sync.key].fin
          BY <3>1 DEF SyncManifestWork, IInv, ConsistentCopies, SyncSnapshot
        <4>3. CASE j \in clusters /\ PutManifestWork(j, m, work)
          <5>1. work.manifest.capp = sync.key
            OBVIOUS
          <5>2. mw'[k][n] = work \/ mw'[k][n] = mw[k][n]
            <6> HIDE DEF work, m, j
            <6> QED BY <2>1, <4>1, <4>3, PutEffect
          <5> QED BY <4>2, <5>1, <5>2 DEF Covered
        <4>4. ASSUME GetManifestWork(j, m) # None, UpdateManifestWork(j, m, manifests)
              PROVE  Covered(k, n)
          <5>1. j \in Clusters /\ mwCache[j][m] # None
            BY <4>4 DEF GetManifestWork
          <5>2. CASE mwCache[j][m] = mw[j][m]
            <6>1. PutManifestWork(j, m, [mw[j][m] EXCEPT !.manifest = manifests])
              BY <4>4, <5>2 DEF UpdateManifestWork
            <6> HIDE DEF m, j, manifests
            <6> QED BY <2>1, <4>1, <5>1, <5>2, <6>1, PutEffect DEF Covered
          <5>3. CASE mwCache[j][m] # mw[j][m]
            BY <2>2, <4>4, <5>3 DEF UpdateManifestWork
          <5> QED BY <5>2, <5>3
        <4>5. ASSUME CreateManifestWork(j, m, manifests)
              PROVE  Covered(k, n)
          BY <2>2, <4>3, <4>5 DEF CreateManifestWork
        <4> QED BY <2>2, <3>1, <4>4, <4>5 DEF SyncManifestWork, AssembleFails
      <3>2. CASE HandleCappDeletion
        <4> DEFINE m == GenerateMWName(sync.key)
                   j == sync.obj.status
        <4>1. m \in MWNames
          BY <3>2, MWNameType DEF HandleCappDeletion, IInv, TypeOK, SyncTypeOK, SyncIdle
        <4>2. CASE GetManifestWork(j, m) # None /\ finalizeCapp(j, m)
          <5>1. j \in Clusters
            BY <4>2 DEF GetManifestWork
          <5>2. CASE mw[j][m] # None
            <6>1. PICK work : PutManifestWork(j, m, work)
              BY <4>2, <5>2 DEF finalizeCapp, DeleteManifestWork
            <6> HIDE DEF m, j
            <6> QED BY <2>1, <4>1, <5>1, <5>2, <6>1, PutEffect DEF Covered
          <5>3. CASE mw[j][m] = None
            BY <2>2, <4>2, <5>3 DEF finalizeCapp
          <5> QED BY <5>2, <5>3
        <4> QED BY <2>2, <3>2, <4>2 DEF HandleCappDeletion, CleanUp
      <3>3. SyncNext => \/ SyncManifestWork \/ HandleCappDeletion \/ UNCHANGED mw
        BY DEF SyncNext, SyncBegin, EnsureFinalizer, SyncCallFails, mwVars
      <3> QED BY <2>2, <2>7, <3>1, <3>2, <3>3
    <2> QED BY <2>2, <2>3, <2>4, <2>5, <2>6, <2>7 DEF Next, EnvNext
  <1> QED BY <1>1, <1>2, <1>3, PTL DEF Spec, CreatedUnderFinalizer
=============================================================================
