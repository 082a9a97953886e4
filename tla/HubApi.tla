------------------------------- MODULE HubApi -------------------------------
(***************************************************************************)
(* The hub cluster as the operator's client sees it: the Capp and          *)
(* ManifestWork objects in the API server, the informer caches that every  *)
(* Get and List of mgr.GetClient() reads, optimistic locking on            *)
(* resourceVersion, and the validating webhook that every create and       *)
(* update of a Capp passes, the controllers' own updates included.         *)
(***************************************************************************)
EXTENDS Integers, Sequences, FiniteSets

CONSTANTS
    Capps,        \* Capp keys: [ns, name], each the sequence of its hyphen-separated parts
    Clusters,     \* ManagedClusters that may be registered on the hub
    LocalCluster, \* the cluster name "local-cluster"
    Placements,   \* names of Placement objects
    Configs,      \* values RCSConfig.spec.placements may take
    Decisions,    \* sets of PlacementDecisions; one decision is a sequence of cluster names
    None,         \* an absent object, and the empty string
    Env,          \* the environment's moves that this instance allows
    MaxFaults     \* bound on failed API calls, lost answers and crashes

VARIABLES
    capp,       \* capp[c]: the stored Capp, or None
    ver,        \* ver[c]: resourceVersion of the last write to key c, deletions included
    cache,      \* cache[c]: the Capp informer's copy
    events,     \* events[c]: watch events the informer has not delivered yet
    mw,         \* mw[k][n]: the ManifestWork named n in the namespace of cluster k
    mwCache,    \* the ManifestWork informer's copy of mw
    config,     \* RCSConfig.spec.placements, None while rcs-config does not exist
    clusters,   \* the ManagedClusters registered now
    decisions,  \* decisions[p]: PlacementDecisions of Placement p, None if p does not exist
    resolvable, \* resolvable[c]: every ConfigMap and Secret the Capp refers to exists
    faults      \* faults that have happened

cappVars == <<capp, ver, cache, events>>
mwVars == <<mw, mwCache>>
ocmVars == <<config, clusters, decisions, resolvable>>

Names == Clusters \cup Placements

\* namespaceManifestWorkPrefix + capp.Namespace + "-" + capp.Name, in hyphen-separated parts.
GenerateMWName(c) == c.ns \o c.name

MWNames == {GenerateMWName(c) : c \in Capps}

\* A manifest list is told apart by the Capp it carries and that Capp's spec revision.
Workloads == [capp : Capps, rev : Nat]

CappObjs == [site : Names \cup {None},    \* Spec.Site
             rev : Nat,                   \* resourceVersion at the last write of the spec
             anno : Names \cup {None},    \* annotation rcs.dana.io/has-placement
             status : Names \cup {None},  \* Status.ApplicationLinks.Site
             fin : BOOLEAN,               \* finalizer dana.io/capp-cleanup
             deleting : BOOLEAN,          \* DeletionTimestamp is set
             uid : Nat,
             rv : Nat]                    \* ResourceVersion

MWObjs == [manifest : Workloads,
           applied : Workloads \cup {None}, \* what the work agent runs on the cluster
           deleting : BOOLEAN]

ASSUME ConstantsAssumption ==
    /\ Configs \subseteq Seq(Placements)
    /\ \A ds \in Decisions : \A d \in ds : d \in Seq(Clusters \cup {None})
    /\ LocalCluster \in Clusters
    /\ MaxFaults \in Nat

ASSUME NoneAssumption ==
    /\ None \notin CappObjs
    /\ None \notin MWObjs
    /\ None \notin Workloads
    /\ None \notin Names
    /\ None \notin Configs

-----------------------------------------------------------------------------
(* Reads.                                                                  *)

ContainsPlacementAnnotation(obj) == obj.anno # None

Listed(placements) == {placements[i] : i \in DOMAIN placements}

isSiteValid(obj, placements) ==
    obj.site = None \/ obj.site \in clusters \/ obj.site \in Listed(placements)

\* The verdict of CappValidator.handle on a write that leaves hostname and log
\* spec as they are; without an RCSConfig both webhooks refuse.
Admitted(obj) == config # None /\ isSiteValid(obj, config)

\* r.Get of a ManifestWork in namespace k: a cached read; None is NotFound.
GetManifestWork(k, n) == IF k \in Clusters THEN mwCache[k][n] ELSE None

\* The ManifestWork informer may lag behind the API server.
MWCacheReadable == "mwLag" \in Env \/ mwCache = mw

-----------------------------------------------------------------------------
(* Writes.                                                                 *)

\* Store obj (None: remove the object) under key c and emit the watch event.
Store(c, obj) ==
    /\ capp' = [capp EXCEPT ![c] = obj]
    /\ ver' = [ver EXCEPT ![c] = @ + 1]
    /\ events' = [events EXCEPT ![c] = Append(@, obj)]
    /\ UNCHANGED cache

\* The API server skips a write that changes nothing.
Write(c, obj) ==
    IF obj = capp[c] THEN UNCHANGED cappVars
    ELSE Store(c, [obj EXCEPT !.rv = ver[c] + 1])

\* Optimistic locking: a write based on another version than the stored one is a conflict.
Current(c, obj) == capp[c] # None /\ capp[c].rv = obj.rv

\* r.Update: status is a subresource, and an object that is being deleted goes
\* away with its last finalizer.
UpdateCapp(c, obj) ==
    LET new == [obj EXCEPT !.status = capp[c].status]
    IN IF new.deleting /\ ~new.fin THEN Store(c, None) ELSE Write(c, new)

\* r.Status().Update: only the status is taken from obj; no webhook is called.
UpdateCappStatus(c, obj) == Write(c, [capp[c] EXCEPT !.status = obj.status])

PutManifestWork(k, n, work) == mw' = [mw EXCEPT ![k][n] = work]

\* r.Delete of a ManifestWork: the work agent's finalizer keeps an applied one.
DeleteManifestWork(k, n) ==
    PutManifestWork(k, n, IF mw[k][n].applied = None THEN None
                          ELSE [mw[k][n] EXCEPT !.deleting = TRUE])

\* An API call fails, or its answer is lost.
Fault == faults < MaxFaults /\ faults' = faults + 1

-----------------------------------------------------------------------------

HubTypeOK ==
    /\ capp \in [Capps -> CappObjs \cup {None}]
    /\ ver \in [Capps -> Nat]
    /\ cache \in [Capps -> CappObjs \cup {None}]
    /\ events \in [Capps -> Seq(CappObjs \cup {None})]
    /\ mw \in [Clusters -> [MWNames -> MWObjs \cup {None}]]
    /\ mwCache \in [Clusters -> [MWNames -> MWObjs \cup {None}]]
    /\ config \in Configs \cup {None}
    /\ clusters \subseteq Clusters
    /\ decisions \in [Placements -> Decisions \cup {None}]
    /\ resolvable \in [Capps -> BOOLEAN]
    /\ faults \in 0..MaxFaults

HubInit ==
    /\ capp = [c \in Capps |-> None]
    /\ ver = [c \in Capps |-> 0]
    /\ cache = capp
    /\ events = [c \in Capps |-> <<>>]
    /\ mw = [k \in Clusters |-> [n \in MWNames |-> None]]
    /\ mwCache = mw
    /\ config \in Configs
    /\ clusters = Clusters
    /\ decisions \in [Placements -> Decisions \cup {None}]
    /\ resolvable \in [Capps -> BOOLEAN]
    /\ "volumes" \notin Env => \A c \in Capps : resolvable[c]
    /\ faults = 0
=============================================================================
