--------------------------- MODULE HubEnvironment ---------------------------
(***************************************************************************)
(* Who else acts on the hub: the users who write Capps, the work agents on *)
(* the managed clusters, the ManifestWork informer, and the administrators *)
(* and OCM controllers who change the RCSConfig, the registered clusters   *)
(* and the PlacementDecisions.  All of it is external to the operator; Env *)
(* names the moves an instance allows and MaxOps bounds their number.      *)
(***************************************************************************)
EXTENDS HubApi

CONSTANTS
    Sites,   \* values users write into Spec.Site
    MaxOps   \* bound on the writes of users and administrators

ASSUME EnvironmentAssumption ==
    /\ Sites \subseteq Names \cup {None}
    /\ MaxOps \in Nat

VARIABLE ops  \* writes of users and administrators so far

Operate == ops < MaxOps /\ ops' = ops + 1

-----------------------------------------------------------------------------
(* Users.  Creates and updates pass the validating webhook, deletes do not. *)

\* With "userAnnotates" the manifest may carry a has-placement annotation, as
\* one restored from a backup does.
CreateCapp(c, site, anno) ==
    LET new == ver[c] + 1
        obj == [site |-> site, rev |-> new, anno |-> anno, status |-> None, fin |-> FALSE,
                deleting |-> FALSE, uid |-> new, rv |-> new]
    IN  /\ Operate
        /\ capp[c] = None
        /\ anno # None => "userAnnotates" \in Env
        /\ Admitted(obj)
        /\ Store(c, obj)
        /\ UNCHANGED <<mwVars, ocmVars, faults>>

\* kubectl apply of a new spec; with "siteChange" it may move Spec.Site.
EditCapp(c, site) ==
    LET obj == [capp[c] EXCEPT !.rev = ver[c] + 1, !.site = site]
    IN  /\ Operate
        /\ capp[c] # None
        /\ site # capp[c].site => "siteChange" \in Env
        /\ Admitted(obj)
        /\ Write(c, obj)
        /\ UNCHANGED <<mwVars, ocmVars, faults>>

\* A Capp without finalizer goes at once, another one gets a DeletionTimestamp.
DeleteCapp(c) ==
    /\ Operate
    /\ capp[c] # None
    /\ ~capp[c].deleting
    /\ IF capp[c].fin THEN Write(c, [capp[c] EXCEPT !.deleting = TRUE]) ELSE Store(c, None)
    /\ UNCHANGED <<mwVars, ocmVars, faults>>

\* A ConfigMap or Secret that the Capp refers to is removed, or put (back).
ToggleVolumes(c) ==
    /\ "volumes" \in Env
    /\ Operate
    /\ resolvable' = [resolvable EXCEPT ![c] = ~@]
    /\ UNCHANGED <<cappVars, mwVars, config, clusters, decisions, faults>>

UserNext ==
    \/ \E c \in Capps, site \in Sites, anno \in Clusters \cup {None} : CreateCapp(c, site, anno)
    \/ \E c \in Capps, site \in Sites : EditCapp(c, site)
    \/ \E c \in Capps : DeleteCapp(c) \/ ToggleVolumes(c)

-----------------------------------------------------------------------------
(* Administrators and OCM.                                                 *)

SetConfig(placements) ==
    /\ "configChange" \in Env
    /\ Operate
    /\ config # placements
    /\ config' = placements
    /\ UNCHANGED <<cappVars, mwVars, clusters, decisions, resolvable, faults>>

\* The OCM scheduler decides on a Placement, and with "decisionChange" revises its decision.
SetDecision(p, pds) ==
    /\ decisions[p] # pds
    /\ decisions[p] \notin {None, {}} => "decisionChange" \in Env
    /\ Operate
    /\ decisions' = [decisions EXCEPT ![p] = pds]
    /\ UNCHANGED <<cappVars, mwVars, config, clusters, resolvable, faults>>

\* A ManagedCluster is detached: its namespace goes, and all ManifestWorks in it.
DetachCluster(k) ==
    /\ "clusterLeave" \in Env
    /\ Operate
    /\ k \in clusters
    /\ clusters' = clusters \ {k}
    /\ mw' = [mw EXCEPT ![k] = [n \in MWNames |-> None]]
    /\ UNCHANGED <<cappVars, mwCache, config, decisions, resolvable, faults>>

AdminNext ==
    \/ \E placements \in Configs \cup {None} : SetConfig(placements)
    \/ \E p \in Placements, pds \in Decisions : SetDecision(p, pds)
    \/ \E k \in Clusters : DetachCluster(k)

-----------------------------------------------------------------------------
(* The work agents and the ManifestWork informer.                          *)

AgentApply(k, n) ==
    /\ mw[k][n] # None
    /\ ~mw[k][n].deleting
    /\ mw[k][n].applied # mw[k][n].manifest
    /\ PutManifestWork(k, n, [mw[k][n] EXCEPT !.applied = mw[k][n].manifest])
    /\ UNCHANGED <<cappVars, mwCache, ocmVars, faults, ops>>

\* The agent has removed the workload from its cluster and gives up its finalizer.
AgentCleanup(k, n) ==
    /\ mw[k][n] # None
    /\ mw[k][n].deleting
    /\ PutManifestWork(k, n, None)
    /\ UNCHANGED <<cappVars, mwCache, ocmVars, faults, ops>>

RefreshMWCache ==
    /\ mwCache # mw
    /\ mwCache' = mw
    /\ UNCHANGED <<cappVars, mw, ocmVars, faults, ops>>

AgentNext ==
    \/ \E k \in Clusters, n \in MWNames : AgentApply(k, n) \/ AgentCleanup(k, n)
    \/ RefreshMWCache

EnvTypeOK == ops \in 0..MaxOps

EnvInit == ops = 0

EnvNext == UserNext \/ AdminNext \/ AgentNext
=============================================================================
