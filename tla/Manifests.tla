----------------------------- MODULE Manifests -----------------------------
(***************************************************************************)
(* What a ManifestWork carries.  The sync worker assembles the manifests   *)
(* of one placed Capp read by read, each ConfigMap and Secret, then the    *)
(* RoleBindings, and writes the result, while users edit the Capp, its     *)
(* volumes and the RoleBindings of its namespace.  Only the Capp is        *)
(* watched; the informer's periodic resync brings the rest up to date.     *)
(* The Namespace and Role of a list are the same for every sync and are    *)
(* left out.                                                               *)
(***************************************************************************)
EXTENDS Integers, SequencesExt

CONSTANTS
    ConfigMaps, Secrets, \* names in the Capp's namespace
    Specs,      \* the specs users give the Capp
    Bindings,   \* RoleBindings that may exist in the namespace: [role, subjects]
    None,       \* an absent object or reference
    MaxOps,     \* bound on the writes of users
    MaxFaults   \* bound on failed API calls and crashes

VARIABLES
    capp,       \* the stored Capp's spec
    configMaps, \* configMaps[n]: the version of ConfigMap n, 0 while it does not exist
    secrets,    \* the same for Secrets
    bindings,   \* the RoleBindings in the namespace
    queued,     \* the Capp's key is on the queue
    worker,     \* program counter, the Capp it read and the manifests so far
    work,       \* the stored ManifestWork's manifests, or None
    running,    \* the manifests the work agent has applied, or None
    ops, faults

hubVars == <<capp, configMaps, secrets, bindings>>
vars == <<hubVars, queued, worker, work, running, ops, faults>>

\* A reference: an EnvFromSource, an EnvVarSource or one source of a volume.
Refs == [configMap : ConfigMaps \cup {None}, secret : Secrets \cup {None}]

Containers == [envFrom : Seq(Refs), env : Seq(Refs)]

\* A volume is a ConfigMap, a Secret, or of another kind, which may refer to many:
\* a projected volume to those it combines, a CSI volume to the Secret of its driver.
Volumes == [configMap : ConfigMaps \cup {None}, secret : Secrets \cup {None},
            sources : Seq(Refs)]

\* The template of the pods, and the Secret that an elastic log spec names.
CappSpecs == [containers : Seq(Containers), initContainers : Seq(Containers),
              volumes : Seq(Volumes), imagePullSecrets : Seq(Secrets),
              passwordSecret : Secrets \cup {None}]

ASSUME ManifestsAssumption ==
    /\ Specs \subseteq CappSpecs
    /\ \A rb \in Bindings : \A s \in rb.subjects :
          s.kind \in {"User", "Group", "ServiceAccount"} /\ s.name \in STRING
    /\ None \notin ConfigMaps \cup Secrets
    /\ MaxOps \in Nat
    /\ MaxFaults \in Nat

-----------------------------------------------------------------------------
(* VolumesDirector: the names a Capp refers to.                            *)

gatherConfigEnvFrom(containers) ==
    FlattenSeq([i \in DOMAIN containers |-> containers[i].envFrom])

gatherConfigValueFrom(containers) ==
    FlattenSeq([i \in DOMAIN containers |-> containers[i].env])

\* Faulty variant: the volumes of the pod are forgotten.
gatherConfigVolumesNone(volumes) == <<>>

\* volume.ConfigMap and volume.Secret; the other kinds are passed over.
gatherConfigVolumes(volumes) ==
    [i \in DOMAIN volumes |-> [configMap |-> volumes[i].configMap, secret |-> volumes[i].secret]]

\* The names in a sequence of optional ones.
Named(names) == FlattenSeq([i \in DOMAIN names |-> IF names[i] = None THEN <<>> ELSE <<names[i]>>])

\* The names of ConfigMaps and of Secrets, repetitions included.
getResourceVolumesFromContainerSpec[spec \in Specs] ==
    LET refs == gatherConfigEnvFrom(spec.containers) \o gatherConfigValueFrom(spec.containers)
                   \o gatherConfigVolumes(spec.volumes)
    IN  [configMaps |-> Named([i \in DOMAIN refs |-> refs[i].configMap]),
         secrets |-> Named([i \in DOMAIN refs |-> refs[i].secret]) \o spec.imagePullSecrets]

-----------------------------------------------------------------------------
(* AuthDirector: who may read the logs of the Capp.                        *)

getUsersfromNamespace(rolebindings) ==
    {s.name : s \in UNION {rb.subjects : rb \in {b \in rolebindings : b.role \in {"admin", "logs-reader"}}}}

generateSubjectsFromUsers(users) == [kind : {"User"}, name : users]

-----------------------------------------------------------------------------
(* The worker.                                                             *)

BuildVolume(n, version) == [name |-> n, version |-> version]

\* Manifests of Capp spec that are still to be completed.
BuildCapp(spec) == [capp |-> spec, configMaps |-> <<>>, secrets |-> <<>>, subjects |-> {}]

Idle == [pc |-> "idle", list |-> None]

\* Take the key and Get the Capp.
Begin ==
    /\ worker.pc = "idle"
    /\ queued
    /\ queued' = FALSE
    /\ worker' = [pc |-> "configMaps", list |-> BuildCapp(capp)]
    /\ UNCHANGED <<hubVars, work, running, ops, faults>>

\* An error: back onto the queue, and nothing is written.
Retry == worker' = Idle /\ queued' = TRUE /\ UNCHANGED <<hubVars, work, running, ops>>

Continue(pc, list) ==
    /\ worker' = [pc |-> pc, list |-> list]
    /\ UNCHANGED <<hubVars, queued, work, running, ops, faults>>

\* Faulty variant: a ConfigMap that is missing is not noticed.
createConfigMapManifestsUnchecked ==
    LET list == worker.list
        names == getResourceVolumesFromContainerSpec[list.capp].configMaps
        done == Len(list.configMaps)
        n == names[done + 1]
    IN  /\ worker.pc = "configMaps"
        /\ IF done = Len(names) THEN Continue("secrets", list)
           ELSE Continue("configMaps",
                   [list EXCEPT !.configMaps = Append(@, BuildVolume(n, configMaps[n]))])

\* Get the next ConfigMap; go on to the Secrets after the last one.
createConfigMapManifests ==
    LET list == worker.list
        names == getResourceVolumesFromContainerSpec[list.capp].configMaps
        done == Len(list.configMaps)
        n == names[done + 1]
    IN  /\ worker.pc = "configMaps"
        /\ \/ done = Len(names) /\ Continue("secrets", list)
           \/ done < Len(names) /\ configMaps[n] = 0 /\ Retry /\ UNCHANGED faults
           \/ /\ done < Len(names)
              /\ configMaps[n] # 0
              /\ Continue("configMaps",
                    [list EXCEPT !.configMaps = Append(@, BuildVolume(n, configMaps[n]))])

\* Get the next Secret; go on to the RoleBindings after the last one.
createSecretManifests ==
    LET list == worker.list
        names == getResourceVolumesFromContainerSpec[list.capp].secrets
        done == Len(list.secrets)
        n == names[done + 1]
    IN  /\ worker.pc = "secrets"
        /\ \/ done = Len(names) /\ Continue("bindings", list)
           \/ done < Len(names) /\ secrets[n] = 0 /\ Retry /\ UNCHANGED faults
           \/ /\ done < Len(names)
              /\ secrets[n] # 0
              /\ Continue("secrets",
                    [list EXCEPT !.secrets = Append(@, BuildVolume(n, secrets[n]))])

\* AuthDirector.AssembleManifests
AssembleAuth ==
    /\ worker.pc = "bindings"
    /\ Continue("apply", [worker.list EXCEPT !.subjects =
          generateSubjectsFromUsers(getUsersfromNamespace(bindings))])

\* Faulty variants: the Capp is read again; a work that carries the Capp is left alone.
ApplyReread ==
    /\ worker.pc = "apply"
    /\ work' = [worker.list EXCEPT !.capp = capp]
    /\ worker' = Idle
    /\ UNCHANGED <<hubVars, queued, running, ops, faults>>

ApplyIfNewCapp ==
    /\ worker.pc = "apply"
    /\ work' = IF work # None /\ work.capp = worker.list.capp THEN work ELSE worker.list
    /\ worker' = Idle
    /\ UNCHANGED <<hubVars, queued, running, ops, faults>>

\* Create the ManifestWork, or replace its manifests.
Apply ==
    /\ worker.pc = "apply"
    /\ work' = worker.list
    /\ worker' = Idle
    /\ UNCHANGED <<hubVars, queued, running, ops, faults>>

\* A call fails, or the process dies and starts again with a create event for the Capp.
Fault ==
    /\ faults < MaxFaults
    /\ faults' = faults + 1
    /\ Retry

WorkerStep == Begin \/ createConfigMapManifests \/ createSecretManifests \/ AssembleAuth \/ Apply

-----------------------------------------------------------------------------
(* Users, the Capp informer and the work agent.                            *)

Operate == ops < MaxOps /\ ops' = ops + 1

\* The update event of the Capp puts its key on the queue.
EditCapp(spec) ==
    /\ Operate
    /\ capp' = spec
    /\ queued' = TRUE
    /\ UNCHANGED <<configMaps, secrets, bindings, worker, work, running, faults>>

\* A ConfigMap or Secret is created, changed or removed; no event follows.
WriteConfigMap(n) ==
    /\ Operate
    /\ configMaps' \in {[configMaps EXCEPT ![n] = ops + 1], [configMaps EXCEPT ![n] = 0]}
    /\ UNCHANGED <<capp, secrets, bindings, queued, worker, work, running, faults>>

WriteSecret(n) ==
    /\ Operate
    /\ secrets' \in {[secrets EXCEPT ![n] = ops + 1], [secrets EXCEPT ![n] = 0]}
    /\ UNCHANGED <<capp, configMaps, bindings, queued, worker, work, running, faults>>

SetBindings(rolebindings) ==
    /\ Operate
    /\ bindings' = rolebindings
    /\ UNCHANGED <<capp, configMaps, secrets, queued, worker, work, running, faults>>

Resync ==
    /\ ~queued
    /\ queued' = TRUE
    /\ UNCHANGED <<hubVars, worker, work, running, ops, faults>>

AgentApply ==
    /\ running # work
    /\ running' = work
    /\ UNCHANGED <<hubVars, queued, worker, work, ops, faults>>

-----------------------------------------------------------------------------

Init ==
    /\ capp \in Specs
    /\ configMaps \in [ConfigMaps -> {0, 1}]
    /\ secrets \in [Secrets -> {0, 1}]
    /\ bindings \in SUBSET Bindings
    /\ queued = TRUE
    /\ worker = Idle
    /\ work = None
    /\ running = None
    /\ ops = 1
    /\ faults = 0

Next ==
    \/ WorkerStep
    \/ Fault
    \/ Resync
    \/ AgentApply
    \/ \E spec \in Specs : EditCapp(spec)
    \/ \E n \in ConfigMaps : WriteConfigMap(n)
    \/ \E n \in Secrets : WriteSecret(n)
    \/ \E rolebindings \in SUBSET Bindings : SetBindings(rolebindings)

Spec == Init /\ [][Next]_vars

\* The worker goroutine and the agent keep running, and controller-runtime's
\* cache resyncs every ten hours by default.
FairSpec == Spec /\ WF_vars(WorkerStep) /\ WF_vars(AgentApply) /\ WF_vars(Resync)
-----------------------------------------------------------------------------
(* Properties.                                                             *)

Versioned(names) == [name : names, version : Nat \ {0}]

Workloads == [capp : Specs, configMaps : Seq(Versioned(ConfigMaps)),
              secrets : Seq(Versioned(Secrets)),
              subjects : SUBSET [kind : {"User"}, name : STRING]]

\* Every variable keeps its type.
TypeOK ==
    /\ capp \in Specs
    /\ configMaps \in [ConfigMaps -> Nat]
    /\ secrets \in [Secrets -> Nat]
    /\ bindings \subseteq Bindings
    /\ queued \in BOOLEAN
    /\ worker \in {Idle} \cup [pc : {"configMaps", "secrets", "bindings", "apply"}, list : Workloads]
    /\ work \in Workloads \cup {None}
    /\ running \in Workloads \cup {None}
    /\ ops \in Nat
    /\ faults \in 0..MaxFaults

BuiltFor(volumes, names) ==
    Len(volumes) = Len(names) /\ \A i \in 1..Len(volumes) : volumes[i].name = names[i]

\* The manifests are those of the Capp they come with: whatever was edited,
\* removed or failed while they were fetched, no list is published that is cut
\* short or goes with another revision of the Capp.
ListMatchesCapp ==
    work # None =>
       LET names == getResourceVolumesFromContainerSpec[work.capp]
       IN  BuiltFor(work.configMaps, names.configMaps) /\ BuiltFor(work.secrets, names.secrets)

NamesOf(volumes) == {v.name : v \in Range(volumes)}

EnvReferences(containers) == UNION {Range(c.envFrom) \cup Range(c.env) : c \in Range(containers)}

SecretRef(n) == [configMap |-> None, secret |-> n]

\* What the containers read, the ConfigMaps and Secrets that are volumes, and the
\* Secrets that images are pulled with.
DirectReferences(spec) ==
    EnvReferences(spec.containers)
       \cup {[configMap |-> v.configMap, secret |-> v.secret] : v \in Range(spec.volumes)}
       \cup {SecretRef(n) : n \in Range(spec.imagePullSecrets)}

\* Everything that a Capp refers to.
References(spec) ==
    DirectReferences(spec)
       \cup EnvReferences(spec.initContainers)
       \cup UNION {Range(v.sources) : v \in Range(spec.volumes)}
       \cup {SecretRef(spec.passwordSecret)}

ConfigMapsIn(refs) == {ref.configMap : ref \in refs} \ {None}
SecretsIn(refs) == {ref.secret : ref \in refs} \ {None}

\* Every ConfigMap and Secret that the published Capp refers to directly is published
\* beside it, and no other Secret of the namespace leaves the hub.
DirectlyReferencedPublished ==
    work # None =>
       LET refs == DirectReferences(work.capp)
       IN  /\ NamesOf(work.configMaps) = ConfigMapsIn(refs)
           /\ NamesOf(work.secrets) = SecretsIn(refs)

\* The README: the ManifestWork contains "all the `Secrets` and `Volumes` referenced
\* in the `Capp` CR".
NothingDangling ==
    work # None =>
       LET refs == References(work.capp)
       IN  /\ ConfigMapsIn(refs) \subseteq NamesOf(work.configMaps)
           /\ SecretsIn(refs) \subseteq NamesOf(work.secrets)

\* What AssembleManifests makes of the hub as it is now, if every volume it gathers exists.
Available ==
    LET names == getResourceVolumesFromContainerSpec[capp]
    IN  /\ \A n \in Range(names.configMaps) : configMaps[n] # 0
        /\ \A n \in Range(names.secrets) : secrets[n] # 0

Current ==
    LET names == getResourceVolumesFromContainerSpec[capp]
        readers == UNION {rb.subjects : rb \in {b \in bindings : b.role \in {"admin", "logs-reader"}}}
    IN  [capp |-> capp,
         configMaps |-> [i \in DOMAIN names.configMaps |->
                            BuildVolume(names.configMaps[i], configMaps[names.configMaps[i]])],
         secrets |-> [i \in DOMAIN names.secrets |->
                         BuildVolume(names.secrets[i], secrets[names.secrets[i]])],
         subjects |-> {[kind |-> "User", name |-> s.name] : s \in readers}]

\* A volume or RoleBinding that changes raises no event, and a list may mix
\* versions that never existed together; yet once users stop, the cluster ends
\* up running the Capp with the volumes that are gathered of it and its log readers
\* as they are on the hub, unless one of these volumes is missing.
Refreshed == <>[](Available => running = Current)
=============================================================================
