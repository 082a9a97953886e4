--------------------------- MODULE ManifestsProofs ---------------------------
(***************************************************************************)
(* Proof that published manifests match their Capp, for every set of       *)
(* specs, volumes and RoleBindings and any number of edits and faults.     *)
(***************************************************************************)
EXTENDS Manifests, SequenceProofs

IsSeq(s) == \E S : s \in Seq(S)

\* The first manifests of a list were built for the first names.
Prefix(volumes, names) ==
    /\ IsSeq(volumes)
    /\ \A i \in 1..Len(volumes) : volumes[i].name = names[i]

\* How much of the worker's list is complete at each program counter.
WorkerInv ==
    LET list == worker.list
        names == getResourceVolumesFromContainerSpec[list.capp]
    IN  \/ worker.pc = "idle"
        \/ worker.pc = "configMaps" /\ Prefix(list.configMaps, names.configMaps) /\ list.secrets = <<>>
        \/ worker.pc = "secrets" /\ BuiltFor(list.configMaps, names.configMaps)
                                 /\ Prefix(list.secrets, names.secrets)
        \/ worker.pc \in {"bindings", "apply"} /\ BuiltFor(list.configMaps, names.configMaps)
                                               /\ BuiltFor(list.secrets, names.secrets)

\* The worker's list is a record with the fields of a workload.
Record ==
    worker.pc # "idle" =>
       worker.list = [capp |-> worker.list.capp, configMaps |-> worker.list.configMaps,
                      secrets |-> worker.list.secrets, subjects |-> worker.list.subjects]

IInv == WorkerInv /\ Record /\ ListMatchesCapp

LEMMA EmptyPrefix == \A names : Prefix(<<>>, names)
  BY DEF Prefix, IsSeq

\* Another manifest for the next name.
LEMMA AppendPrefix ==
    ASSUME NEW volumes, NEW names, Prefix(volumes, names), NEW version
    PROVE  Prefix(Append(volumes, BuildVolume(names[Len(volumes) + 1], version)), names)
  <1> DEFINE v == BuildVolume(names[Len(volumes) + 1], version)
             longer == Append(volumes, v)
  <1>1. PICK S : volumes \in Seq(S)
    BY DEF Prefix, IsSeq
  <1>2. volumes \in Seq(S \cup {v}) /\ v \in S \cup {v}
    <2>1. \A i \in 1..Len(volumes) : volumes[i] \in S \cup {v}
      BY <1>1
    <2> HIDE DEF v
    <2>2. Len(volumes) \in Nat /\ volumes \in [1..Len(volumes) -> S \cup {v}]
      BY <1>1, <2>1
    <2> QED BY <2>2, SeqDef
  <1>3. v.name = names[Len(volumes) + 1]
    BY DEF BuildVolume
  <1> HIDE DEF v
  <1>4. longer \in Seq(S \cup {v}) /\ Len(longer) = Len(volumes) + 1 /\ Len(volumes) \in Nat
    BY <1>2
  <1>5. \A i \in 1..Len(longer) : longer[i] = IF i <= Len(volumes) THEN volumes[i] ELSE v
    BY <1>2
  <1>6. \A i \in 1..Len(longer) : longer[i].name = names[i]
    BY <1>3, <1>4, <1>5 DEF Prefix
  <1>7. Prefix(longer, names)
    BY <1>4, <1>6 DEF Prefix, IsSeq
  <1> QED BY <1>7 DEF v

LEMMA CompletePrefix ==
    ASSUME NEW volumes, NEW names, Prefix(volumes, names), Len(volumes) = Len(names)
    PROVE  BuiltFor(volumes, names)
  BY DEF Prefix, BuiltFor

LEMMA ConfigMapKeeps ==
    ASSUME IInv, createConfigMapManifests
    PROVE  IInv'
  <1> DEFINE list == worker.list
             names == getResourceVolumesFromContainerSpec[list.capp]
             done == Len(list.configMaps)
             n == names.configMaps[done + 1]
  <1>1. worker.pc = "configMaps" /\ Prefix(list.configMaps, names.configMaps) /\ list.secrets = <<>>
    BY DEF IInv, WorkerInv, createConfigMapManifests
  <1>2. CASE done = Len(names.configMaps) /\ Continue("secrets", list)
    <2>1. worker' = [pc |-> "secrets", list |-> list] /\ work' = work
      BY <1>2 DEF Continue
    <2>2. BuiltFor(list.configMaps, names.configMaps) /\ Prefix(list.secrets, names.secrets)
      BY <1>1, <1>2, CompletePrefix, EmptyPrefix
    <2> QED BY <1>1, <2>1, <2>2 DEF IInv, WorkerInv, Record, ListMatchesCapp
  <1>3. CASE Retry
    BY <1>3 DEF Retry, Idle, IInv, WorkerInv, Record, ListMatchesCapp
  <1>4. CASE Continue("configMaps",
               [list EXCEPT !.configMaps = Append(@, BuildVolume(n, configMaps[n]))])
    <2> DEFINE longer == Append(list.configMaps, BuildVolume(n, configMaps[n]))
               new == [list EXCEPT !.configMaps = longer]
    <2>1. worker' = [pc |-> "configMaps", list |-> new] /\ work' = work
      BY <1>4 DEF Continue
    <2>2. Prefix(longer, names.configMaps)
      BY <1>1, AppendPrefix
    <2>3. new = [capp |-> list.capp, configMaps |-> longer, secrets |-> list.secrets,
                 subjects |-> list.subjects]
      BY <1>1 DEF IInv, Record
    <2> HIDE DEF new, longer
    <2> QED BY <1>1, <2>1, <2>2, <2>3 DEF IInv, WorkerInv, Record, ListMatchesCapp
  <1> QED BY <1>2, <1>3, <1>4 DEF createConfigMapManifests

LEMMA SecretKeeps ==
    ASSUME IInv, createSecretManifests
    PROVE  IInv'
  <1> DEFINE list == worker.list
             names == getResourceVolumesFromContainerSpec[list.capp]
             done == Len(list.secrets)
             n == names.secrets[done + 1]
  <1>1. /\ worker.pc = "secrets" /\ BuiltFor(list.configMaps, names.configMaps)
        /\ Prefix(list.secrets, names.secrets)
    BY DEF IInv, WorkerInv, createSecretManifests
  <1>2. CASE done = Len(names.secrets) /\ Continue("bindings", list)
    <2>1. worker' = [pc |-> "bindings", list |-> list] /\ work' = work
      BY <1>2 DEF Continue
    <2>2. BuiltFor(list.secrets, names.secrets)
      BY <1>1, <1>2, CompletePrefix
    <2> QED BY <1>1, <2>1, <2>2 DEF IInv, WorkerInv, Record, ListMatchesCapp
  <1>3. CASE Retry
    BY <1>3 DEF Retry, Idle, IInv, WorkerInv, Record, ListMatchesCapp
  <1>4. CASE Continue("secrets", [list EXCEPT !.secrets = Append(@, BuildVolume(n, secrets[n]))])
    <2> DEFINE longer == Append(list.secrets, BuildVolume(n, secrets[n]))
               new == [list EXCEPT !.secrets = longer]
    <2>1. worker' = [pc |-> "secrets", list |-> new] /\ work' = work
      BY <1>4 DEF Continue
    <2>2. Prefix(longer, names.secrets)
      BY <1>1, AppendPrefix
    <2>3. new = [capp |-> list.capp, configMaps |-> list.configMaps, secrets |-> longer,
                 subjects |-> list.subjects]
      BY <1>1 DEF IInv, Record
    <2> HIDE DEF new, longer
    <2> QED BY <1>1, <2>1, <2>2, <2>3 DEF IInv, WorkerInv, Record, ListMatchesCapp
  <1> QED BY <1>2, <1>3, <1>4 DEF createSecretManifests

LEMMA AuthKeeps ==
    ASSUME IInv, AssembleAuth
    PROVE  IInv'
  <1> DEFINE list == worker.list
             subjects == generateSubjectsFromUsers(getUsersfromNamespace(bindings))
             new == [list EXCEPT !.subjects = subjects]
  <1>1. worker' = [pc |-> "apply", list |-> new] /\ work' = work /\ worker.pc = "bindings"
    BY DEF AssembleAuth, Continue
  <1> HIDE DEF subjects
  <1>2. new = [capp |-> list.capp, configMaps |-> list.configMaps, secrets |-> list.secrets,
               subjects |-> subjects]
    BY <1>1 DEF IInv, Record
  <1> HIDE DEF new
  <1> QED BY <1>1, <1>2 DEF IInv, WorkerInv, Record, ListMatchesCapp

LEMMA NextKeeps ==
    ASSUME IInv, [Next]_vars
    PROVE  IInv'
  <1>1. ASSUME UNCHANGED <<worker, work>> PROVE IInv'
    BY <1>1 DEF IInv, WorkerInv, Record, ListMatchesCapp
  <1>2. CASE UNCHANGED vars
    BY <1>1, <1>2 DEF vars
  <1>3. CASE Begin
    <2>1. worker' = [pc |-> "configMaps", list |-> BuildCapp(capp)] /\ work' = work
      BY <1>3 DEF Begin
    <2> QED BY <2>1, EmptyPrefix DEF BuildCapp, IInv, WorkerInv, Record, ListMatchesCapp
  <1>4. CASE Apply
    <2>1. /\ worker' = Idle /\ work' = worker.list
          /\ LET names == getResourceVolumesFromContainerSpec[worker.list.capp]
             IN  /\ BuiltFor(worker.list.configMaps, names.configMaps)
                 /\ BuiltFor(worker.list.secrets, names.secrets)
      BY <1>4 DEF Apply, IInv, WorkerInv
    <2> QED BY <2>1 DEF Idle, IInv, WorkerInv, Record, ListMatchesCapp
  <1>5. CASE Fault
    BY <1>5 DEF Fault, Retry, Idle, IInv, WorkerInv, Record, ListMatchesCapp
  <1>6. ASSUME NEW spec \in Specs, EditCapp(spec) PROVE IInv'
    BY <1>1, <1>6 DEF EditCapp
  <1>7. ASSUME NEW n, WriteConfigMap(n) \/ WriteSecret(n) PROVE IInv'
    BY <1>1, <1>7 DEF WriteConfigMap, WriteSecret
  <1>8. ASSUME NEW rolebindings, SetBindings(rolebindings) PROVE IInv'
    BY <1>1, <1>8 DEF SetBindings
  <1>9. CASE Resync \/ AgentApply
    BY <1>1, <1>9 DEF Resync, AgentApply, hubVars
  <1> QED BY <1>2, <1>3, <1>4, <1>5, <1>6, <1>7, <1>8, <1>9, ConfigMapKeeps, SecretKeeps, AuthKeeps
          DEF Next, WorkerStep

\* Whatever users change while a list is assembled and wherever it fails, a
\* published list holds exactly the volumes that its own Capp names.
THEOREM PublishedListMatches == Spec => []ListMatchesCapp
  <1>1. Init => IInv
    BY DEF Init, Idle, IInv, WorkerInv, Record, ListMatchesCapp
  <1>2. IInv /\ [Next]_vars => IInv'
    BY NextKeeps
  <1>3. IInv => ListMatchesCapp
    BY DEF IInv
  <1> QED BY <1>1, <1>2, <1>3, PTL DEF Spec

-----------------------------------------------------------------------------
(* What a Capp refers to.                                                  *)

LEMMA NamedElements ==
    ASSUME NEW S, NEW names \in Seq(S \cup {None})
    PROVE  /\ Named(names) \in Seq(S)
           /\ Range(Named(names)) = Range(names) \ {None}
  <1> DEFINE parts == [i \in DOMAIN names |-> IF names[i] = None THEN <<>> ELSE <<names[i]>>]
  <1>1. \A i \in 1..Len(names) : parts[i] \in Seq(S)
    OBVIOUS
  <1>2. parts \in Seq(Seq(S)) /\ Len(parts) = Len(names)
    <2>1. Len(names) \in Nat /\ DOMAIN names = 1..Len(names)
      OBVIOUS
    <2>2. parts \in [1..Len(names) -> Seq(S)]
      BY <1>1, <2>1
    <2> HIDE DEF parts
    <2> QED BY <2>1, <2>2, SeqDef
  <1>3. ASSUME NEW i \in 1..Len(names)
        PROVE  Range(parts[i]) = {names[i]} \ {None}
    <2>1. CASE names[i] = None
      <3>1. parts[i] = <<>>
        BY <2>1
      <3> HIDE DEF parts
      <3> QED BY <2>1, <3>1 DEF Range
    <2>2. CASE names[i] # None
      <3>1. parts[i] = <<names[i]>>
        BY <2>2
      <3> HIDE DEF parts
      <3>2. DOMAIN parts[i] = {1} /\ parts[i][1] = names[i]
        BY <3>1
      <3> QED BY <2>2, <3>2 DEF Range
    <2> QED BY <2>1, <2>2
  <1>4. Named(names) = FlattenSeq(parts)
    BY DEF Named
  <1> HIDE DEF parts
  <1>5. Named(names) \in Seq(S) /\ Range(Named(names)) = UNION {Range(parts[i]) : i \in 1..Len(parts)}
    BY <1>2, <1>4, FlattenElements
  <1>6. Range(names) = {names[i] : i \in 1..Len(names)}
    BY DEF Range
  <1>7. UNION {Range(parts[i]) : i \in 1..Len(names)} = {names[i] : i \in 1..Len(names)} \ {None}
    <2> DEFINE Part(i) == Range(parts[i])
               A == UNION {Part(i) : i \in 1..Len(names)}
               B == {names[i] : i \in 1..Len(names)} \ {None}
    <2>1. \A i \in 1..Len(names) : Part(i) = {names[i]} \ {None}
      BY <1>3
    <2> HIDE DEF Part
    <2>2. \A x : x \in A <=> \E i \in 1..Len(names) : x \in Part(i)
      OBVIOUS
    <2>3. \A x : x \in B <=> \E i \in 1..Len(names) : x \in {names[i]} \ {None}
      OBVIOUS
    <2>4. A = B
      <3> HIDE DEF A, B
      <3>1. \A x : x \in A <=> x \in B
        BY <2>1, <2>2, <2>3
      <3> QED BY <3>1
    <2> QED BY <2>4 DEF Part
  <1> QED BY <1>2, <1>5, <1>6, <1>7

\* What containers and volumes refer to directly, a container's variables and those
\* it takes over whole together.
LEMMA GatherElements ==
    ASSUME NEW spec \in CappSpecs
    PROVE  LET refs == gatherConfigEnvFrom(spec.containers) \o gatherConfigValueFrom(spec.containers)
                          \o gatherConfigVolumes(spec.volumes)
           IN  /\ refs \in Seq(Refs)
               /\ Range(refs) = EnvReferences(spec.containers)
                     \cup {[configMap |-> v.configMap, secret |-> v.secret] : v \in Range(spec.volumes)}
  <1> DEFINE cs == spec.containers
             env == [i \in DOMAIN cs |-> cs[i].envFrom]
             val == [i \in DOMAIN cs |-> cs[i].env]
             e == gatherConfigEnvFrom(cs)
             v == gatherConfigValueFrom(cs)
             vols == spec.volumes
             volumes == gatherConfigVolumes(vols)
             ev == e \o v
             ofVolumes == {[configMap |-> w.configMap, secret |-> w.secret] : w \in Range(vols)}
  <1>1. cs \in Seq(Containers) /\ vols \in Seq(Volumes)
    BY DEF CappSpecs
  <1>2. \A i \in 1..Len(cs) : cs[i] \in Containers
    BY <1>1
  <1>3. Len(cs) \in Nat /\ DOMAIN cs = 1..Len(cs)
    BY <1>1
  <1>4. env \in [1..Len(cs) -> Seq(Refs)] /\ val \in [1..Len(cs) -> Seq(Refs)]
    BY <1>2, <1>3 DEF Containers
  <1>5. /\ env \in Seq(Seq(Refs)) /\ Len(env) = Len(cs)
        /\ val \in Seq(Seq(Refs)) /\ Len(val) = Len(cs)
    <2> HIDE DEF env, val, cs
    <2> QED BY <1>3, <1>4, SeqDef
  <1>6. /\ e \in Seq(Refs) /\ Range(e) = UNION {Range(env[i]) : i \in 1..Len(cs)}
        /\ v \in Seq(Refs) /\ Range(v) = UNION {Range(val[i]) : i \in 1..Len(cs)}
    BY <1>5, FlattenElements DEF gatherConfigEnvFrom, gatherConfigValueFrom
  <1>7. Range(e) \cup Range(v) = EnvReferences(cs)
    <2>1. Range(cs) = {cs[i] : i \in 1..Len(cs)}
      BY <1>3 DEF Range
    <2>2. \A i \in 1..Len(cs) : env[i] = cs[i].envFrom /\ val[i] = cs[i].env
      BY <1>3
    <2> HIDE DEF env, val, cs, e, v
    <2> QED BY <1>6, <2>1, <2>2 DEF EnvReferences
  <1>8. volumes \in Seq(Refs) /\ Range(volumes) = ofVolumes
    <2>1. /\ Len(vols) \in Nat /\ DOMAIN vols = 1..Len(vols)
          /\ \A i \in 1..Len(vols) : vols[i] \in Volumes
      BY <1>1
    <2>2. volumes = [i \in 1..Len(vols) |-> [configMap |-> vols[i].configMap, secret |-> vols[i].secret]]
      BY <2>1 DEF gatherConfigVolumes
    <2>3. \A i \in 1..Len(vols) : [configMap |-> vols[i].configMap, secret |-> vols[i].secret] \in Refs
      BY <2>1 DEF Volumes, Refs
    <2>4. Range(vols) = {vols[i] : i \in 1..Len(vols)}
      BY <2>1 DEF Range
    <2> HIDE DEF vols, volumes
    <2>5. volumes \in Seq(Refs)
      BY <2>1, <2>2, <2>3, SeqDef
    <2>6. Range(volumes) = {volumes[i] : i \in 1..Len(vols)}
      BY <2>2 DEF Range
    <2>7. Range(volumes) = {[configMap |-> vols[i].configMap, secret |-> vols[i].secret] : i \in 1..Len(vols)}
      BY <2>2, <2>6
    <2> QED BY <2>4, <2>5, <2>7
  <1> HIDE DEF env, val, e, v
  <1>9. ev \in Seq(Refs) /\ Range(ev) = Range(e) \cup Range(v)
    BY <1>6, RangeConcatenation
  <1> HIDE DEF ev, volumes
  <1>10. ev \o volumes \in Seq(Refs) /\ Range(ev \o volumes) = Range(ev) \cup Range(volumes)
    BY <1>8, <1>9, RangeConcatenation
  <1>11. gatherConfigEnvFrom(cs) \o gatherConfigValueFrom(cs) \o gatherConfigVolumes(spec.volumes)
            = ev \o volumes
    BY DEF e, v, ev, volumes
  <1> QED BY <1>7, <1>8, <1>9, <1>10, <1>11

\* The names gathered from a Capp are those of its direct references, all of them
\* and no others.
LEMMA GatheredNames ==
    ASSUME NEW spec \in Specs
    PROVE  LET names == getResourceVolumesFromContainerSpec[spec]
           IN  /\ names.configMaps \in Seq(ConfigMaps)
               /\ Range(names.configMaps) = ConfigMapsIn(DirectReferences(spec))
               /\ names.secrets \in Seq(Secrets)
               /\ Range(names.secrets) = SecretsIn(DirectReferences(spec))
  <1> DEFINE refs == gatherConfigEnvFrom(spec.containers) \o gatherConfigValueFrom(spec.containers)
                        \o gatherConfigVolumes(spec.volumes)
             cms == [i \in DOMAIN refs |-> refs[i].configMap]
             secs == [i \in DOMAIN refs |-> refs[i].secret]
             names == getResourceVolumesFromContainerSpec[spec]
             pulls == spec.imagePullSecrets
  <1>1. spec \in CappSpecs /\ None \notin ConfigMaps /\ None \notin Secrets
    BY ManifestsAssumption
  <1>2. /\ refs \in Seq(Refs)
        /\ DirectReferences(spec) = Range(refs) \cup {SecretRef(n) : n \in Range(pulls)}
    BY <1>1, GatherElements DEF DirectReferences
  <1>3. names.configMaps = Named(cms) /\ names.secrets = Named(secs) \o pulls
    BY DEF getResourceVolumesFromContainerSpec
  <1> HIDE DEF refs
  <1>4. Len(refs) \in Nat /\ DOMAIN refs = 1..Len(refs) /\ \A i \in 1..Len(refs) : refs[i] \in Refs
    BY <1>2
  <1>5. /\ cms \in [1..Len(refs) -> ConfigMaps \cup {None}]
        /\ secs \in [1..Len(refs) -> Secrets \cup {None}]
    BY <1>4 DEF Refs
  <1>6. /\ Range(cms) = {ref.configMap : ref \in Range(refs)}
        /\ Range(secs) = {ref.secret : ref \in Range(refs)}
    BY <1>4 DEF Range
  <1> HIDE DEF cms, secs, names
  <1>7. cms \in Seq(ConfigMaps \cup {None}) /\ secs \in Seq(Secrets \cup {None})
    BY <1>4, <1>5, SeqDef
  <1>8. Named(cms) \in Seq(ConfigMaps) /\ Range(Named(cms)) = Range(cms) \ {None}
    BY <1>1, <1>7, NamedElements
  <1>9. Named(secs) \in Seq(Secrets) /\ Range(Named(secs)) = Range(secs) \ {None}
    BY <1>1, <1>7, NamedElements
  <1>10. pulls \in Seq(Secrets) /\ Range(pulls) \subseteq Secrets
    BY <1>1 DEF CappSpecs, Range
  <1> HIDE DEF pulls
  <1>11. /\ Named(secs) \o pulls \in Seq(Secrets)
         /\ Range(Named(secs) \o pulls) = Range(Named(secs)) \cup Range(pulls)
    BY <1>9, <1>10, RangeConcatenation
  <1>12. ConfigMapsIn(DirectReferences(spec)) = Range(cms) \ {None}
    <2>1. \A n \in Range(pulls) : SecretRef(n).configMap = None
      BY DEF SecretRef
    <2>2. \A x : x \in ConfigMapsIn(DirectReferences(spec)) <=> x \in Range(cms) \ {None}
      BY <1>2, <1>6, <2>1 DEF ConfigMapsIn
    <2> QED BY <2>2
  <1>13. SecretsIn(DirectReferences(spec)) = (Range(secs) \ {None}) \cup Range(pulls)
    <2>1. \A n \in Range(pulls) : SecretRef(n).secret = n /\ n # None
      BY <1>1, <1>10 DEF SecretRef
    <2>2. \A x : x \in SecretsIn(DirectReferences(spec)) <=> x \in (Range(secs) \ {None}) \cup Range(pulls)
      BY <1>2, <1>6, <2>1 DEF SecretsIn
    <2> QED BY <2>2
  <1> QED BY <1>3, <1>8, <1>9, <1>11, <1>12, <1>13 DEF names

-----------------------------------------------------------------------------
(* The types.                                                              *)

\* Manifests for the names gathered from a Capp of the hub, so far.
LEMMA AppendVolume ==
    ASSUME NEW S, NEW names \in Seq(S), NEW volumes \in Seq(Versioned(S)), Len(volumes) < Len(names),
           NEW versions \in [S -> Nat], versions[names[Len(volumes) + 1]] # 0
    PROVE  Append(volumes, BuildVolume(names[Len(volumes) + 1], versions[names[Len(volumes) + 1]]))
              \in Seq(Versioned(S))
  <1> DEFINE n == names[Len(volumes) + 1]
  <1>1. n \in S
    OBVIOUS
  <1>2. BuildVolume(n, versions[n]) \in Versioned(S)
    BY <1>1 DEF BuildVolume, Versioned
  <1> QED BY <1>2

LEMMA ListIsWorkload ==
    ASSUME TypeOK, worker.pc # "idle"
    PROVE  /\ worker.list \in Workloads
           /\ worker.list = [capp |-> worker.list.capp, configMaps |-> worker.list.configMaps,
                             secrets |-> worker.list.secrets, subjects |-> worker.list.subjects]
  BY DEF TypeOK, Idle, Workloads

LEMMA ContinueKeepsType ==
    ASSUME TypeOK, NEW pc \in {"configMaps", "secrets", "bindings", "apply"},
           NEW list \in Workloads, Continue(pc, list)
    PROVE  TypeOK'
  BY DEF TypeOK, Continue, hubVars

LEMMA RetryKeepsType ==
    ASSUME TypeOK, Retry, faults' \in 0..MaxFaults
    PROVE  TypeOK'
  BY DEF TypeOK, Retry, hubVars

LEMMA ConfigMapKeepsType ==
    ASSUME TypeOK, createConfigMapManifests
    PROVE  TypeOK'
  <1> DEFINE list == worker.list
             names == getResourceVolumesFromContainerSpec[list.capp].configMaps
             done == Len(list.configMaps)
             n == names[done + 1]
             longer == Append(list.configMaps, BuildVolume(n, configMaps[n]))
  <1>1. worker.pc = "configMaps" /\ list \in Workloads
    BY ListIsWorkload DEF createConfigMapManifests
  <1>2. names \in Seq(ConfigMaps) /\ list.configMaps \in Seq(Versioned(ConfigMaps))
    BY <1>1, GatheredNames DEF Workloads
  <1>3. CASE Continue("secrets", list)
    BY <1>1, <1>3, ContinueKeepsType
  <1>4. CASE Retry /\ UNCHANGED faults
    BY <1>4, RetryKeepsType DEF TypeOK
  <1>5. CASE /\ done < Len(names)
             /\ configMaps[n] # 0
             /\ Continue("configMaps", [list EXCEPT !.configMaps = longer])
    <2>1. longer \in Seq(Versioned(ConfigMaps))
      BY <1>2, <1>5, AppendVolume DEF TypeOK
    <2>2. [list EXCEPT !.configMaps = longer] \in Workloads
      <3> HIDE DEF longer, list
      <3> QED BY <1>1, <2>1 DEF Workloads
    <2> QED BY <1>5, <2>2, ContinueKeepsType
  <1> QED BY <1>3, <1>4, <1>5 DEF createConfigMapManifests

LEMMA SecretKeepsType ==
    ASSUME TypeOK, createSecretManifests
    PROVE  TypeOK'
  <1> DEFINE list == worker.list
             names == getResourceVolumesFromContainerSpec[list.capp].secrets
             done == Len(list.secrets)
             n == names[done + 1]
             longer == Append(list.secrets, BuildVolume(n, secrets[n]))
  <1>1. worker.pc = "secrets" /\ list \in Workloads
    BY ListIsWorkload DEF createSecretManifests
  <1>2. names \in Seq(Secrets) /\ list.secrets \in Seq(Versioned(Secrets))
    BY <1>1, GatheredNames DEF Workloads
  <1>3. CASE Continue("bindings", list)
    BY <1>1, <1>3, ContinueKeepsType
  <1>4. CASE Retry /\ UNCHANGED faults
    BY <1>4, RetryKeepsType DEF TypeOK
  <1>5. CASE /\ done < Len(names)
             /\ secrets[n] # 0
             /\ Continue("secrets", [list EXCEPT !.secrets = longer])
    <2>1. longer \in Seq(Versioned(Secrets))
      BY <1>2, <1>5, AppendVolume DEF TypeOK
    <2>2. [list EXCEPT !.secrets = longer] \in Workloads
      <3> HIDE DEF longer, list
      <3> QED BY <1>1, <2>1 DEF Workloads
    <2> QED BY <1>5, <2>2, ContinueKeepsType
  <1> QED BY <1>3, <1>4, <1>5 DEF createSecretManifests

LEMMA AuthKeepsType ==
    ASSUME TypeOK, AssembleAuth
    PROVE  TypeOK'
  <1> DEFINE list == worker.list
             subjects == generateSubjectsFromUsers(getUsersfromNamespace(bindings))
  <1>1. list \in Workloads
    BY ListIsWorkload DEF AssembleAuth
  <1>2. \A rb \in bindings : \A s \in rb.subjects : s.name \in STRING
    BY ManifestsAssumption DEF TypeOK
  <1>3. getUsersfromNamespace(bindings) \subseteq STRING
    BY <1>2 DEF getUsersfromNamespace
  <1>4. subjects \in SUBSET [kind : {"User"}, name : STRING]
    BY <1>3 DEF generateSubjectsFromUsers
  <1>5. [list EXCEPT !.subjects = subjects] \in Workloads
    <2> HIDE DEF subjects, list
    <2> QED BY <1>1, <1>4 DEF Workloads
  <1> QED BY <1>5, ContinueKeepsType DEF AssembleAuth

LEMMA NextKeepsType ==
    ASSUME TypeOK, [Next]_vars
    PROVE  TypeOK'
  <1>1. CASE UNCHANGED vars
    BY <1>1 DEF TypeOK, vars, hubVars
  <1>2. CASE Begin
    <2>1. BuildCapp(capp) \in Workloads
      BY DEF BuildCapp, Workloads, TypeOK
    <2> QED BY <1>2, <2>1 DEF Begin, TypeOK, hubVars
  <1>3. CASE Apply
    <2>1. worker.list \in Workloads
      BY <1>3, ListIsWorkload DEF Apply
    <2> QED BY <1>3, <2>1 DEF Apply, TypeOK, hubVars
  <1>4. CASE Fault
    <2>1. faults' \in 0..MaxFaults
      BY <1>4, ManifestsAssumption DEF Fault, TypeOK
    <2> QED BY <1>4, <2>1, RetryKeepsType DEF Fault
  <1>5. ASSUME NEW spec \in Specs, EditCapp(spec) PROVE TypeOK'
    BY <1>5 DEF EditCapp, Operate, TypeOK
  <1>6. ASSUME NEW n \in ConfigMaps, WriteConfigMap(n) PROVE TypeOK'
    <2>1. configMaps' \in [ConfigMaps -> Nat] /\ ops' \in Nat
      BY <1>6 DEF WriteConfigMap, Operate, TypeOK
    <2> QED BY <1>6, <2>1 DEF WriteConfigMap, TypeOK
  <1>7. ASSUME NEW n \in Secrets, WriteSecret(n) PROVE TypeOK'
    <2>1. secrets' \in [Secrets -> Nat] /\ ops' \in Nat
      BY <1>7 DEF WriteSecret, Operate, TypeOK
    <2> QED BY <1>7, <2>1 DEF WriteSecret, TypeOK
  <1>8. ASSUME NEW rolebindings \in SUBSET Bindings, SetBindings(rolebindings) PROVE TypeOK'
    BY <1>8 DEF SetBindings, Operate, TypeOK
  <1>9. CASE Resync \/ AgentApply
    BY <1>9 DEF Resync, AgentApply, TypeOK, hubVars
  <1> QED BY <1>1, <1>2, <1>3, <1>4, <1>5, <1>6, <1>7, <1>8, <1>9,
             ConfigMapKeepsType, SecretKeepsType, AuthKeepsType DEF Next, WorkerStep

\* Whatever AssembleManifests gathers, and however often it fails and starts again,
\* a list holds only ConfigMaps and Secrets that existed when they were read.
THEOREM ManifestsTypeCorrect == Spec => []TypeOK
  <1>1. Init => TypeOK
    BY ManifestsAssumption DEF Init, Idle, TypeOK
  <1>2. TypeOK /\ [Next]_vars => TypeOK'
    BY NextKeepsType
  <1> QED BY <1>1, <1>2, PTL DEF Spec

-----------------------------------------------------------------------------
(* The ConfigMaps and Secrets beside a published Capp.                      *)

LEMMA BuiltForNames ==
    ASSUME NEW S, NEW names \in Seq(S), NEW volumes \in Seq(Versioned(S)), BuiltFor(volumes, names)
    PROVE  NamesOf(volumes) = Range(names)
  <1>1. /\ DOMAIN names = 1..Len(names) /\ DOMAIN volumes = 1..Len(names)
        /\ \A i \in 1..Len(names) : volumes[i].name = names[i]
    BY DEF BuiltFor
  <1> QED BY <1>1 DEF NamesOf, Range

LEMMA MatchingListIsComplete == TypeOK /\ ListMatchesCapp => DirectlyReferencedPublished
  <1> SUFFICES ASSUME TypeOK, ListMatchesCapp, work # None PROVE DirectlyReferencedPublished
    BY DEF DirectlyReferencedPublished
  <1> DEFINE names == getResourceVolumesFromContainerSpec[work.capp]
  <1>1. /\ work.capp \in Specs
        /\ work.configMaps \in Seq(Versioned(ConfigMaps))
        /\ work.secrets \in Seq(Versioned(Secrets))
    BY DEF TypeOK, Workloads
  <1>2. BuiltFor(work.configMaps, names.configMaps) /\ BuiltFor(work.secrets, names.secrets)
    BY DEF ListMatchesCapp
  <1>3. /\ names.configMaps \in Seq(ConfigMaps)
        /\ Range(names.configMaps) = ConfigMapsIn(DirectReferences(work.capp))
        /\ names.secrets \in Seq(Secrets)
        /\ Range(names.secrets) = SecretsIn(DirectReferences(work.capp))
    BY <1>1, GatheredNames
  <1> HIDE DEF names
  <1>4. NamesOf(work.configMaps) = Range(names.configMaps)
    BY <1>1, <1>2, <1>3, BuiltForNames
  <1>5. NamesOf(work.secrets) = Range(names.secrets)
    BY <1>1, <1>2, <1>3, BuiltForNames
  <1> QED BY <1>3, <1>4, <1>5 DEF DirectlyReferencedPublished

\* Beside a published Capp are the ConfigMaps and Secrets that its containers read,
\* that are volumes of its pods or that its images are pulled with, all of them and
\* no others, for Capps with any number of containers, variables and volumes.
THEOREM DirectReferencesPublished == Spec => []DirectlyReferencedPublished
  BY PublishedListMatches, ManifestsTypeCorrect, MatchingListIsComplete, PTL

-----------------------------------------------------------------------------
(* What dangles.                                                           *)

\* No reference of the spec is one that the gathering passes over.
Gathered(spec) ==
    LET passedOver == EnvReferences(spec.initContainers)
                         \cup UNION {Range(v.sources) : v \in Range(spec.volumes)}
                         \cup {SecretRef(spec.passwordSecret)}
    IN  /\ ConfigMapsIn(passedOver) \subseteq ConfigMapsIn(DirectReferences(spec))
        /\ SecretsIn(passedOver) \subseteq SecretsIn(DirectReferences(spec))

LEMMA GatheredAreAll ==
    ASSUME NEW spec, Gathered(spec)
    PROVE  /\ ConfigMapsIn(References(spec)) = ConfigMapsIn(DirectReferences(spec))
           /\ SecretsIn(References(spec)) = SecretsIn(DirectReferences(spec))
  <1> DEFINE direct == DirectReferences(spec)
             passedOver == EnvReferences(spec.initContainers)
                              \cup UNION {Range(v.sources) : v \in Range(spec.volumes)}
                              \cup {SecretRef(spec.passwordSecret)}
  <1>1. References(spec) = direct \cup passedOver
    BY DEF References
  <1>2. /\ ConfigMapsIn(passedOver) \subseteq ConfigMapsIn(direct)
        /\ SecretsIn(passedOver) \subseteq SecretsIn(direct)
    BY DEF Gathered
  <1> HIDE DEF direct, passedOver
  <1>3. /\ ConfigMapsIn(direct \cup passedOver) = ConfigMapsIn(direct) \cup ConfigMapsIn(passedOver)
        /\ SecretsIn(direct \cup passedOver) = SecretsIn(direct) \cup SecretsIn(passedOver)
    BY DEF ConfigMapsIn, SecretsIn
  <1> QED BY <1>1, <1>2, <1>3 DEF direct

\* Init containers, the sources of projected volumes and the Secret of a log spec
\* are the only references of a Capp that may be left without their object.
THEOREM OnlyPassedOverDangle ==
    ASSUME \A spec \in Specs : Gathered(spec)
    PROVE  Spec => []NothingDangling
  <1>1. TypeOK /\ DirectlyReferencedPublished => NothingDangling
    <2> SUFFICES ASSUME TypeOK, DirectlyReferencedPublished, work # None PROVE NothingDangling
      BY DEF NothingDangling
    <2>1. work.capp \in Specs
      BY DEF TypeOK, Workloads
    <2>2. Gathered(work.capp)
      BY <2>1
    <2> QED BY <2>2, GatheredAreAll DEF DirectlyReferencedPublished, NothingDangling
  <1> QED BY <1>1, ManifestsTypeCorrect, DirectReferencesPublished, PTL
=============================================================================
