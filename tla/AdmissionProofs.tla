--------------------------- MODULE AdmissionProofs ---------------------------
(***************************************************************************)
(* Proofs about Admission for every set of Capps, users, specs, RCSConfigs *)
(* and hostnames, and any number of requests.                              *)
(***************************************************************************)
EXTENDS Admission, SequenceTheorems, TLAPS

-----------------------------------------------------------------------------
(* The mutating webhook's functions.                                       *)

LEMMA ListType ==
    ASSUME NEW list \in ResourceLists
    PROVE  /\ Set(list) \subseteq ResourceNames
           /\ \A r \in Set(list) : list[r] \in Quantities
           /\ list # None => Set(list) = DOMAIN list
  <1>1. CASE list = None
    BY <1>1 DEF Set
  <1>2. CASE list # None
    <2>1. PICK F \in {[D -> Quantities] : D \in SUBSET ResourceNames} : list \in F
      BY <1>2 DEF ResourceLists
    <2>2. PICK D \in SUBSET ResourceNames : F = [D -> Quantities]
      BY <2>1
    <2> QED BY <1>2, <2>1, <2>2 DEF Set
  <1> QED BY <1>1, <1>2

LEMMA MapType ==
    ASSUME NEW D \in SUBSET ResourceNames, NEW list \in [D -> Quantities]
    PROVE  list \in ResourceLists /\ list # None
  <1>1. [D -> Quantities] \in {[E -> Quantities] : E \in SUBSET ResourceNames}
    OBVIOUS
  <1>2. list \in UNION {[E -> Quantities] : E \in SUBSET ResourceNames}
    BY <1>1
  <1> QED BY <1>2, AdmissionAssumption DEF ResourceLists

\* What the loop of setResourceQuantity leaves in a list that is there.
Filled(list, default) ==
    [r \in DOMAIN list \cup (Set(default) \cap {"cpu", "memory"}) |->
        IF r \in DOMAIN list THEN list[r] ELSE default[r]]

LEMMA FilledType ==
    ASSUME NEW list \in ResourceLists, NEW default \in ResourceLists, list # None
    PROVE  Filled(list, default) \in ResourceLists /\ Filled(list, default) # None
  <1> DEFINE D == DOMAIN list \cup (Set(default) \cap {"cpu", "memory"})
  <1>1. D \in SUBSET ResourceNames
    BY ListType
  <1>2. \A r \in D : (IF r \in DOMAIN list THEN list[r] ELSE default[r]) \in Quantities
    BY ListType
  <1>3. Filled(list, default) \in [D -> Quantities]
    BY <1>2 DEF Filled
  <1> QED BY <1>1, <1>3, MapType

LEMMA QuantityType ==
    ASSUME NEW list \in ResourceLists, NEW default \in ResourceLists
    PROVE  OmitEmpty(setResourceQuantity(list, default)) \in ResourceLists
  <1>1. None \in ResourceLists
    BY DEF ResourceLists
  <1>2. setResourceQuantity(list, default) \in ResourceLists
    BY <1>1, FilledType DEF setResourceQuantity, Filled
  <1> QED BY <1>1, <1>2 DEF OmitEmpty

LEMMA ContainerType ==
    ASSUME NEW containers \in Seq(Requirements), NEW i \in DOMAIN containers
    PROVE  /\ containers[i].requests \in ResourceLists
           /\ containers[i].limits \in ResourceLists
  <1>1. containers[i] \in Requirements
    OBVIOUS
  <1> QED BY <1>1 DEF Requirements

LEMMA ResourcesType ==
    ASSUME NEW containers \in Seq(Requirements), NEW default \in Requirements
    PROVE  mutateResources(containers, default) \in Seq(Requirements)
  <1> DEFINE n == Len(containers)
             new == mutateResources(containers, default)
  <1>1. n \in Nat /\ DOMAIN containers = 1..n
    OBVIOUS
  <1>2. \A i \in 1..n : /\ containers[i].requests \in ResourceLists
                        /\ containers[i].limits \in ResourceLists
    BY <1>1, ContainerType
  <1>3. default.requests \in ResourceLists /\ default.limits \in ResourceLists
    BY DEF Requirements
  <1>4. new \in [1..n -> Requirements]
    BY <1>1, <1>2, <1>3, QuantityType DEF mutateResources, Requirements
  <1> QED BY <1>1, <1>4, SeqDef

\* A second call of setResourceQuantity with the same defaults changes nothing.
LEMMA QuantityIdempotent ==
    ASSUME NEW list \in ResourceLists, NEW default \in ResourceLists
    PROVE  OmitEmpty(setResourceQuantity(OmitEmpty(setResourceQuantity(list, default)), default))
              = OmitEmpty(setResourceQuantity(list, default))
  <1> DEFINE fill == Set(default) \cap {"cpu", "memory"}
             filled == Filled(list, default)
             once == OmitEmpty(setResourceQuantity(list, default))
  <1>1. CASE list = None
    BY <1>1 DEF setResourceQuantity, OmitEmpty
  <1>2. CASE list # None
    <2>1. setResourceQuantity(list, default) = filled
      BY <1>2 DEF setResourceQuantity, Filled
    <2>2. filled # None /\ Set(filled) = DOMAIN filled /\ fill \subseteq DOMAIN filled
      BY <1>2, FilledType, ListType DEF Filled
    <2>3. Filled(filled, default) = filled
      <3>1. filled = [r \in DOMAIN filled |-> filled[r]]
        BY DEF Filled
      <3>2. DOMAIN filled \cup fill = DOMAIN filled
        BY <2>2
      <3> HIDE DEF filled
      <3>3. Filled(filled, default) = [r \in DOMAIN filled |-> filled[r]]
        BY <3>2 DEF Filled
      <3> QED BY <3>1, <3>3
    <2>4. CASE DOMAIN filled = {}
      BY <2>1, <2>2, <2>4 DEF OmitEmpty, setResourceQuantity
    <2>5. CASE DOMAIN filled # {}
      <3>1. once = filled
        BY <2>1, <2>2, <2>5 DEF OmitEmpty
      <3>2. setResourceQuantity(filled, default) = filled
        BY <2>2, <2>3 DEF setResourceQuantity, Filled
      <3> QED BY <2>1, <3>1, <3>2
    <2> QED BY <2>4, <2>5
  <1> QED BY <1>1, <1>2

\* mutateResources is idempotent.
LEMMA ResourcesIdempotent ==
    ASSUME NEW containers \in Seq(Requirements), NEW default \in Requirements
    PROVE  mutateResources(mutateResources(containers, default), default)
              = mutateResources(containers, default)
  <1> DEFINE once == mutateResources(containers, default)
             twice == mutateResources(once, default)
  <1>1. default.requests \in ResourceLists /\ default.limits \in ResourceLists
    BY DEF Requirements
  <1>2. \A i \in DOMAIN containers : /\ containers[i].requests \in ResourceLists
                                     /\ containers[i].limits \in ResourceLists
    BY ContainerType
  <1>3. DOMAIN once = DOMAIN containers /\ DOMAIN twice = DOMAIN once
    BY DEF mutateResources
  <1>4. ASSUME NEW i \in DOMAIN containers PROVE twice[i] = once[i]
    <2>1. once[i] =
            [requests |-> OmitEmpty(setResourceQuantity(containers[i].requests, default.requests)),
             limits |-> OmitEmpty(setResourceQuantity(containers[i].limits, default.limits))]
      BY DEF mutateResources
    <2>2. twice[i] =
            [requests |-> OmitEmpty(setResourceQuantity(once[i].requests, default.requests)),
             limits |-> OmitEmpty(setResourceQuantity(once[i].limits, default.limits))]
      BY <1>3 DEF mutateResources
    <2> HIDE DEF once, twice
    <2> QED BY <1>1, <1>2, <2>1, <2>2, QuantityIdempotent
  <1>5. once = [i \in DOMAIN once |-> once[i]] /\ twice = [i \in DOMAIN twice |-> twice[i]]
    BY DEF mutateResources
  <1>6. twice = once
    <2> HIDE DEF once, twice
    <2> QED BY <1>3, <1>4, <1>5
  <1> QED BY <1>6

\* What was in a list stays in it.
LEMMA QuantityExtends ==
    ASSUME NEW list \in ResourceLists, NEW default \in ResourceLists
    PROVE  Extends(OmitEmpty(setResourceQuantity(list, default)), list)
  <1> DEFINE filled == Filled(list, default)
  <1>1. CASE Set(list) = {}
    BY <1>1 DEF Extends
  <1>2. CASE Set(list) # {}
    <2>1. list # None /\ Set(list) = DOMAIN list
      BY <1>2 DEF Set
    <2>2. setResourceQuantity(list, default) = filled
      BY <2>1 DEF setResourceQuantity, Filled
    <2>3. filled # None /\ Set(filled) = DOMAIN filled
      BY <2>1, FilledType, ListType
    <2>4. DOMAIN list \subseteq DOMAIN filled /\ \A r \in DOMAIN list : filled[r] = list[r]
      BY DEF Filled
    <2> HIDE DEF filled
    <2>5. OmitEmpty(filled) = filled
      BY <1>2, <2>1, <2>3, <2>4 DEF OmitEmpty
    <2> QED BY <2>1, <2>2, <2>3, <2>4, <2>5 DEF Extends
  <1> QED BY <1>1, <1>2

LEMMA ResourcesKeep ==
    ASSUME NEW containers \in Seq(Requirements), NEW default \in Requirements
    PROVE  Keeps(mutateResources(containers, default), containers)
  <1>1. default.requests \in ResourceLists /\ default.limits \in ResourceLists
    BY DEF Requirements
  <1>2. \A i \in DOMAIN containers : /\ containers[i].requests \in ResourceLists
                                     /\ containers[i].limits \in ResourceLists
    BY ContainerType
  <1> QED BY <1>1, <1>2, QuantityExtends DEF mutateResources, Keeps

LEMMA KeepsTransitive ==
    ASSUME NEW a, NEW b, NEW c, Keeps(a, b), Keeps(b, c)
    PROVE  Keeps(a, c)
  BY DEF Keeps, Extends

LEMMA KeepsReflexive == ASSUME NEW a PROVE Keeps(a, a)
  BY DEF Keeps, Extends

-----------------------------------------------------------------------------
(* Types.                                                                  *)

Live == [pc : {"mutate", "validate", "store"}, key : Capps, old : CappObjs \cup {None},
         new : CappObjs, defaults : Requirements \cup {None}, vetted : BOOLEAN,
         sent : Seq(Requirements)]

LEMMA LiveType ==
    ASSUME TypeOK, NEW u \in Requesters, request[u].pc # "none"
    PROVE  request[u] \in Live
  BY DEF TypeOK, Requests, Live, NoRequest

LEMMA ObjType ==
    ASSUME NEW obj \in CappObjs
    PROVE  /\ obj.spec \in CappSpecs /\ obj.updatedBy \in Users \cup {None}
           /\ obj.spec.containers \in Seq(Requirements)
           /\ \A n \in Nat : [obj EXCEPT !.rv = n] \in CappObjs
  BY DEF CappObjs, CappSpecs

LEMMA MutatedType ==
    ASSUME NEW obj \in CappObjs, NEW u \in Requesters, NEW default \in Requirements
    PROVE  Mutated(obj, u, default) \in CappObjs
  <1>1. mutateAnnotations(obj.updatedBy, u) \in Users \cup {None}
    BY ObjType, RequesterAssumption DEF mutateAnnotations, Requesters
  <1>2. mutateResources(obj.spec.containers, default) \in Seq(Requirements)
    BY ObjType, ResourcesType
  <1> QED BY <1>1, <1>2 DEF Mutated, CappObjs, CappSpecs

LEMMA SendType ==
    ASSUME TypeOK, NEW u \in Requesters, NEW c \in Capps, NEW new \in CappObjs, Send(u, c, new)
    PROVE  TypeOK'
  <1> DEFINE r == [NoRequest EXCEPT !.pc = "mutate", !.key = c, !.old = capp[c], !.new = new,
                                    !.sent = new.spec.containers]
  <1>1. r \in Live
    BY ObjType DEF TypeOK, NoRequest, Live
  <1>2. r \in Requests
    BY <1>1 DEF Requests, Live
  <1>3. request' = [request EXCEPT ![u] = r]
    BY DEF Send
  <1> HIDE DEF r
  <1>4. request' \in [Requesters -> Requests]
    BY <1>2, <1>3 DEF TypeOK
  <1>5. ops' \in 0..MaxOps
    BY AdmissionAssumption DEF TypeOK, Send, Operate
  <1> QED BY <1>4, <1>5 DEF TypeOK, Send, hubVars, history

LEMMA SubmitType ==
    ASSUME TypeOK, NEW u \in Users, NEW c \in Capps, NEW spec \in Specs, Submit(u, c, spec)
    PROVE  TypeOK'
  <1> DEFINE new == [spec |-> spec, rv |-> 0,
                     updatedBy |-> IF capp[c] = None THEN None ELSE capp[c].updatedBy]
  <1>1. new \in CappObjs
    <2>1. (IF capp[c] = None THEN None ELSE capp[c].updatedBy) \in Users \cup {None}
      BY ObjType DEF TypeOK
    <2> QED BY <2>1, AdmissionAssumption DEF CappObjs
  <1>2. Send(u, c, new)
    BY DEF Submit
  <1> QED BY <1>1, <1>2, SendType DEF Requesters

LEMMA RefuseType ==
    ASSUME TypeOK, NEW u \in Requesters, Refuse(u)
    PROVE  request' \in [Requesters -> Requests]
  BY DEF TypeOK, Refuse, Requests

LEMMA MutateType ==
    ASSUME TypeOK, NEW u \in Requesters, Mutate(u)
    PROVE  TypeOK'
  <1>1. CASE config = None
    <2>1. request' \in [Requesters -> Requests]
      BY <1>1, RefuseType DEF Mutate
    <2> QED BY <2>1 DEF TypeOK, Mutate, hubVars, history
  <1>2. CASE config # None
    <2> DEFINE r == [request[u] EXCEPT !.pc = "validate",
                       !.new = Mutated(request[u].new, u, config.defaults),
                       !.defaults = config.defaults]
    <2>1. request[u] \in Live
      BY LiveType DEF Mutate
    <2>2. config.defaults \in Requirements
      BY <1>2, AdmissionAssumption DEF TypeOK, RCSConfigSpec
    <2>3. Mutated(request[u].new, u, config.defaults) \in CappObjs
      BY <2>1, <2>2, MutatedType DEF Live
    <2>4. r \in Live
      BY <2>1, <2>2, <2>3 DEF Live
    <2>5. request' = [request EXCEPT ![u] = r]
      BY <1>2, <2>1 DEF Mutate, TypeOK, Live
    <2> HIDE DEF r
    <2>6. request' \in [Requesters -> Requests]
      BY <2>4, <2>5 DEF TypeOK, Requests, Live
    <2> QED BY <2>6 DEF TypeOK, Mutate, hubVars, history
  <1> QED BY <1>1, <1>2

LEMMA ValidateType ==
    ASSUME TypeOK, NEW u \in Requesters, Validate(u)
    PROVE  TypeOK'
  <1>1. request[u] \in Live
    BY LiveType DEF Validate
  <1>2. request' \in [Requesters -> Requests]
    <2>1. CASE Refuse(u)
      BY <2>1, RefuseType
    <2>2. CASE ~Refuse(u)
      <3>1. PICK lookup \in Lookups(request[u].new.spec.hostname) :
               request' = [request EXCEPT ![u].pc = "store", ![u].vetted =
                  /\ request[u].new.spec.hostname # Hostname(request[u].old)
                  /\ validateDomainName(request[u].new.spec.hostname, config.patterns, lookup)]
        BY <2>2 DEF Validate
      <3> DEFINE v == /\ request[u].new.spec.hostname # Hostname(request[u].old)
                      /\ validateDomainName(request[u].new.spec.hostname, config.patterns, lookup)
                 r == [request[u] EXCEPT !.pc = "store", !.vetted = v]
      <3>2. v \in BOOLEAN
        BY DEF validateDomainName
      <3> HIDE DEF v
      <3>3. r \in Live
        BY <1>1, <3>2 DEF Live
      <3>4. request' = [request EXCEPT ![u] = r]
        BY <3>1, <1>1 DEF TypeOK, Live, v
      <3> HIDE DEF r
      <3> QED BY <3>3, <3>4 DEF TypeOK, Requests, Live
    <2> QED BY <2>1, <2>2
  <1> QED BY <1>2 DEF TypeOK, Validate, hubVars, history

LEMMA PersistType ==
    ASSUME TypeOK, NEW u \in Requesters, Persist(u)
    PROVE  TypeOK'
  <1>1. request[u] \in Live
    BY LiveType DEF Persist
  <1>2. request' \in [Requesters -> Requests]
    BY RefuseType DEF Persist
  <1>3. CASE Store(u)
    <2> DEFINE c == request[u].key
               new == [request[u].new EXCEPT !.rv = ver[c] + 1]
    <2>1. c \in Capps /\ ver[c] + 1 \in Nat
      BY <1>1 DEF Live, TypeOK
    <2>2. new \in CappObjs
      BY <1>1, <2>1, ObjType DEF Live
    <2>3. capp' = [capp EXCEPT ![c] = new] /\ ver' = [ver EXCEPT ![c] = ver[c] + 1]
      BY <1>3, <2>1 DEF Store, TypeOK
    <2> HIDE DEF new
    <2>4. capp' \in [Capps -> CappObjs \cup {None}] /\ ver' \in [Capps -> Nat]
      BY <2>1, <2>2, <2>3 DEF TypeOK
    <2>5. author' \in [Capps -> Users \cup {None}]
      BY <1>3 DEF Store, TypeOK, Requesters
    <2>6. /\ asked' \in [Capps -> Seq(Requirements)]
          /\ defaults' \in [Capps -> Requirements \cup {None}]
      BY <1>1, <1>3 DEF Store, TypeOK, Live
    <2> QED BY <1>2, <2>4, <2>5, <2>6 DEF TypeOK, Persist, hubVars
  <1>4. CASE UNCHANGED <<capp, ver, history>>
    BY <1>2, <1>4 DEF TypeOK, Persist, hubVars, history
  <1> QED BY <1>3, <1>4 DEF Persist

LEMMA NextType ==
    ASSUME TypeOK, [Next]_vars
    PROVE  TypeOK'
  <1>1. CASE UNCHANGED vars
    BY <1>1 DEF vars, hubVars, history, TypeOK
  <1>2. ASSUME NEW u \in Users, NEW c \in Capps, NEW spec \in Specs, Submit(u, c, spec)
        PROVE  TypeOK'
    BY <1>2, SubmitType
  <1>3. ASSUME NEW c \in Capps, OperatorUpdate(c) PROVE TypeOK'
    BY <1>3, SendType DEF OperatorUpdate, Requesters, TypeOK
  <1>4. ASSUME NEW c \in Capps, Remove(c) PROVE TypeOK'
    BY <1>4, AdmissionAssumption DEF Remove, Operate, TypeOK, hubVars, history
  <1>5. ASSUME NEW u \in Requesters, Mutate(u) \/ Validate(u) \/ Persist(u) PROVE TypeOK'
    BY <1>5, MutateType, ValidateType, PersistType
  <1>6. ASSUME NEW spec \in Configs \cup {None}, SetConfig(spec) PROVE TypeOK'
    BY <1>6 DEF SetConfig, TypeOK, history
  <1>7. ASSUME NEW managedClusters \in SUBSET Clusters, SetClusters(managedClusters) PROVE TypeOK'
    BY <1>7 DEF SetClusters, TypeOK, history
  <1>8. ASSUME NEW hostnames \in SUBSET Hostnames, SetDns(hostnames) PROVE TypeOK'
    BY <1>8 DEF SetDns, TypeOK, history
  <1> QED BY <1>1, <1>2, <1>3, <1>4, <1>5, <1>6, <1>7, <1>8 DEF Next

LEMMA InitType == ASSUME Init PROVE TypeOK
  BY AdmissionAssumption DEF Init, TypeOK, Requests

\* Whatever users, operator and administrators do, every variable keeps its type.
THEOREM AdmissionTypeCorrect == Spec => []TypeOK
  BY InitType, NextType, PTL DEF Spec
-----------------------------------------------------------------------------
(* The inductive invariant: the requests under way are consistent with the *)
(* objects they were read from, and with them all that is stored.          *)

\* What holds of a stored Capp.
Sound(c) ==
    Stored(c) =>
       /\ capp[c].spec.log # EmptyLogSpec => validateLogSpec(capp[c].spec.log)
       /\ capp[c].updatedBy = author[c]
       /\ Keeps(capp[c].spec.containers, asked[c])
       /\ mutateResources(capp[c].spec.containers, defaults[c]) = capp[c].spec.containers

IInv ==
    /\ TypeOK
    /\ \A u \in Requesters : Consistent(u)
    /\ \A c \in Capps : Sound(c)

LEMMA OperatorIsNoUser == Operator \notin Users
  BY RequesterAssumption

\* Steps that leave a request, or a stored Capp and its history, alone.
LEMMA ConsistentFrame ==
    ASSUME NEW u, Consistent(u), request'[u] = request[u]
    PROVE  Consistent(u)'
  BY DEF Consistent

LEMMA SoundFrame ==
    ASSUME NEW c, Sound(c), capp'[c] = capp[c], author'[c] = author[c],
           asked'[c] = asked[c], defaults'[c] = defaults[c]
    PROVE  Sound(c)'
  BY DEF Sound, Stored

LEMMA RefuseConsistent ==
    ASSUME TypeOK, NEW u \in Requesters, Refuse(u), \A v \in Requesters : Consistent(v)
    PROVE  \A v \in Requesters : Consistent(v)'
  <1>1. Consistent(u)'
    BY DEF Consistent, Refuse, NoRequest, TypeOK
  <1>2. \A v \in Requesters \ {u} : request'[v] = request[v]
    BY DEF Refuse, TypeOK
  <1> QED BY <1>1, <1>2, ConsistentFrame

LEMMA SendConsistent ==
    ASSUME IInv, NEW u \in Requesters, NEW c \in Capps, NEW new \in CappObjs, Send(u, c, new),
           u = Operator => capp[c] # None /\ new = capp[c]
    PROVE  IInv'
  <1>1. TypeOK'
    BY SendType DEF IInv
  <1> DEFINE r == [NoRequest EXCEPT !.pc = "mutate", !.key = c, !.old = capp[c], !.new = new,
                                    !.sent = new.spec.containers]
  <1>2. request'[u] = r /\ \A v \in Requesters \ {u} : request'[v] = request[v]
    BY DEF Send, IInv, TypeOK
  <1>3. /\ r.pc = "mutate" /\ r.old = capp[c] /\ r.new = new
        /\ r.sent = new.spec.containers
    BY DEF NoRequest
  <1> HIDE DEF r
  <1>4. Consistent(u)'
    BY <1>2, <1>3, KeepsReflexive DEF Consistent
  <1>5. \A v \in Requesters : Consistent(v)'
    BY <1>2, <1>4, ConsistentFrame DEF IInv
  <1>6. \A d \in Capps : Sound(d)'
    BY SoundFrame DEF IInv, Send, history
  <1> QED BY <1>1, <1>5, <1>6 DEF IInv

LEMMA MutateConsistent ==
    ASSUME IInv, NEW u \in Requesters, Mutate(u), config # None
    PROVE  Consistent(u)'
  <1> DEFINE r == request[u]
             s == request'[u]
             base == IF u = Operator THEN r.old.spec.containers ELSE r.sent
  <1>1. r \in Live /\ r.pc = "mutate" /\ Consistent(u)
    BY LiveType DEF IInv, Mutate
  <1>2. /\ s.pc = "validate" /\ s.old = r.old /\ s.sent = r.sent
        /\ s.new = Mutated(r.new, u, config.defaults) /\ s.defaults = config.defaults
    BY <1>1 DEF Mutate, IInv, TypeOK, Live
  <1>3. r.new \in CappObjs /\ r.new.spec.containers \in Seq(Requirements)
    BY <1>1, ObjType DEF Live
  <1>4. config.defaults \in Requirements
    BY AdmissionAssumption DEF IInv, TypeOK, RCSConfigSpec
  <1>5. /\ s.new.spec.containers = mutateResources(r.new.spec.containers, config.defaults)
        /\ s.new.updatedBy = mutateAnnotations(r.new.updatedBy, u)
    BY <1>2, <1>3 DEF Mutated, CappObjs, CappSpecs
  <1>6. Keeps(r.new.spec.containers, base)
    BY <1>1 DEF Consistent
  <1>7. Keeps(s.new.spec.containers, base)
    BY <1>3, <1>4, <1>5, <1>6, ResourcesKeep, KeepsTransitive
  <1>8. s.new.updatedBy = IF u = Operator THEN r.old.updatedBy ELSE u
    BY <1>1, <1>5, RequesterAssumption DEF mutateAnnotations, Requesters, Consistent
  <1>9. mutateResources(s.new.spec.containers, s.defaults) = s.new.spec.containers
    BY <1>2, <1>3, <1>4, <1>5, ResourcesIdempotent
  <1>10. u = Operator => s.old # None
    BY <1>1, <1>2 DEF Consistent
  <1> QED BY <1>2, <1>7, <1>8, <1>9, <1>10 DEF Consistent

LEMMA MutateKeeps ==
    ASSUME IInv, NEW u \in Requesters, Mutate(u)
    PROVE  IInv'
  <1>1. TypeOK'
    BY MutateType DEF IInv
  <1>2. \A v \in Requesters : Consistent(v)'
    <2>1. CASE config = None
      BY <2>1, RefuseConsistent DEF IInv, Mutate
    <2>2. CASE config # None
      <3>1. \A v \in Requesters \ {u} : request'[v] = request[v]
        BY <2>2 DEF Mutate, IInv, TypeOK
      <3> QED BY <2>2, <3>1, MutateConsistent, ConsistentFrame DEF IInv
    <2> QED BY <2>1, <2>2
  <1>3. \A d \in Capps : Sound(d)'
    BY SoundFrame DEF IInv, Mutate, history
  <1> QED BY <1>1, <1>2, <1>3 DEF IInv

LEMMA ValidateConsistent ==
    ASSUME IInv, NEW u \in Requesters, Validate(u), ~Refuse(u)
    PROVE  Consistent(u)'
  <1> DEFINE r == request[u]
             s == request'[u]
  <1>1. r \in Live /\ r.pc = "validate" /\ Consistent(u)
    BY LiveType DEF IInv, Validate
  <1>2. PICK managedClusters \in {clusters, {}}, lookup \in Lookups(r.new.spec.hostname) :
           /\ handle(r.new, r.old, managedClusters, lookup)
           /\ request' = [request EXCEPT ![u].pc = "store", ![u].vetted =
                  /\ r.new.spec.hostname # Hostname(r.old)
                  /\ validateDomainName(r.new.spec.hostname, config.patterns, lookup)]
    BY DEF Validate
  <1>3. /\ s.pc = "store" /\ s.old = r.old /\ s.new = r.new /\ s.sent = r.sent
        /\ s.defaults = r.defaults
        /\ s.vetted = (/\ r.new.spec.hostname # Hostname(r.old)
                       /\ validateDomainName(r.new.spec.hostname, config.patterns, lookup))
    BY <1>1, <1>2 DEF IInv, TypeOK, Live
  <1>4. s.new.spec.log # EmptyLogSpec => validateLogSpec(s.new.spec.log)
    BY <1>2, <1>3 DEF handle
  <1>5. Hostname(s.new) \notin {None, Hostname(s.old)} => s.vetted
    <2>1. r.new # None
      BY <1>1, AdmissionAssumption DEF Live
    <2> QED BY <1>2, <1>3, <2>1 DEF handle, Hostname
  <1> QED BY <1>1, <1>3, <1>4, <1>5 DEF Consistent

LEMMA ValidateKeeps ==
    ASSUME IInv, NEW u \in Requesters, Validate(u)
    PROVE  IInv'
  <1>1. TypeOK'
    BY ValidateType DEF IInv
  <1>2. \A v \in Requesters : Consistent(v)'
    <2>1. CASE Refuse(u)
      BY <2>1, RefuseConsistent DEF IInv
    <2>2. CASE ~Refuse(u)
      <3>1. \A v \in Requesters \ {u} : request'[v] = request[v]
        BY <2>2 DEF Validate, IInv, TypeOK
      <3> QED BY <2>2, <3>1, ValidateConsistent, ConsistentFrame DEF IInv
    <2> QED BY <2>1, <2>2
  <1>3. \A d \in Capps : Sound(d)'
    BY SoundFrame DEF IInv, Validate, history
  <1> QED BY <1>1, <1>2, <1>3 DEF IInv

\* Only the stored object decides what an accepted request may replace.
LEMMA StoreSound ==
    ASSUME IInv, NEW u \in Requesters, Persist(u), Store(u), capp[request[u].key] = request[u].old
    PROVE  \A d \in Capps : Sound(d)'
  <1> DEFINE r == request[u]
  <1>0. PICK c \in Capps : c = r.key
    BY LiveType DEF IInv, Persist, Live
  <1>1. r \in Live /\ r.pc = "store" /\ Consistent(u) /\ Sound(c)
    BY LiveType DEF IInv, Persist, Live
  <1>2. /\ capp'[c].spec = r.new.spec /\ capp'[c].updatedBy = r.new.updatedBy
        /\ defaults'[c] = r.defaults
    BY <1>0, <1>1 DEF Store, IInv, TypeOK, Live, CappObjs
  <1>3. /\ r.new.spec.log # EmptyLogSpec => validateLogSpec(r.new.spec.log)
        /\ mutateResources(r.new.spec.containers, r.defaults) = r.new.spec.containers
    BY <1>1 DEF Consistent
  <1>4. CASE u = Operator
    <2>1. /\ r.old # None /\ r.new.updatedBy = r.old.updatedBy
          /\ Keeps(r.new.spec.containers, r.old.spec.containers)
      BY <1>1, <1>4 DEF Consistent
    <2>2. r.old.updatedBy = author[c] /\ Keeps(r.old.spec.containers, asked[c])
      BY <1>0, <1>1, <2>1 DEF Sound, Stored
    <2>3. author'[c] = author[c] /\ asked'[c] = asked[c]
      BY <1>4 DEF Store
    <2>4. Keeps(r.new.spec.containers, asked[c])
      BY <2>1, <2>2, KeepsTransitive
    <2>5. Sound(c)'
      BY <1>2, <1>3, <2>1, <2>2, <2>3, <2>4 DEF Sound
    <2>6. \A d \in Capps \ {c} : /\ capp'[d] = capp[d] /\ author'[d] = author[d]
                                /\ asked'[d] = asked[d] /\ defaults'[d] = defaults[d]
      BY <1>0, <1>4 DEF Store, IInv, TypeOK
    <2> QED BY <2>5, <2>6, SoundFrame DEF IInv
  <1>5. CASE u # Operator
    <2>1. r.new.updatedBy = u /\ Keeps(r.new.spec.containers, r.sent)
      BY <1>1, <1>5 DEF Consistent
    <2>2. author'[c] = u /\ asked'[c] = r.sent
      BY <1>0, <1>1, <1>5 DEF Store, IInv, TypeOK
    <2>3. Sound(c)'
      BY <1>2, <1>3, <2>1, <2>2 DEF Sound
    <2>4. \A d \in Capps \ {c} : /\ capp'[d] = capp[d] /\ author'[d] = author[d]
                                /\ asked'[d] = asked[d] /\ defaults'[d] = defaults[d]
      BY <1>0, <1>5 DEF Store, IInv, TypeOK
    <2> QED BY <2>3, <2>4, SoundFrame DEF IInv
  <1> QED BY <1>4, <1>5

LEMMA PersistKeeps ==
    ASSUME IInv, NEW u \in Requesters, Persist(u)
    PROVE  IInv'
  <1>1. TypeOK'
    BY PersistType DEF IInv
  <1>2. \A v \in Requesters : Consistent(v)'
    BY RefuseConsistent DEF IInv, Persist
  <1>3. \A d \in Capps : Sound(d)'
    <2>1. CASE capp[request[u].key] = request[u].old
      BY <2>1, StoreSound DEF Persist
    <2>2. CASE capp[request[u].key] # request[u].old
      BY <2>2, SoundFrame DEF Persist, IInv, history
    <2> QED BY <2>1, <2>2
  <1> QED BY <1>1, <1>2, <1>3 DEF IInv

LEMMA RemoveKeeps ==
    ASSUME IInv, NEW c \in Capps, Remove(c)
    PROVE  IInv'
  <1>1. TypeOK'
    BY NextType DEF IInv, Next
  <1>2. \A v \in Requesters : Consistent(v)'
    BY ConsistentFrame DEF Remove, IInv
  <1>3. Sound(c)'
    BY DEF Remove, IInv, TypeOK, Sound, Stored
  <1>4. \A d \in Capps \ {c} : Sound(d)'
    BY SoundFrame DEF Remove, IInv, TypeOK, history
  <1> QED BY <1>1, <1>2, <1>3, <1>4 DEF IInv

LEMMA SubmitKeeps ==
    ASSUME IInv, NEW u \in Users, NEW c \in Capps, NEW spec \in Specs, Submit(u, c, spec)
    PROVE  IInv'
  <1> DEFINE new == [spec |-> spec, rv |-> 0,
                     updatedBy |-> IF capp[c] = None THEN None ELSE capp[c].updatedBy]
  <1>1. (IF capp[c] = None THEN None ELSE capp[c].updatedBy) \in Users \cup {None}
    BY ObjType DEF IInv, TypeOK
  <1>2. new \in CappObjs
    BY <1>1, AdmissionAssumption DEF CappObjs
  <1>3. Send(u, c, new)
    BY DEF Submit
  <1>4. u \in Requesters /\ u # Operator
    BY OperatorIsNoUser DEF Requesters
  <1> HIDE DEF new
  <1> QED BY <1>2, <1>3, <1>4, SendConsistent

LEMMA NextKeeps ==
    ASSUME IInv, [Next]_vars
    PROVE  IInv'
  <1>1. TypeOK'
    BY NextType DEF IInv
  <1>2. ASSUME UNCHANGED <<capp, request, history>> PROVE IInv'
    BY <1>1, <1>2, ConsistentFrame, SoundFrame DEF IInv, history
  <1>3. CASE UNCHANGED vars
    BY <1>2, <1>3 DEF vars, history
  <1>4. ASSUME NEW c \in Capps, OperatorUpdate(c) PROVE IInv'
    <2>1. capp[c] \in CappObjs
      BY <1>4 DEF OperatorUpdate, IInv, TypeOK
    <2> QED BY <1>4, <2>1, SendConsistent DEF OperatorUpdate, Requesters
  <1>5. ASSUME NEW u \in Requesters, Mutate(u) \/ Validate(u) \/ Persist(u) PROVE IInv'
    BY <1>5, MutateKeeps, ValidateKeeps, PersistKeeps
  <1>6. ASSUME NEW spec \in Configs \cup {None}, SetConfig(spec) PROVE IInv'
    BY <1>2, <1>6 DEF SetConfig, history
  <1>7. ASSUME NEW managedClusters \in SUBSET Clusters, SetClusters(managedClusters) PROVE IInv'
    BY <1>2, <1>7 DEF SetClusters, history
  <1>8. ASSUME NEW hostnames \in SUBSET Hostnames, SetDns(hostnames) PROVE IInv'
    BY <1>2, <1>8 DEF SetDns, history
  <1> QED BY <1>3, <1>4, <1>5, <1>6, <1>7, <1>8, SubmitKeeps, RemoveKeeps DEF Next

LEMMA InitKeeps == ASSUME Init PROVE IInv
  <1>1. TypeOK
    BY InitType
  <1>2. \A u \in Requesters : Consistent(u)
    BY DEF Init, Consistent, NoRequest
  <1>3. \A c \in Capps : Sound(c)
    BY DEF Init, Sound, Stored
  <1> QED BY <1>1, <1>2, <1>3 DEF IInv

LEMMA InvariantHolds == Spec => []IInv
  BY InitKeeps, NextKeeps, PTL DEF Spec

-----------------------------------------------------------------------------
(* What follows from it.                                                   *)

\* The requests under way are consistent with what they were read from.
THEOREM RequestsStayConsistent == Spec => []RequestsConsistent
  <1>1. IInv => RequestsConsistent
    BY DEF IInv, RequestsConsistent, Sound
  <1> QED BY <1>1, InvariantHolds, PTL

\* last-updated-by names the last user whose write was stored.
THEOREM LastUpdaterNamed == Spec => []LastUpdater
  <1>1. IInv => LastUpdater
    BY DEF IInv, LastUpdater, Sound
  <1> QED BY <1>1, InvariantHolds, PTL

\* What a user asked for is what is stored.
THEOREM UserQuantitiesKept == Spec => []QuantitiesKept
  <1>1. IInv => QuantitiesKept
    BY DEF IInv, QuantitiesKept, Sound
  <1> QED BY <1>1, InvariantHolds, PTL

\* The operator's writes change no spec while the defaults stay.
THEOREM DefaultsSettled == Spec => []DefaultsSettle
  <1>1. IInv => DefaultsSettle
    BY DEF IInv, DefaultsSettle, Sound
  <1> QED BY <1>1, InvariantHolds, PTL

\* No write that keeps the spec is denied for its hostname or log spec.
THEOREM OperatorNotLockedOut == Spec => []NotLockedOut
  <1>1. IInv => NotLockedOut
    BY DEF IInv, NotLockedOut, Sound, handle, Hostname, Stored
  <1> QED BY <1>1, InvariantHolds, PTL

\* The request that gives a Capp a new hostname is one for which it was looked up.
THEOREM HostnamesVetted == Spec => HostnameVetted
  <1>1. ASSUME IInv, [Next]_vars, NEW c \in Capps,
               Hostname(capp'[c]) \notin {None, Hostname(capp[c])}
        PROVE  \E u \in Requesters : StoresVetted(u, c)
    <2>1. capp'[c] # capp[c] /\ capp'[c] # None
      BY <1>1 DEF Hostname
    <2>2. PICK u \in Requesters : Persist(u)
      BY <1>1, <2>1 DEF Next, vars, Submit, OperatorUpdate, Send, Remove, Mutate, Validate,
                        SetConfig, SetClusters, SetDns, IInv, TypeOK
    <2>3. /\ request[u] \in Live /\ request[u].pc = "store" /\ Consistent(u)
          /\ Store(u) /\ capp[request[u].key] = request[u].old
      BY <1>1, <2>1, <2>2, LiveType DEF Persist, IInv
    <2>4. request[u].key = c
      BY <1>1, <2>1, <2>3 DEF Store, IInv, TypeOK, Live
    <2>5. capp'[c] = [request[u].new EXCEPT !.rv = ver[c] + 1]
      BY <1>1, <2>3, <2>4 DEF Store, IInv, TypeOK
    <2>6. request[u].new # None /\ capp'[c].spec = request[u].new.spec
      BY <2>3, <2>5, AdmissionAssumption DEF Live, CappObjs
    <2>7. Hostname(capp'[c]) = Hostname(request[u].new)
      BY <2>1, <2>6 DEF Hostname
    <2>8. request'[u] = NoRequest
      BY <1>1, <2>2 DEF Persist, Refuse, IInv, TypeOK
    <2>9. request[u].vetted
      BY <1>1, <2>3, <2>4, <2>7 DEF Consistent
    <2> QED BY <2>3, <2>4, <2>7, <2>8, <2>9 DEF StoresVetted
  <1>2. IInv /\ [Next]_vars =>
           [\A c \in Capps : Hostname(capp'[c]) \notin {None, Hostname(capp[c])} =>
               \E u \in Requesters : StoresVetted(u, c)]_vars
    BY <1>1
  <1> QED BY <1>2, InvariantHolds, PTL DEF Spec, HostnameVetted
=============================================================================
