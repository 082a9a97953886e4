----------------------------- MODULE Admission -----------------------------
(***************************************************************************)
(* The path of a create or update of a Capp through the hub: the API       *)
(* server reads the stored object, calls the mutating webhook, then the    *)
(* validating one, and stores the result unless another request was        *)
(* faster.  Users and the operator's own controllers are the requesters;   *)
(* each has one request under way, and the RCSConfig, the registered       *)
(* clusters and DNS may change between any two of its steps.               *)
(***************************************************************************)
EXTENDS Integers, Sequences, FiniteSets

CONSTANTS
    Capps,        \* Capp keys
    Users,        \* usernames of those who edit Capps: sequences of their ":"-separated parts
    Operator,     \* the username of the operator's service account
    ExcludedServiceAccountNamespace, \* the part "rcs-deployer-system"
    Specs,        \* the specs users submit
    Configs,      \* values of RCSConfig.spec
    Clusters,     \* ManagedClusters that may be registered
    Hostnames,    \* what users put into Spec.RouteSpec.Hostname
    Malformed,    \* hostnames that are no fully qualified domain names
    ClusterLocal, \* hostnames under the cluster's own domain
    Matches,      \* pairs of an invalid-hostname pattern and a hostname it matches
    Broken,       \* patterns that do not compile
    Quantities,   \* resource quantities
    None,         \* an absent object, an empty string, a nil map
    MaxOps        \* bound on requests and removals

VARIABLES
    capp,     \* capp[c]: the stored Capp, or None
    ver,      \* ver[c]: resourceVersion of the last write to key c
    request,  \* request[u]: the request of requester u on its way
    config,   \* RCSConfig.spec as the webhooks' client reads it, None without rcs-config
    clusters, \* the ManagedClusters registered now
    dns,      \* the hostnames that DNS resolves
    ops,      \* requests and removals so far
    \* History, read by properties only; per stored Capp:
    author,   \* the user whose write was stored last
    asked,    \* the containers of that write, as the user sent them
    defaults  \* the DefaultResources the mutating webhook used for the last write

hubVars == <<config, clusters, dns>>
history == <<author, asked, defaults>>
vars == <<capp, ver, request, hubVars, ops, history>>

Requesters == Users \cup {Operator}

ResourceNames == {"cpu", "memory", "storage"}

\* A corev1.ResourceList; None is the nil map.
ResourceLists == (UNION {[D -> Quantities] : D \in SUBSET ResourceNames}) \cup {None}

Requirements == [requests : ResourceLists, limits : ResourceLists]

LogFields == {"Host", "Index", "User", "PasswordSecret"}

\* A LogSpec: its type and the fields that are not empty.
LogSpecs == [type : STRING, fields : SUBSET LogFields]

EmptyLogSpec == [type |-> "", fields |-> {}]

CappSpecs == [site : STRING \cup {None}, hostname : Hostnames \cup {None}, log : LogSpecs,
              containers : Seq(Requirements)]

CappObjs == [spec : CappSpecs, updatedBy : Users \cup {None}, rv : Nat]

RCSConfigSpec == [placements : SUBSET STRING, defaults : Requirements, patterns : SUBSET STRING]

ASSUME AdmissionAssumption ==
    /\ Specs \subseteq CappSpecs
    /\ Configs \subseteq RCSConfigSpec
    /\ Clusters \subseteq STRING
    /\ MaxOps \in Nat
    /\ None \notin CappObjs
    /\ None \notin Configs
    /\ None \notin Hostnames
    /\ None \notin UNION {[D -> Quantities] : D \in SUBSET ResourceNames}

\* strings.Split(username, ":") has four parts, the third a namespace.
isExcludedServiceAccount(username) ==
    Len(username) = 4 /\ username[3] = ExcludedServiceAccountNamespace

ASSUME RequesterAssumption ==
    /\ isExcludedServiceAccount(Operator)
    /\ \A u \in Users : ~isExcludedServiceAccount(u)

-----------------------------------------------------------------------------
(* The mutating webhook.                                                   *)

\* Faulty variants: the operator's writes count as well; an annotation that is there stays.
mutateAnnotationsAlways(updatedBy, username) == username

mutateAnnotationsOnce(updatedBy, username) ==
    IF isExcludedServiceAccount(username) \/ updatedBy # None THEN updatedBy ELSE username

mutateAnnotations(updatedBy, username) ==
    IF isExcludedServiceAccount(username) THEN updatedBy ELSE username

Set(list) == IF list = None THEN {} ELSE DOMAIN list

\* Faulty variants: the default wins over what the user set; the loop ends with
\* the first default it sets.
setResourceQuantityOverriding(list, default) ==
    IF list = None THEN None
    ELSE [r \in DOMAIN list \cup (Set(default) \cap {"cpu", "memory"}) |->
             IF r \in Set(default) \cap {"cpu", "memory"} THEN default[r] ELSE list[r]]

setResourceQuantityOnce(list, default) ==
    LET missing == (Set(default) \cap {"cpu", "memory"}) \ Set(list)
        filled == IF "cpu" \in missing THEN {"cpu"} ELSE missing
    IN  IF list = None THEN None
        ELSE [r \in DOMAIN list \cup filled |-> IF r \in DOMAIN list THEN list[r] ELSE default[r]]

\* mutateResources ranges over copies of the containers: a map that is there is
\* shared with the Capp and gets its missing entries, one that is made for a nil
\* list is lost with the copy.
setResourceQuantity(list, default) ==
    IF list = None THEN None
    ELSE [r \in DOMAIN list \cup (Set(default) \cap {"cpu", "memory"}) |->
             IF r \in DOMAIN list THEN list[r] ELSE default[r]]

\* json.Marshal leaves an empty map out.
OmitEmpty(list) == IF Set(list) = {} THEN None ELSE list

mutateResources(containers, default) ==
    [i \in DOMAIN containers |->
        [requests |-> OmitEmpty(setResourceQuantity(containers[i].requests, default.requests)),
         limits |-> OmitEmpty(setResourceQuantity(containers[i].limits, default.limits))]]

\* CappMutator.handle
Mutated(obj, username, default) ==
    [obj EXCEPT !.updatedBy = mutateAnnotations(@, username),
                !.spec.containers = mutateResources(@, default)]

-----------------------------------------------------------------------------
(* The validating webhook.                                                 *)

\* managedClusters is what getManagedClusters returned; its error is ignored.
isSiteValid(site, placements, managedClusters) ==
    site = None \/ site \in managedClusters \/ site \in placements

\* What net.LookupHost may answer.
Lookups(hostname) == {IF hostname \in dns THEN "found" ELSE "notFound", "error"}

\* The errors of validateDomainName add up, and a pattern that does not compile panics.
validateDomainName(hostname, patterns, lookup) ==
    hostname # None =>
       /\ hostname \notin Malformed \cup ClusterLocal
       /\ \A pattern \in patterns \ {""} :
             pattern \notin Broken /\ <<pattern, hostname>> \notin Matches
       /\ lookup = "notFound"

requiredFields == [type \in {"elastic"} |-> LogFields]

validateLogSpec(log) ==
    log.type \in DOMAIN requiredFields /\ requiredFields[log.type] \subseteq log.fields

\* The hostname of the stored object; a create is compared with an empty Capp.
Hostname(old) == IF old = None THEN None ELSE old.spec.hostname

\* Faulty variants: the hostname is looked up on every write; on creates only.
handleAlways(new, old, managedClusters, lookup) ==
    /\ config # None
    /\ isSiteValid(new.spec.site, config.placements, managedClusters)
    /\ validateDomainName(new.spec.hostname, config.patterns, lookup)
    /\ new.spec.log # EmptyLogSpec => validateLogSpec(new.spec.log)

handleCreates(new, old, managedClusters, lookup) ==
    /\ config # None
    /\ isSiteValid(new.spec.site, config.placements, managedClusters)
    /\ old = None => validateDomainName(new.spec.hostname, config.patterns, lookup)
    /\ new.spec.log # EmptyLogSpec => validateLogSpec(new.spec.log)

\* CappValidator.handle returns Allowed.
handle(new, old, managedClusters, lookup) ==
    /\ config # None
    /\ isSiteValid(new.spec.site, config.placements, managedClusters)
    /\ new.spec.hostname # Hostname(old) =>
          validateDomainName(new.spec.hostname, config.patterns, lookup)
    /\ new.spec.log # EmptyLogSpec => validateLogSpec(new.spec.log)

-----------------------------------------------------------------------------
(* Requests.                                                               *)

NoRequest == [pc |-> "none", key |-> None, old |-> None, new |-> None,
              defaults |-> None, vetted |-> FALSE, sent |-> <<>>]

Operate == ops < MaxOps /\ ops' = ops + 1

\* The API server reads the stored object and calls the mutating webhook.  A
\* request that was made from another version ends in a conflict and is left out.
Send(u, c, new) ==
    /\ Operate
    /\ request[u] = NoRequest
    /\ request' = [request EXCEPT ![u] = [NoRequest EXCEPT !.pc = "mutate", !.key = c,
                      !.old = capp[c], !.new = new, !.sent = new.spec.containers]]
    /\ UNCHANGED <<capp, ver, hubVars, history>>

\* A user creates Capp c or applies a new spec to it.
Submit(u, c, spec) ==
    Send(u, c, [spec |-> spec, rv |-> 0,
                updatedBy |-> IF capp[c] = None THEN None ELSE capp[c].updatedBy])

\* A controller writes back the Capp it read: an annotation or the finalizer changes.
OperatorUpdate(c) == capp[c] # None /\ Send(Operator, c, capp[c])

Refuse(u) == request' = [request EXCEPT ![u] = NoRequest]

\* CappMutator.Handle: the error for a missing RCSConfig is dropped and the nil
\* config dereferenced; the panic fails the call and, with it, the request.
Mutate(u) ==
    /\ request[u].pc = "mutate"
    /\ IF config = None THEN Refuse(u)
       ELSE request' = [request EXCEPT
              ![u].pc = "validate",
              ![u].new = Mutated(@, u, config.defaults),
              ![u].defaults = config.defaults]
    /\ UNCHANGED <<capp, ver, hubVars, ops, history>>

\* CappValidator.Handle; listing the ManagedClusters may fail.
Validate(u) ==
    /\ request[u].pc = "validate"
    /\ LET new == request[u].new
       IN  \E managedClusters \in {clusters, {}}, lookup \in Lookups(new.spec.hostname) :
              IF handle(new, request[u].old, managedClusters, lookup)
              THEN request' = [request EXCEPT ![u].pc = "store", ![u].vetted =
                      /\ new.spec.hostname # Hostname(request[u].old)
                      /\ validateDomainName(new.spec.hostname, config.patterns, lookup)]
              ELSE Refuse(u)
    /\ UNCHANGED <<capp, ver, hubVars, ops, history>>

\* The request's object goes into the store and the request is answered.
Store(u) ==
    LET c == request[u].key
    IN  /\ capp' = [capp EXCEPT ![c] = [request[u].new EXCEPT !.rv = ver[c] + 1]]
        /\ ver' = [ver EXCEPT ![c] = @ + 1]
        /\ author' = IF u = Operator THEN author ELSE [author EXCEPT ![c] = u]
        /\ asked' = IF u = Operator THEN asked ELSE [asked EXCEPT ![c] = request[u].sent]
        /\ defaults' = [defaults EXCEPT ![c] = request[u].defaults]

\* Optimistic locking: the object is stored unless it changed since it was read.
Persist(u) ==
    /\ request[u].pc = "store"
    /\ IF capp[request[u].key] = request[u].old THEN Store(u)
       ELSE UNCHANGED <<capp, ver, history>>
    /\ Refuse(u)
    /\ UNCHANGED <<hubVars, ops>>

\* Deletions pass neither webhook.
Remove(c) ==
    /\ Operate
    /\ capp[c] # None
    /\ capp' = [capp EXCEPT ![c] = None]
    /\ UNCHANGED <<ver, request, hubVars, history>>

-----------------------------------------------------------------------------
(* What the webhooks read changes at any time.                             *)

SetConfig(spec) ==
    /\ config' = spec
    /\ UNCHANGED <<capp, ver, request, clusters, dns, ops, history>>

SetClusters(managedClusters) ==
    /\ clusters' = managedClusters
    /\ UNCHANGED <<capp, ver, request, config, dns, ops, history>>

\* Names get their records some time after a Capp runs, and lose them.
SetDns(hostnames) ==
    /\ dns' = hostnames
    /\ UNCHANGED <<capp, ver, request, config, clusters, ops, history>>

-----------------------------------------------------------------------------

Init ==
    /\ capp = [c \in Capps |-> None]
    /\ ver = [c \in Capps |-> 0]
    /\ request = [u \in Requesters |-> NoRequest]
    /\ config \in Configs \cup {None}
    /\ clusters = Clusters
    /\ dns = {}
    /\ ops = 0
    /\ author = [c \in Capps |-> None]
    /\ asked = [c \in Capps |-> <<>>]
    /\ defaults = [c \in Capps |-> None]

Next ==
    \/ \E u \in Users, c \in Capps, spec \in Specs : Submit(u, c, spec)
    \/ \E c \in Capps : OperatorUpdate(c) \/ Remove(c)
    \/ \E u \in Requesters : Mutate(u) \/ Validate(u) \/ Persist(u)
    \/ \E spec \in Configs \cup {None} : SetConfig(spec)
    \/ \E managedClusters \in SUBSET Clusters : SetClusters(managedClusters)
    \/ \E hostnames \in SUBSET (Hostnames \ Malformed) : SetDns(hostnames)

Spec == Init /\ [][Next]_vars

-----------------------------------------------------------------------------
(* Properties.                                                             *)

Requests ==
    {NoRequest} \cup
    [pc : {"mutate", "validate", "store"}, key : Capps, old : CappObjs \cup {None},
     new : CappObjs, defaults : Requirements \cup {None}, vetted : BOOLEAN,
     sent : Seq(Requirements)]

\* Every variable keeps its type: what the webhooks make of a Capp is a Capp,
\* last updated by a user.
TypeOK ==
    /\ capp \in [Capps -> CappObjs \cup {None}]
    /\ ver \in [Capps -> Nat]
    /\ request \in [Requesters -> Requests]
    /\ config \in Configs \cup {None}
    /\ clusters \subseteq Clusters
    /\ dns \subseteq Hostnames
    /\ ops \in 0..MaxOps
    /\ author \in [Capps -> Users \cup {None}]
    /\ asked \in [Capps -> Seq(Requirements)]
    /\ defaults \in [Capps -> Requirements \cup {None}]

Stored(c) == capp[c] # None

\* A write that leaves a stored Capp's spec alone, as all of the operator's do,
\* is never denied for the hostname or the log spec, whatever DNS answers and
\* whichever patterns were added since: only a missing RCSConfig or a site that
\* is gone can keep the controllers from writing.
NotLockedOut ==
    \A c \in Capps :
       Stored(c) /\ config # None /\ isSiteValid(capp[c].spec.site, config.placements, clusters)
          => \A lookup \in {"found", "notFound", "error"} : handle(capp[c], capp[c], clusters, lookup)

\* Between racing writes of users and of the operator, which writes whole
\* objects, the annotation last-updated-by names the user whose write was the
\* last to be stored.
LastUpdater == \A c \in Capps : Stored(c) => capp[c].updatedBy = author[c]

Extends(list, sent) ==
    \A r \in Set(sent) : r \in Set(list) /\ list[r] = sent[r]

Keeps(containers, sent) ==
    /\ DOMAIN containers = DOMAIN sent
    /\ \A i \in DOMAIN sent : /\ Extends(containers[i].requests, sent[i].requests)
                             /\ Extends(containers[i].limits, sent[i].limits)

\* "If other resources are specified then they override the default values":
\* what a user asked for stays, through every later write of the operator and
\* every change of the defaults.
QuantitiesKept ==
    \A c \in Capps : Stored(c) => Keeps(capp[c].spec.containers, asked[c])

\* A later write under the same defaults finds nothing left to fill in, so the
\* operator's writes change no spec while the defaults stay.
DefaultsSettle ==
    \A c \in Capps : Stored(c) =>
       mutateResources(capp[c].spec.containers, defaults[c]) = capp[c].spec.containers

\* Request u puts its object in the place of Capp c, with a hostname that was
\* looked up for it.
StoresVetted(u, c) ==
    /\ request[u].pc = "store" /\ request'[u] = NoRequest
    /\ request[u].key = c
    /\ Hostname(capp'[c]) = Hostname(request[u].new)
    /\ request[u].vetted

\* The validator skips a hostname that equals the stored one, and yet a Capp only
\* gets a hostname by the very request for which that hostname was looked up: no
\* overlapping write brings back a hostname unchecked.
HostnameVetted ==
    [][\A c \in Capps :
          Hostname(capp'[c]) \notin {None, Hostname(capp[c])} =>
             \E u \in Requesters : StoresVetted(u, c)]_vars

\* What holds of a request on its way, told by what it was made from: the
\* strengthening that makes the properties above inductive.
Consistent(u) ==
    LET r == request[u]
    IN  r.pc # "none" =>
           /\ u = Operator => r.old # None
           /\ Keeps(r.new.spec.containers,
                    IF u = Operator THEN r.old.spec.containers ELSE r.sent)
           /\ IF r.pc = "mutate" THEN u = Operator => r.new.updatedBy = r.old.updatedBy
              ELSE /\ r.new.updatedBy = IF u = Operator THEN r.old.updatedBy ELSE u
                   /\ mutateResources(r.new.spec.containers, r.defaults) = r.new.spec.containers
           /\ r.pc = "store" =>
                 /\ r.new.spec.log # EmptyLogSpec => validateLogSpec(r.new.spec.log)
                 /\ Hostname(r.new) \notin {None, Hostname(r.old)} => r.vetted

\* Every request is consistent with the object it was read from, and every
\* stored Capp has a complete log spec.
RequestsConsistent ==
    /\ \A u \in Requesters : Consistent(u)
    /\ \A c \in Capps : Stored(c) =>
          (capp[c].spec.log # EmptyLogSpec => validateLogSpec(capp[c].spec.log))

\* validateDomainName: "hostname must be unique and not already taken".
HostnamesUnique ==
    \A c, d \in Capps :
       c # d /\ Stored(c) /\ Stored(d) /\ Hostname(capp[c]) # None
          => Hostname(capp[c]) # Hostname(capp[d])
=============================================================================
