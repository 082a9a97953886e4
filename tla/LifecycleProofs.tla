-------------------------- MODULE LifecycleProofs --------------------------
(***************************************************************************)
(* Deployer implements CappLifecycle in every environment, proved from the *)
(* order of revisions.                                                     *)
(***************************************************************************)
EXTENDS DeployerRefinement, DeployerProofs

-----------------------------------------------------------------------------
(* What the informer shows.                                                *)

LEMMA SeenType ==
    ASSUME CappTypeOK, NEW c \in Capps
    PROVE  /\ Seen(c) \subseteq CappObjs \cup {None}
           /\ ver[c] \in Nat
  <1>1. /\ cache[c] \in CappObjs \cup {None}
        /\ events[c] \in Seq(CappObjs \cup {None})
        /\ ver[c] \in Nat
    BY DEF CappTypeOK
  <1>2. \A i \in 1..Len(events[c]) : events[c][i] \in CappObjs \cup {None}
    BY <1>1
  <1> QED BY <1>1, <1>2 DEF Seen

\* The stored object is the last one to be shown.
LEMMA StoredSeen ==
    ASSUME CappTypeOK, NEW c \in Capps, InOrder(c)
    PROVE  capp[c] \in Seen(c)
  <1>1. events[c] \in Seq(CappObjs \cup {None})
    BY DEF CappTypeOK
  <1>2. CASE events[c] = <<>>
    BY <1>2 DEF InOrder, Seen
  <1>3. CASE events[c] # <<>>
    <2>1. Len(events[c]) \in 1..Len(events[c])
      BY <1>1, <1>3
    <2> QED BY <1>3, <2>1 DEF InOrder, Seen
  <1> QED BY <1>2, <1>3

\* Versions lie between that of the cached object and that of the stored one.
LEMMA SeenBetween ==
    ASSUME CappTypeOK, NEW c \in Capps, InOrder(c), NEW obj \in Seen(c), obj # None
    PROVE  /\ obj \in CappObjs
           /\ obj.rv <= ver[c]
           /\ cache[c] # None => cache[c].rv <= obj.rv
  <1>1. /\ events[c] \in Seq(CappObjs \cup {None})
        /\ Len(events[c]) \in Nat
        /\ ver[c] \in Nat
    BY DEF CappTypeOK
  <1>2. obj \in CappObjs
    BY SeenType
  <1>3. CASE obj = cache[c]
    BY <1>1, <1>2, <1>3 DEF InOrder, CappObjs
  <1>4. ASSUME NEW i \in 1..Len(events[c]), obj = events[c][i]
        PROVE  obj.rv <= ver[c] /\ (cache[c] # None => cache[c].rv <= obj.rv)
    <2>1. obj.rv = ver[c] - Len(events[c]) + i
      BY <1>4 DEF InOrder
    <2>2. cache[c] # None => cache[c].rv = ver[c] - Len(events[c])
      BY DEF InOrder
    <2>3. i \in Nat /\ i <= Len(events[c])
      BY <1>1
    <2> QED BY <1>1, <2>1, <2>2, <2>3
  <1> QED BY <1>2, <1>3, <1>4 DEF Seen

LEMMA SeenStore ==
    ASSUME CappTypeOK, NEW c \in Capps, NEW obj, Store(c, obj)
    PROVE  /\ Seen(c)' = Seen(c) \cup {obj}
           /\ ver'[c] = ver[c] + 1
           /\ \A d \in Capps \ {c} : Seen(d)' = Seen(d) /\ ver'[d] = ver[d]
  <1>1. /\ cache' = cache
        /\ ver'[c] = ver[c] + 1
        /\ events'[c] = Append(events[c], obj)
        /\ \A d \in Capps \ {c} : ver'[d] = ver[d] /\ events'[d] = events[d]
    BY DEF CappTypeOK, Store
  <1>2. events[c] \in Seq(CappObjs \cup {None})
    BY DEF CappTypeOK
  <1>3. /\ Len(events'[c]) = Len(events[c]) + 1
        /\ events'[c][Len(events[c]) + 1] = obj
        /\ \A i \in 1..Len(events[c]) : events'[c][i] = events[c][i]
    BY <1>1, <1>2
  <1>4. 1..Len(events'[c]) = (1..Len(events[c])) \cup {Len(events[c]) + 1}
    BY <1>2, <1>3
  <1> QED BY <1>1, <1>3, <1>4 DEF Seen

LEMMA SeenDeliver ==
    ASSUME CappTypeOK, NEW c \in Capps, Deliver(c)
    PROVE  \A d \in Capps : Seen(d)' \subseteq Seen(d)
  <1>1. /\ events[c] # <<>>
        /\ cache'[c] = Head(events[c])
        /\ events'[c] = Tail(events[c])
        /\ \A d \in Capps \ {c} : cache'[d] = cache[d] /\ events'[d] = events[d]
    BY DEF Deliver, CappTypeOK
  <1>2. events[c] \in Seq(CappObjs \cup {None})
    BY DEF CappTypeOK
  <1>3. /\ Len(events[c]) \in Nat
        /\ Len(events[c]) > 0
        /\ cache'[c] = events[c][1]
        /\ Len(events'[c]) = Len(events[c]) - 1
        /\ \A i \in 1..Len(events'[c]) : events'[c][i] = events[c][i + 1]
    BY <1>1, <1>2, TailFacts
  <1>4. ASSUME NEW x \in Seen(c)'
        PROVE  x \in Seen(c)
    <2>1. CASE x = cache'[c]
      BY <1>3, <2>1 DEF Seen
    <2>2. ASSUME NEW i \in 1..Len(events'[c]), x = events'[c][i]
          PROVE  x \in Seen(c)
      <3>1. i + 1 \in 1..Len(events[c])
        BY <1>3
      <3> QED BY <1>3, <2>2, <3>1 DEF Seen
    <2> QED BY <1>4, <2>1, <2>2 DEF Seen
  <1> QED BY <1>1, <1>4 DEF Seen

-----------------------------------------------------------------------------
(* The order of revisions.                                                 *)

\* A step after which no copy is older than before it.
KeepsRevisions ==
    /\ \A c \in Capps : Monotone(c)'
    /\ \A c \in Capps, r \in Nat : NoneOlder(c, r) => NoneOlder(c, r)'

AllMonotone == \A c \in Capps : Monotone(c)

\* Showing less of the same versions keeps the order.
LEMMA LessSeenKeeps ==
    ASSUME AllMonotone, UNCHANGED ver, \A c \in Capps : Seen(c)' \subseteq Seen(c)
    PROVE  KeepsRevisions
  BY DEF AllMonotone, KeepsRevisions, Monotone, NoneOlder

LEMMA UnchangedKeepsRevisions ==
    ASSUME AllMonotone, UNCHANGED cappVars
    PROVE  KeepsRevisions
  <1>1. UNCHANGED ver /\ \A c \in Capps : Seen(c)' = Seen(c)
    BY DEF cappVars, Seen
  <1> QED BY <1>1, LessSeenKeeps

\* A stored object with a new spec, or with the one stored before, keeps the order.
LEMMA StoreKeepsRevisions ==
    ASSUME CappTypeOK, InformerOK, AllMonotone, NEW c \in Capps,
           NEW obj \in CappObjs \cup {None}, Store(c, obj),
           obj # None => /\ obj.rv = ver[c] + 1
                         /\ \/ obj.rev = ver[c] + 1
                            \/ capp[c] # None /\ obj.rev = capp[c].rev
    PROVE  KeepsRevisions
  <1>1. /\ Seen(c)' = Seen(c) \cup {obj}
        /\ ver'[c] = ver[c] + 1
        /\ \A d \in Capps \ {c} : Seen(d)' = Seen(d) /\ ver'[d] = ver[d]
    BY SeenStore
  <1>2. InOrder(c) /\ capp[c] \in Seen(c) /\ ver[c] \in Nat
    BY StoredSeen, SeenType DEF InformerOK
  <1>3. \A x \in Seen(c) \ {None} : x \in CappObjs /\ x.rv <= ver[c]
    BY <1>2, SeenBetween
  <1>4. Monotone(c)
    BY DEF AllMonotone
  <1>5. ASSUME obj # None
        PROVE  /\ obj \in CappObjs
               /\ obj.rev <= obj.rv
               /\ \A x \in Seen(c) \ {None} : x.rev <= obj.rev /\ x.rv < obj.rv
    <2>1. obj \in CappObjs /\ obj.rv = ver[c] + 1
      BY <1>5
    <2>2. CASE obj.rev = ver[c] + 1
      BY <1>2, <1>3, <1>4, <2>1, <2>2 DEF Monotone, CappObjs
    <2>3. CASE capp[c] # None /\ obj.rev = capp[c].rev
      <3>1. capp[c] \in CappObjs /\ capp[c].rv = ver[c]
        BY <1>2, <1>3, <2>3 DEF InOrder
      <3> QED BY <1>2, <1>3, <1>4, <2>1, <2>3, <3>1 DEF Monotone, CappObjs
    <2> QED BY <1>5, <2>1, <2>2, <2>3
  <1>6. Monotone(c)'
    <2> SUFFICES ASSUME NEW x \in (Seen(c) \cup {obj}) \ {None}, NEW y \in (Seen(c) \cup {obj}) \ {None}
                 PROVE  x.rev <= x.rv /\ (x.rv <= y.rv => x.rev <= y.rev)
      BY <1>1 DEF Monotone
    <2>1. CASE x \in Seen(c) /\ y \in Seen(c)
      BY <1>4, <2>1 DEF Monotone
    <2>2. CASE x \in Seen(c) /\ y = obj
      BY <1>4, <1>5, <2>2 DEF Monotone
    <2>3. CASE x = obj /\ y \in Seen(c)
      BY <1>3, <1>5, <2>3 DEF CappObjs
    <2>4. CASE x = obj /\ y = obj
      BY <1>5, <2>4 DEF CappObjs
    <2> QED BY <2>1, <2>2, <2>3, <2>4
  <1>7. ASSUME NEW r \in Nat, NoneOlder(c, r)
        PROVE  NoneOlder(c, r)'
    <2>1. r <= ver'[c]
      BY <1>1, <1>2, <1>7 DEF NoneOlder
    <2>2. obj # None => r <= obj.rev
      BY <1>2, <1>7 DEF NoneOlder
    <2> QED BY <1>1, <1>7, <2>1, <2>2 DEF NoneOlder
  <1>8. ASSUME NEW d \in Capps \ {c}
        PROVE  Monotone(d)' /\ \A r \in Nat : NoneOlder(d, r) => NoneOlder(d, r)'
    BY <1>1 DEF AllMonotone, Monotone, NoneOlder
  <1> QED BY <1>6, <1>7, <1>8 DEF KeepsRevisions

LEMMA WriteKeepsRevisions ==
    ASSUME CappTypeOK, InformerOK, AllMonotone, NEW c \in Capps, NEW obj \in CappObjs,
           Write(c, obj), obj.rev = ver[c] + 1 \/ (capp[c] # None /\ obj.rev = capp[c].rev)
    PROVE  KeepsRevisions
  <1>1. CASE obj = capp[c]
    BY <1>1, UnchangedKeepsRevisions DEF Write
  <1>2. CASE obj # capp[c]
    <2> DEFINE new == [obj EXCEPT !.rv = ver[c] + 1]
    <2>1. ver[c] + 1 \in Nat
      BY DEF CappTypeOK
    <2>2. new \in CappObjs
      BY <2>1, CappFields
    <2>3. new.rv = ver[c] + 1 /\ new.rev = obj.rev
      BY DEF CappObjs
    <2>4. Store(c, new)
      BY <1>2 DEF Write
    <2> HIDE DEF new
    <2> QED BY <2>2, <2>3, <2>4, StoreKeepsRevisions
  <1> QED BY <1>1, <1>2

LEMMA UpdateKeepsRevisions ==
    ASSUME CappTypeOK, InformerOK, AllMonotone, NEW c \in Capps, capp[c] # None,
           NEW obj \in CappObjs, UpdateCapp(c, obj), obj.rev = capp[c].rev
    PROVE  KeepsRevisions
  <1> DEFINE new == [obj EXCEPT !.status = capp[c].status]
  <1>1. capp[c].status \in Names \cup {None}
    BY DEF CappTypeOK, CappObjs
  <1>2. new \in CappObjs /\ new.rev = obj.rev
    BY <1>1, CappFields DEF CappObjs
  <1>3. CASE new.deleting /\ ~new.fin
    <2>1. Store(c, None)
      BY <1>3 DEF UpdateCapp
    <2> QED BY <2>1, StoreKeepsRevisions
  <1>4. CASE ~(new.deleting /\ ~new.fin)
    <2>1. Write(c, new)
      BY <1>4 DEF UpdateCapp
    <2> HIDE DEF new
    <2> QED BY <1>2, <2>1, WriteKeepsRevisions
  <1> QED BY <1>3, <1>4

\* The facts about the state before a step that the lemmas below start from.
LEMMA RInvFacts ==
    ASSUME RInv
    PROVE  /\ TypeOK /\ CappTypeOK /\ InformerOK /\ AllMonotone
           /\ PlaceSnapshot /\ SyncSnapshot
           /\ mw \in WorkType /\ clusters \subseteq Clusters
  BY DEF RInv, IInv, ConsistentCopies, InformerOK, TypeOK, HubTypeOK, CappTypeOK, WorkType,
         RevisionsOrdered, AllMonotone

\* What the two writes of the placement controller put in place of the stored Capp.
LEMMA PlaceWrites ==
    ASSUME RInv, PlaceNext
    PROVE  \/ UNCHANGED capp /\ UNCHANGED cappVars
           \/ \E c \in Capps : \E obj \in CappObjs :
                 /\ capp[c] \in CappObjs
                 /\ obj.site = capp[c].site /\ obj.rev = capp[c].rev /\ obj.uid = capp[c].uid
                 /\ obj.fin = capp[c].fin /\ obj.deleting = capp[c].deleting
                 /\ Write(c, obj) \/ UpdateCapp(c, obj)
  <1>1. TypeOK /\ CappTypeOK /\ InformerOK /\ PlaceSnapshot
    BY RInvFacts
  <1>2. ASSUME place.pc \in {"status", "annotate"}
        PROVE  /\ place.key \in Capps
               /\ place.obj \in CappObjs
               /\ place.obj # None
               /\ place.dest \in Names
    BY <1>1, <1>2, NoneAssumption DEF TypeOK, PlaceTypeOK, PlaceIdle
  <1>3. CASE UpdateCappDestination /\ Current(place.key, place.obj)
    <2> DEFINE new == [capp[place.key] EXCEPT !.status = [place.obj EXCEPT !.status = place.dest].status]
    <2>1. /\ place.key \in Capps
          /\ capp[place.key] \in CappObjs
          /\ [place.obj EXCEPT !.status = place.dest].status \in Names \cup {None}
      BY <1>1, <1>2, <1>3 DEF UpdateCappDestination, Current, CappTypeOK, CappObjs
    <2>2. new \in CappObjs
      BY <2>1, CappFields
    <2>3. /\ new.site = capp[place.key].site /\ new.rev = capp[place.key].rev
          /\ new.fin = capp[place.key].fin /\ new.uid = capp[place.key].uid
          /\ new.deleting = capp[place.key].deleting
      BY <2>1 DEF CappObjs
    <2>4. Write(place.key, new)
      BY <1>3 DEF UpdateCappDestination, UpdateCappStatus
    <2> HIDE DEF new
    <2> QED BY <2>1, <2>2, <2>3, <2>4
  <1>4. CASE AddCappHasPlacementAnnotation /\ Current(place.key, place.obj) /\ Admitted(place.obj)
    <2> DEFINE new == [place.obj EXCEPT !.anno = place.dest]
    <2>1. place.key \in Capps /\ capp[place.key] \in CappObjs /\ place.obj = capp[place.key]
      BY <1>1, <1>2, <1>4, CurrentCopy DEF AddCappHasPlacementAnnotation, PlaceSnapshot
    <2>2. new \in CappObjs
      BY <1>2, <1>4, CappFields DEF AddCappHasPlacementAnnotation
    <2>3. /\ new.site = capp[place.key].site /\ new.rev = capp[place.key].rev
          /\ new.fin = capp[place.key].fin /\ new.uid = capp[place.key].uid
          /\ new.deleting = capp[place.key].deleting
      BY <2>1 DEF CappObjs
    <2>4. UpdateCapp(place.key, new)
      BY <1>4 DEF AddCappHasPlacementAnnotation
    <2> HIDE DEF new
    <2> QED BY <2>1, <2>2, <2>3, <2>4
  <1> QED BY <1>3, <1>4
         DEF PlaceNext, PlaceGetConfig, PlaceSelect, UpdateCappDestination,
             AddCappHasPlacementAnnotation, PlaceCallFails, cappVars

\* What the sync controller puts in place of the stored Capp: the same one with
\* the finalizer, or, if it is being deleted, without it.
LEMMA SyncWrites ==
    ASSUME RInv, SyncNext
    PROVE  \/ UNCHANGED capp /\ UNCHANGED cappVars
           \/ \E c \in Capps : \E obj \in CappObjs :
                 /\ capp[c] \in CappObjs
                 /\ obj.site = capp[c].site /\ obj.rev = capp[c].rev /\ obj.uid = capp[c].uid
                 /\ obj.deleting = capp[c].deleting
                 /\ obj.fin <=> ~obj.deleting
                 /\ UpdateCapp(c, obj)
                 /\ UNCHANGED mw
  <1>1. TypeOK /\ CappTypeOK /\ InformerOK /\ SyncSnapshot
    BY RInvFacts
  <1>2. ASSUME NEW fin \in BOOLEAN, sync.pc # "idle", fin <=> ~sync.obj.deleting,
               Current(sync.key, sync.obj), UNCHANGED mw,
               UpdateCapp(sync.key, [sync.obj EXCEPT !.fin = fin])
        PROVE  \E c \in Capps : \E obj \in CappObjs :
                 /\ capp[c] \in CappObjs
                 /\ obj.site = capp[c].site /\ obj.rev = capp[c].rev /\ obj.uid = capp[c].uid
                 /\ obj.deleting = capp[c].deleting
                 /\ obj.fin <=> ~obj.deleting
                 /\ UpdateCapp(c, obj)
                 /\ UNCHANGED mw
    <2> DEFINE new == [sync.obj EXCEPT !.fin = fin]
    <2>1. sync.key \in Capps /\ sync.obj \in CappObjs
      BY <1>1, <1>2 DEF TypeOK, SyncTypeOK, SyncIdle
    <2>2. capp[sync.key] \in CappObjs /\ sync.obj = capp[sync.key]
      BY <1>1, <1>2, <2>1, CurrentCopy DEF SyncSnapshot
    <2>3. new \in CappObjs
      BY <1>2, <2>1, CappFields
    <2>4. /\ new.site = capp[sync.key].site /\ new.rev = capp[sync.key].rev
          /\ new.uid = capp[sync.key].uid
          /\ new.deleting = capp[sync.key].deleting
      BY <2>2 DEF CappObjs
    <2>5. new.fin <=> ~new.deleting
      <3>1. new.fin = fin
        BY <2>1 DEF CappObjs
      <3> QED BY <1>2, <2>2, <2>4, <3>1, Zenon
    <2>6. UpdateCapp(sync.key, new)
      BY <1>2
    <2> HIDE DEF new
    <2> QED BY <1>2, <2>1, <2>2, <2>3, <2>4, <2>5, <2>6
  <1>3. CASE EnsureFinalizer
    <2>1. ~sync.obj.deleting
      BY <1>1, <1>3 DEF EnsureFinalizer, SyncSnapshot
    <2> QED BY <1>2, <1>3, <2>1 DEF EnsureFinalizer, cappVars, mwVars
  <1>4. CASE HandleCappDeletion
    <2>1. sync.obj.deleting
      BY <1>1, <1>4 DEF HandleCappDeletion, SyncSnapshot
    <2> QED BY <1>2, <1>4, <2>1
           DEF HandleCappDeletion, CleanUp, finalizeCapp, removeFinalizer, cappVars
  <1> QED BY <1>3, <1>4 DEF SyncNext, SyncBegin, SyncManifestWork, SyncCallFails, cappVars

LEMMA NextKeepsRevisions ==
    ASSUME RInv, [Next]_vars
    PROVE  KeepsRevisions
  <1>1. TypeOK /\ CappTypeOK /\ InformerOK /\ AllMonotone
    BY RInvFacts
  <1>2. CASE UNCHANGED cappVars
    BY <1>1, <1>2, UnchangedKeepsRevisions
  <1>3. CASE PlaceNext
    BY <1>1, <1>2, <1>3, PlaceWrites, WriteKeepsRevisions, UpdateKeepsRevisions, NoneAssumption
  <1>4. CASE SyncNext
    BY <1>1, <1>2, <1>4, SyncWrites, UpdateKeepsRevisions, NoneAssumption
  <1>5. CASE ManagerNext
    <2>1. ASSUME NEW c \in Capps, Deliver(c)
          PROVE  KeepsRevisions
      <3>1. UNCHANGED ver /\ \A d \in Capps : Seen(d)' \subseteq Seen(d)
        BY <1>1, <2>1, SeenDeliver DEF Deliver
      <3> QED BY <1>1, <3>1, LessSeenKeeps
    <2>2. ASSUME NEW c \in Capps, Resync(c)
          PROVE  KeepsRevisions
      BY <1>2, <2>2 DEF Resync
    <2>3. CASE Restart
      <3>1. ASSUME NEW c \in Capps
            PROVE  Seen(c)' \subseteq Seen(c)
        <4>1. cache'[c] = capp[c] /\ events'[c] = <<>>
          BY <2>3 DEF Restart
        <4>2. Seen(c)' = {capp[c]}
          BY <4>1 DEF Seen
        <4> QED BY <1>1, <4>2, StoredSeen DEF InformerOK
      <3>2. UNCHANGED ver
        BY <2>3 DEF Restart
      <3> QED BY <1>1, <3>1, <3>2, LessSeenKeeps
    <2> QED BY <1>5, <2>1, <2>2, <2>3 DEF ManagerNext
  <1>6. CASE EnvNext
    <2>1. ASSUME NEW c \in Capps, NEW site \in Sites, NEW anno \in Clusters \cup {None},
                 CreateCapp(c, site, anno)
          PROVE  KeepsRevisions
      <3> DEFINE new == ver[c] + 1
                 obj == [site |-> site, rev |-> new, anno |-> anno, status |-> None, fin |-> FALSE,
                         deleting |-> FALSE, uid |-> new, rv |-> new]
      <3>1. obj \in CappObjs
        BY <1>1, <2>1, EnvironmentAssumption DEF CappObjs, CappTypeOK, Names
      <3>2. obj.rv = ver[c] + 1 /\ obj.rev = ver[c] + 1
        OBVIOUS
      <3>3. Store(c, obj)
        BY <2>1 DEF CreateCapp
      <3> HIDE DEF obj
      <3> QED BY <1>1, <3>1, <3>2, <3>3, StoreKeepsRevisions
    <2>2. ASSUME NEW c \in Capps, NEW site \in Sites, EditCapp(c, site)
          PROVE  KeepsRevisions
      <3> DEFINE obj == [capp[c] EXCEPT !.rev = ver[c] + 1, !.site = site]
      <3>1. capp[c] \in CappObjs /\ ver[c] + 1 \in Nat /\ site \in Names \cup {None}
        BY <1>1, <2>2, EnvironmentAssumption DEF EditCapp, CappTypeOK
      <3>2. obj \in CappObjs
        BY <3>1, CappFields
      <3>3. obj.rev = ver[c] + 1
        BY <3>1 DEF CappObjs
      <3>4. Write(c, obj)
        BY <2>2 DEF EditCapp
      <3> HIDE DEF obj
      <3> QED BY <1>1, <3>2, <3>3, <3>4, WriteKeepsRevisions
    <2>3. ASSUME NEW c \in Capps, DeleteCapp(c)
          PROVE  KeepsRevisions
      <3> DEFINE obj == [capp[c] EXCEPT !.deleting = TRUE]
      <3>1. capp[c] \in CappObjs /\ capp[c] # None
        BY <1>1, <2>3 DEF DeleteCapp, CappTypeOK
      <3>2. obj \in CappObjs
        BY <3>1, CappFields
      <3>3. obj.rev = capp[c].rev
        BY <3>1 DEF CappObjs
      <3>4. Write(c, obj) \/ Store(c, None)
        BY <2>3 DEF DeleteCapp
      <3> HIDE DEF obj
      <3> QED BY <1>1, <3>1, <3>2, <3>3, <3>4, WriteKeepsRevisions, StoreKeepsRevisions
    <2>4. AdminNext \/ AgentNext => UNCHANGED cappVars
      BY DEF AdminNext, AgentNext, SetConfig, SetDecision, DetachCluster, AgentApply,
             AgentCleanup, RefreshMWCache
    <2>5. ASSUME NEW c \in Capps, ToggleVolumes(c)
          PROVE  UNCHANGED cappVars
      BY <2>5 DEF ToggleVolumes
    <2> QED BY <1>2, <1>6, <2>1, <2>2, <2>3, <2>4, <2>5 DEF EnvNext, UserNext
  <1> QED BY <1>2, <1>3, <1>4, <1>5, <1>6 DEF Next, vars

-----------------------------------------------------------------------------
(* How ManifestWorks change.                                               *)

\* The manifests of a ManifestWork stay as they are, or it goes.
Touches ==
    \E k \in Clusters, n \in MWNames, work \in MWObjs \cup {None} :
       /\ mw[k][n] # None
       /\ PutManifestWork(k, n, work)
       /\ work # None => work.manifest = mw[k][n].manifest

Detaches ==
    \E k \in Clusters : mw' = [mw EXCEPT ![k] = [n \in MWNames |-> None]]

\* The sync worker publishes the copy it holds, where its annotation points.
Publishes ==
    \E k \in Clusters, n \in MWNames, work \in MWObjs :
       /\ sync.pc = "apply"
       /\ k = sync.obj.anno /\ n = GenerateMWName(sync.key)
       /\ work.manifest = [capp |-> sync.key, rev |-> sync.obj.rev]
       /\ PutManifestWork(k, n, work)
       /\ sync' = SyncIdle

LEMMA SyncWorks ==
    ASSUME RInv, SyncNext
    PROVE  UNCHANGED mw \/ (UNCHANGED cappVars /\ (Touches \/ Publishes))
  <1>1. TypeOK /\ mw \in WorkType /\ clusters \subseteq Clusters
    BY RInvFacts
  <1>2. ASSUME sync.pc # "idle"
        PROVE  /\ sync.key \in Capps
               /\ sync.obj \in CappObjs
               /\ GenerateMWName(sync.key) \in MWNames
               /\ [capp |-> sync.key, rev |-> sync.obj.rev] \in Workloads
    BY <1>1, <1>2, MWNameType DEF TypeOK, SyncTypeOK, SyncIdle, CappObjs, Workloads
  <1>3. CASE SyncManifestWork
    <2> DEFINE n == GenerateMWName(sync.key)
               k == sync.obj.anno
               manifests == [capp |-> sync.key, rev |-> sync.obj.rev]
    <2>0. k = sync.obj.anno /\ n = GenerateMWName(sync.key)
      OBVIOUS
    <2>1. n \in MWNames /\ manifests \in Workloads /\ UNCHANGED cappVars /\ sync.pc = "apply"
      BY <1>2, <1>3 DEF SyncManifestWork
    <2>2. SyncAnswered => sync' = SyncIdle
      BY DEF SyncAnswered, SyncDone, SyncRetry
    <2>3. CASE CreateManifestWork(k, n, manifests)
      <3> DEFINE work == [manifest |-> manifests, applied |-> None, deleting |-> FALSE]
      <3>1. work \in MWObjs /\ work.manifest = manifests
        BY <2>1 DEF MWObjs
      <3>2. UNCHANGED mw \/ (k \in Clusters /\ PutManifestWork(k, n, work) /\ SyncAnswered)
        BY <1>1, <2>3 DEF CreateManifestWork
      <3> HIDE DEF work, k, n
      <3> QED BY <2>0, <2>1, <2>2, <3>1, <3>2 DEF Publishes
    <2>4. CASE GetManifestWork(k, n) # None /\ UpdateManifestWork(k, n, manifests)
      <3> DEFINE work == [mw[k][n] EXCEPT !.manifest = manifests]
      <3>1. UNCHANGED mw \/ /\ k \in Clusters
                            /\ mw[k][n] # None
                            /\ PutManifestWork(k, n, work)
                            /\ SyncAnswered
        BY <2>4 DEF UpdateManifestWork, GetManifestWork
      <3>2. k \in Clusters /\ mw[k][n] # None => mw[k][n] \in MWObjs
        BY <1>1, <2>1 DEF WorkType
      <3>3. mw[k][n] \in MWObjs => work \in MWObjs /\ work.manifest = manifests
        BY <2>1 DEF MWObjs
      <3> HIDE DEF work, k, n
      <3> QED BY <2>0, <2>1, <2>2, <3>1, <3>2, <3>3 DEF Publishes
    <2> QED BY <1>3, <2>3, <2>4 DEF SyncManifestWork, AssembleFails
  <1>4. CASE HandleCappDeletion
    <2> DEFINE n == GenerateMWName(sync.key)
               k == sync.obj.status
               work == IF mw[k][n].applied = None THEN None
                       ELSE [mw[k][n] EXCEPT !.deleting = TRUE]
    <2>1. n \in MWNames
      BY <1>2, <1>4 DEF HandleCappDeletion
    <2>2. CASE GetManifestWork(k, n) # None /\ finalizeCapp(k, n)
      <3>1. UNCHANGED cappVars /\ k \in Clusters
        BY <2>2 DEF finalizeCapp, GetManifestWork
      <3>2. UNCHANGED mw \/ (mw[k][n] # None /\ PutManifestWork(k, n, work))
        BY <2>2 DEF finalizeCapp, DeleteManifestWork
      <3>3. ASSUME mw[k][n] # None
            PROVE  /\ work \in MWObjs \cup {None}
                   /\ work # None => work.manifest = mw[k][n].manifest
        <4>1. mw[k][n] \in MWObjs
          BY <1>1, <2>1, <3>1, <3>3 DEF WorkType
        <4> QED BY <4>1 DEF MWObjs
      <3> HIDE DEF work, k, n
      <3> QED BY <2>1, <3>1, <3>2, <3>3 DEF Touches
    <2> QED BY <1>4, <2>2 DEF HandleCappDeletion, CleanUp
  <1> QED BY <1>3, <1>4 DEF SyncNext, SyncBegin, EnsureFinalizer, SyncCallFails, mwVars

LEMMA NextWorks ==
    ASSUME RInv, Next
    PROVE  \/ UNCHANGED mw
           \/ UNCHANGED cappVars /\ UNCHANGED sync /\ (Touches \/ Detaches)
           \/ UNCHANGED cappVars /\ SyncNext /\ (Touches \/ Publishes)
  <1>1. mw \in WorkType
    BY RInvFacts
  <1>2. PlaceNext => UNCHANGED mw
    BY DEF PlaceNext, PlaceGetConfig, PlaceSelect, UpdateCappDestination,
           AddCappHasPlacementAnnotation, PlaceCallFails, mwVars
  <1>3. ManagerNext \/ UserNext => UNCHANGED mw
    BY DEF ManagerNext, Deliver, Resync, Restart, UserNext, CreateCapp, EditCapp,
           DeleteCapp, ToggleVolumes, mwVars
  <1>4. AdminNext => UNCHANGED mw \/ (UNCHANGED cappVars /\ Detaches)
    BY DEF AdminNext, SetConfig, SetDecision, DetachCluster, mwVars, Detaches
  <1>5. ASSUME NEW k \in Clusters, NEW n \in MWNames, AgentApply(k, n)
        PROVE  UNCHANGED cappVars /\ Touches
    <2> DEFINE work == [mw[k][n] EXCEPT !.applied = mw[k][n].manifest]
    <2>1. mw[k][n] \in MWObjs
      BY <1>1, <1>5 DEF AgentApply, WorkType
    <2>2. work \in MWObjs /\ work.manifest = mw[k][n].manifest
      BY <2>1 DEF MWObjs
    <2>3. PutManifestWork(k, n, work) /\ mw[k][n] # None /\ UNCHANGED cappVars
      BY <1>5 DEF AgentApply
    <2> HIDE DEF work
    <2> QED BY <2>2, <2>3 DEF Touches
  <1>6. ASSUME NEW k \in Clusters, NEW n \in MWNames, AgentCleanup(k, n)
        PROVE  UNCHANGED cappVars /\ Touches
    BY <1>6 DEF AgentCleanup, Touches
  <1>7. RefreshMWCache => UNCHANGED mw
    BY DEF RefreshMWCache
  <1>8. SyncNext => UNCHANGED mw \/ (UNCHANGED cappVars /\ (Touches \/ Publishes))
    BY SyncWorks
  <1> QED BY <1>2, <1>3, <1>4, <1>5, <1>6, <1>7, <1>8 DEF Next, EnvNext, AgentNext, syncVars

\* Where the manifests of a ManifestWork come from.
LEMMA WorkOrigin ==
    ASSUME RInv, [Next]_vars, NEW k \in Clusters, NEW n \in MWNames, mw'[k][n] # None
    PROVE  \/ mw[k][n] # None /\ mw'[k][n].manifest = mw[k][n].manifest
           \/ /\ sync.pc = "apply"
              /\ k = sync.obj.anno /\ n = GenerateMWName(sync.key)
              /\ sync' = SyncIdle
              /\ UNCHANGED cappVars
              /\ mw'[k][n].manifest = [capp |-> sync.key, rev |-> sync.obj.rev]
  <1>1. mw \in WorkType
    BY RInvFacts
  <1>2. CASE UNCHANGED mw
    BY <1>2
  <1>3. CASE Touches
    BY <1>1, <1>3, PutEffect DEF Touches
  <1>4. CASE Detaches
    BY <1>1, <1>4 DEF Detaches, WorkType
  <1>5. CASE Publishes /\ UNCHANGED cappVars
    <2>1. PICK j \in Clusters, m \in MWNames, work \in MWObjs :
             /\ sync.pc = "apply"
             /\ j = sync.obj.anno /\ m = GenerateMWName(sync.key)
             /\ work.manifest = [capp |-> sync.key, rev |-> sync.obj.rev]
             /\ PutManifestWork(j, m, work)
             /\ sync' = SyncIdle
      BY <1>5 DEF Publishes
    <2>2. mw'[k][n] = IF k = j /\ n = m THEN work ELSE mw[k][n]
      BY <1>1, <2>1, PutEffect
    <2> QED BY <1>5, <2>1, <2>2
  <1>6. CASE Next
    BY <1>2, <1>3, <1>4, <1>5, <1>6, NextWorks
  <1> QED BY <1>2, <1>6 DEF vars, mwVars

\* Where the copy comes from that the sync worker holds.
LEMMA SyncOrigin ==
    ASSUME RInv, [Next]_vars, sync'.pc # "idle"
    PROVE  \/ sync.pc # "idle" /\ sync'.key = sync.key /\ sync'.obj = sync.obj
           \/ \E c \in Capps : /\ cache[c] # None
                               /\ sync'.key = c
                               /\ sync'.obj = cache[c]
                               /\ UNCHANGED cappVars
  <1>1. TypeOK
    BY RInvFacts
  <1>2. CASE UNCHANGED sync
    BY <1>2
  <1>3. ASSUME NEW c \in Capps, SyncBegin(c)
        PROVE  \/ UNCHANGED sync
               \/ cache[c] # None /\ sync'.key = c /\ sync'.obj = cache[c] /\ UNCHANGED cappVars
    BY <1>3 DEF SyncBegin
  <1>4. CASE EnsureFinalizer
    <2>1. sync \in [pc : {"finalizer", "apply", "delete"}, key : Capps, obj : CappObjs]
      BY <1>1, <1>4 DEF EnsureFinalizer, TypeOK, SyncTypeOK, SyncIdle
    <2>2. sync' = [sync EXCEPT !.pc = "apply"]
      BY <1>4 DEF EnsureFinalizer, SyncRetry, SyncIdle
    <2> QED BY <1>4, <2>1, <2>2 DEF EnsureFinalizer
  <1>5. SyncManifestWork \/ HandleCappDeletion \/ SyncCallFails => sync'.pc = "idle"
    BY DEF SyncManifestWork, AssembleFails, CreateManifestWork, UpdateManifestWork, SyncAnswered,
           HandleCappDeletion, SyncCallFails, SyncDone, SyncRetry, SyncIdle
  <1>6. CASE SyncNext
    BY <1>2, <1>3, <1>4, <1>5, <1>6 DEF SyncNext
  <1>7. ManagerNext => UNCHANGED sync \/ sync'.pc = "idle"
    BY DEF ManagerNext, Deliver, Resync, Restart, SyncIdle
  <1> QED BY <1>2, <1>6, <1>7 DEF Next, vars, syncVars

\* A copy read from the cache is the oldest that the informer shows.
LEMMA CachedRevision ==
    ASSUME RInv, NEW c \in Capps, cache[c] # None
    PROVE  NoneOlder(c, cache[c].rev) /\ cache[c] \in Seen(c) /\ cache[c] \in CappObjs
  <1>1. CappTypeOK /\ InOrder(c) /\ Monotone(c)
    BY RInvFacts DEF InformerOK, AllMonotone
  <1>2. cache[c] \in Seen(c)
    BY DEF Seen
  <1>3. /\ cache[c] \in CappObjs
        /\ cache[c].rv <= ver[c]
        /\ ver[c] \in Nat
        /\ cache[c].rev <= cache[c].rv
    BY <1>1, <1>2, SeenBetween, SeenType DEF Monotone
  <1>4. cache[c].rev <= ver[c]
    BY <1>3 DEF CappObjs
  <1>5. ASSUME NEW obj \in Seen(c) \ {None}
        PROVE  cache[c].rev <= obj.rev
    BY <1>1, <1>2, SeenBetween DEF Monotone
  <1> QED BY <1>2, <1>3, <1>4, <1>5 DEF NoneOlder

LEMMA NextOrdered == RInv /\ [Next]_vars => RInv'
  <1> SUFFICES ASSUME RInv, [Next]_vars PROVE RInv'
    OBVIOUS
  <1>1. IInv' /\ KeepsRevisions
    BY NextConsistent, NextKeepsRevisions DEF RInv
  <1>2. TypeOK /\ mw \in WorkType /\ SyncRevision
    BY RInvFacts DEF RInv, RevisionsOrdered
  <1>3. sync.pc # "idle" => sync.key \in Capps /\ sync.obj.rev \in Nat
    BY <1>2 DEF TypeOK, SyncTypeOK, SyncIdle, CappObjs
  <1>4. ASSUME UNCHANGED cappVars
        PROVE  \A c, r : NoneOlder(c, r) => NoneOlder(c, r)'
    BY <1>4 DEF NoneOlder, Seen, cappVars
  <1>5. SyncRevision'
    <2> SUFFICES ASSUME sync'.pc # "idle"
                 PROVE  NoneOlder(sync.key, sync.obj.rev)'
      BY DEF SyncRevision, NoneOlder, Seen
    <2>1. CASE sync.pc # "idle" /\ sync'.key = sync.key /\ sync'.obj = sync.obj
      <3>1. NoneOlder(sync.key, sync.obj.rev)
        BY <1>2, <2>1 DEF SyncRevision
      <3>2. PICK c \in Capps, r \in Nat : c = sync.key /\ r = sync.obj.rev
        BY <1>3, <2>1
      <3>3. NoneOlder(c, r)'
        BY <1>1, <3>1, <3>2 DEF KeepsRevisions
      <3> QED BY <2>1, <3>2, <3>3 DEF NoneOlder, Seen
    <2>2. ASSUME NEW c \in Capps, cache[c] # None, sync'.key = c, sync'.obj = cache[c],
                 UNCHANGED cappVars
          PROVE  NoneOlder(sync.key, sync.obj.rev)'
      BY <1>4, <2>2, CachedRevision DEF NoneOlder, Seen, cappVars
    <2> QED BY <2>1, <2>2, SyncOrigin
  <1>6. ASSUME NEW k \in Clusters, NEW n \in MWNames, mw'[k][n] # None
        PROVE  WorkRevision(mw[k][n].manifest)'
    <2>1. CASE mw[k][n] # None /\ mw'[k][n].manifest = mw[k][n].manifest
      <3>1. PICK w \in Workloads : w = mw[k][n].manifest
        BY <1>2, <2>1 DEF WorkType, MWObjs
      <3>2. w.capp \in Capps /\ w.rev \in Nat
        BY DEF Workloads
      <3>3. WorkRevision(w)
        BY <2>1, <3>1 DEF RInv, RevisionsOrdered
      <3>4. NoneOlder(w.capp, w.rev)'
        <4>1. PICK c \in Capps, r \in Nat : c = w.capp /\ r = w.rev
          BY <3>2
        <4>2. NoneOlder(c, r)'
          BY <1>1, <3>3, <4>1 DEF KeepsRevisions, WorkRevision
        <4> QED BY <4>1, <4>2
      <3>5. ASSUME sync'.pc # "idle", sync'.key = w.capp
            PROVE  w.rev <= sync'.obj.rev
        <4>1. CASE sync.pc # "idle" /\ sync'.key = sync.key /\ sync'.obj = sync.obj
          BY <3>3, <3>5, <4>1 DEF WorkRevision, Rewrites
        <4>2. ASSUME NEW c \in Capps, cache[c] # None, sync'.key = c, sync'.obj = cache[c]
              PROVE  w.rev <= sync'.obj.rev
          BY <3>3, <3>5, <4>2, CachedRevision DEF WorkRevision, NoneOlder
        <4> QED BY <3>5, <4>1, <4>2, SyncOrigin
      <3>6. WorkRevision(w)'
        BY <3>4, <3>5 DEF WorkRevision, Rewrites
      <3> QED BY <2>1, <3>1, <3>6 DEF WorkRevision, Rewrites, NoneOlder, Seen
    <2>2. CASE /\ sync.pc = "apply"
               /\ sync' = SyncIdle
               /\ UNCHANGED cappVars
               /\ mw'[k][n].manifest = [capp |-> sync.key, rev |-> sync.obj.rev]
      <3>1. NoneOlder(sync.key, sync.obj.rev)
        BY <1>2, <2>2 DEF SyncRevision
      <3>2. mw'[k][n].manifest.capp = sync.key /\ mw'[k][n].manifest.rev = sync.obj.rev
        BY <2>2
      <3>3. sync'.pc = "idle"
        BY <2>2 DEF SyncIdle
      <3> QED BY <2>2, <3>1, <3>2, <3>3 DEF WorkRevision, Rewrites, NoneOlder, Seen, cappVars
    <2> QED BY <1>6, <2>1, <2>2, WorkOrigin
  <1> QED BY <1>1, <1>5, <1>6 DEF RInv, RevisionsOrdered, KeepsRevisions

LEMMA InitOrdered == Init => RInv
  <1> SUFFICES ASSUME Init PROVE RInv
    OBVIOUS
  <1>1. IInv
    BY InitType, InitConsistent DEF IInv
  <1>2. ASSUME NEW c \in Capps
        PROVE  Monotone(c)
    <2>1. Seen(c) = {None}
      BY DEF Init, HubInit, Seen
    <2> QED BY <2>1 DEF Monotone
  <1>3. SyncRevision
    BY DEF Init, SyncInit, SyncIdle, SyncRevision
  <1>4. \A k \in Clusters, n \in MWNames : mw[k][n] = None
    BY DEF Init, HubInit
  <1> QED BY <1>1, <1>2, <1>3, <1>4 DEF RInv, RevisionsOrdered

\* What is published of a Capp is never newer than a copy of it that
\* SyncManifestWork may still publish, in every environment.
THEOREM RevisionsStayOrdered == Spec => []RevisionsOrdered
  <1>1. RInv => RevisionsOrdered
    BY DEF RInv
  <1> QED BY <1>1, InitOrdered, NextOrdered, PTL DEF Spec

\* SyncManifestWork works from copies that may be old, and yet no ManifestWork is
\* ever rolled back to an older spec of its Capp, across retries, restarts and
\* re-created Capps.
THEOREM SpecsNeverRollBack == Spec => NeverRollsBack
  <1> DEFINE Step == \A k \in Clusters, n \in MWNames :
                        /\ mw[k][n] # None
                        /\ mw'[k][n] # None
                        /\ mw'[k][n].manifest.capp = mw[k][n].manifest.capp
                        => mw'[k][n].manifest.rev >= mw[k][n].manifest.rev
  <1>1. RInv /\ [Next]_vars => Step
    <2> SUFFICES ASSUME RInv, [Next]_vars, NEW k \in Clusters, NEW n \in MWNames,
                        mw[k][n] # None, mw'[k][n] # None,
                        mw'[k][n].manifest.capp = mw[k][n].manifest.capp
                 PROVE  mw'[k][n].manifest.rev >= mw[k][n].manifest.rev
      OBVIOUS
    <2>1. mw[k][n].manifest.rev \in Nat
      BY RInvFacts DEF WorkType, MWObjs, Workloads
    <2>2. CASE mw'[k][n].manifest = mw[k][n].manifest
      BY <2>1, <2>2
    <2>3. CASE /\ sync.pc = "apply"
               /\ mw'[k][n].manifest = [capp |-> sync.key, rev |-> sync.obj.rev]
      <3>1. WorkRevision(mw[k][n].manifest)
        BY DEF RInv, RevisionsOrdered
      <3>2. Rewrites(mw[k][n].manifest)
        BY <2>3 DEF Rewrites
      <3>3. sync.obj.rev \in Nat
        BY <2>3, RInvFacts DEF TypeOK, SyncTypeOK, SyncIdle, CappObjs
      <3>4. mw'[k][n].manifest.rev = sync.obj.rev
        BY <2>3
      <3> QED BY <2>1, <3>1, <3>2, <3>3, <3>4 DEF WorkRevision
    <2> QED BY <2>2, <2>3, WorkOrigin
  <1>2. RInv /\ [Next]_vars => [Step]_vars
    BY <1>1
  <1> QED BY <1>2, InitOrdered, NextOrdered, PTL DEF Spec, NeverRollsBack

-----------------------------------------------------------------------------
(* The refinement.                                                         *)

\* A change of one stored Capp that the lifecycle knows.
LifeStep(c) ==
    LET old == Phase(capp[c])
        new == Phase(capp'[c])
        r == Rev(capp[c])
        s == Rev(capp'[c])
    IN  \/ new = old /\ s = r
        \/ new = old /\ old # "absent" /\ s > r
        \/ /\ old = "absent" /\ new = "new"
           /\ \A k \in Clusters, n \in MWNames :
                 mw[k][n] # None /\ mw[k][n].manifest.capp = c => mw[k][n].manifest.rev < s
        \/ old = "new" /\ new = "guarded" /\ s = r
        \/ old = "new" /\ new = "absent" /\ s = 0
        \/ old = "guarded" /\ new = "leaving" /\ s = r
        \/ old = "leaving" /\ new = "absent" /\ s = 0

LEMMA WorksMap ==
    ASSUME mw \in WorkType, NEW k \in Clusters, NEW n \in MWNames
    PROVE  /\ works[k][n] = IF mw[k][n] = None THEN None ELSE mw[k][n].manifest
           /\ works[k][n] = None <=> mw[k][n] = None
  <1>1. works[k][n] = IF mw[k][n] = None THEN None ELSE mw[k][n].manifest
    BY DEF works
  <1>2. mw[k][n] # None => mw[k][n].manifest # None
    BY NoneAssumption DEF WorkType, MWObjs
  <1> QED BY <1>1, <1>2

LEMMA WorksPut ==
    ASSUME mw \in WorkType, NEW k \in Clusters, NEW n \in MWNames, NEW work,
           PutManifestWork(k, n, work), NEW v, v = IF work = None THEN None ELSE work.manifest
    PROVE  works' = [works EXCEPT ![k][n] = v]
  <1>0. \A j \in Clusters, m \in MWNames :
           mw'[j][m] = IF j = k /\ m = n THEN work ELSE mw[j][m]
    BY PutEffect
  <1> DEFINE row(j) == [m \in MWNames |-> IF j = k /\ m = n THEN v ELSE works[j][m]]
  <1>1. ASSUME NEW j \in Clusters
        PROVE  works'[j] = row(j)
    <2>1. works'[j] = [m \in MWNames |-> IF mw'[j][m] = None THEN None ELSE mw'[j][m].manifest]
      BY DEF works
    <2>2. ASSUME NEW m \in MWNames
          PROVE  (IF mw'[j][m] = None THEN None ELSE mw'[j][m].manifest)
                 = IF j = k /\ m = n THEN v ELSE works[j][m]
      BY <1>0 DEF works
    <2> QED BY <2>1, <2>2
  <1>2. ASSUME NEW j \in Clusters
        PROVE  [works EXCEPT ![k][n] = v][j] = row(j)
    <2>1. works[j] = [m \in MWNames |-> works[j][m]]
      BY DEF works
    <2>2. [works EXCEPT ![k][n] = v][j] = IF j = k THEN [works[j] EXCEPT ![n] = v] ELSE works[j]
      BY DEF works
    <2>3. [works[j] EXCEPT ![n] = v] = [m \in MWNames |-> IF m = n THEN v ELSE works[j][m]]
      BY <2>1
    <2>4. CASE j = k
      BY <2>2, <2>3, <2>4
    <2>5. CASE j # k
      BY <2>1, <2>2, <2>5
    <2> QED BY <2>4, <2>5
  <1>3. /\ works' = [j \in Clusters |-> works'[j]]
        /\ [works EXCEPT ![k][n] = v] = [j \in Clusters |-> [works EXCEPT ![k][n] = v][j]]
    BY DEF works
  <1> HIDE DEF row
  <1> QED BY <1>1, <1>2, <1>3

LEMMA CappStepMaps ==
    ASSUME CappTypeOK, mw \in WorkType, NEW c \in Capps,
           \A d \in Capps \ {c} : capp'[d] = capp[d],
           UNCHANGED mw, LifeStep(c)
    PROVE  [Life!Next]_(Life!vars)
  <1>1. /\ phase' = [phase EXCEPT ![c] = Phase(capp'[c])]
        /\ rev' = [rev EXCEPT ![c] = Rev(capp'[c])]
        /\ works' = works
    <2>1. \A d \in Capps : /\ phase'[d] = Phase(capp'[d])
                           /\ rev'[d] = Rev(capp'[d])
      BY DEF phase, rev, Phase, Rev
    <2>2. phase' = [phase EXCEPT ![c] = Phase(capp'[c])]
      BY <2>1 DEF phase, Phase
    <2>3. rev' = [rev EXCEPT ![c] = Rev(capp'[c])]
      BY <2>1 DEF rev, Rev
    <2>4. works' = works
      BY DEF works
    <2> QED BY <2>2, <2>3, <2>4
  <1>2. /\ phase[c] = Phase(capp[c])
        /\ rev[c] = Rev(capp[c])
        /\ rev'[c] = Rev(capp'[c])
        /\ rev' = [rev EXCEPT ![c] = rev'[c]]
        /\ DOMAIN phase = Capps /\ DOMAIN rev = Capps
        /\ phase = [d \in Capps |-> phase[d]]
        /\ rev = [d \in Capps |-> rev[d]]
    BY <1>1 DEF phase, rev
  <1> DEFINE old == Phase(capp[c])
             new == Phase(capp'[c])
             r == Rev(capp[c])
             s == Rev(capp'[c])
  <1>3. CASE new = old /\ s = r
    BY <1>1, <1>2, <1>3 DEF Life!vars
  <1>4. CASE new = old /\ old # "absent" /\ s > r
    <2>1. Life!Edit(c)
      BY <1>1, <1>2, <1>4 DEF Life!Edit
    <2> QED BY <2>1 DEF Life!Next
  <1>5. CASE /\ old = "absent" /\ new = "new"
             /\ \A k \in Clusters, n \in MWNames :
                   mw[k][n] # None /\ mw[k][n].manifest.capp = c => mw[k][n].manifest.rev < s
    <2>1. \A k \in Clusters, n \in MWNames : Life!Carries(k, n, c) => works[k][n].rev < s
      BY <1>5, WorksMap DEF Life!Carries
    <2>2. Life!Create(c)
      BY <1>1, <1>2, <1>5, <2>1 DEF Life!Create, Life!Become
    <2> QED BY <2>2 DEF Life!Next
  <1>6. CASE old = "new" /\ new = "guarded" /\ s = r
    <2>1. Life!Guard(c)
      BY <1>1, <1>2, <1>6 DEF Life!Guard, Life!Become
    <2> QED BY <2>1 DEF Life!Next
  <1>7. CASE \/ old = "new" /\ new = "absent" /\ s = 0
             \/ old = "guarded" /\ new = "leaving" /\ s = r
    <2>1. Life!Delete(c)
      BY <1>1, <1>2, <1>7 DEF Life!Delete, Life!Become
    <2> QED BY <2>1 DEF Life!Next
  <1>8. CASE old = "leaving" /\ new = "absent" /\ s = 0
    <2>1. Life!Release(c)
      BY <1>1, <1>2, <1>8 DEF Life!Release, Life!Become
    <2> QED BY <2>1 DEF Life!Next
  <1> QED BY <1>3, <1>4, <1>5, <1>6, <1>7, <1>8 DEF LifeStep

LEMMA UnchangedMaps ==
    ASSUME UNCHANGED <<capp, mw>>
    PROVE  [Life!Next]_(Life!vars)
  BY DEF Life!vars, phase, rev, works

\* A ManifestWork that is touched stays what it was to the lifecycle, or goes.
LEMMA TouchMaps ==
    ASSUME RInv, UNCHANGED capp, Touches
    PROVE  [Life!Next]_(Life!vars)
  <1>1. mw \in WorkType
    BY RInvFacts
  <1>2. PICK k \in Clusters, n \in MWNames, work \in MWObjs \cup {None} :
           /\ mw[k][n] # None
           /\ PutManifestWork(k, n, work)
           /\ work # None => work.manifest = mw[k][n].manifest
    BY DEF Touches
  <1>3. \A j \in Clusters, m \in MWNames :
           mw'[j][m] = IF j = k /\ m = n THEN work ELSE mw[j][m]
    BY <1>1, <1>2, PutEffect
  <1>4. UNCHANGED <<phase, rev>>
    BY DEF phase, rev
  <1>5. CASE work # None
    BY <1>2, <1>3, <1>4, <1>5 DEF Life!vars, works
  <1>6. CASE work = None
    <2>1. works' = [works EXCEPT ![k][n] = None]
      BY <1>1, <1>2, <1>6, WorksPut
    <2>2. Life!Withdraw(k, n)
      BY <1>4, <2>1 DEF Life!Withdraw
    <2> QED BY <2>2 DEF Life!Next
  <1> QED BY <1>5, <1>6

LEMMA DetachMaps ==
    ASSUME RInv, UNCHANGED capp, Detaches
    PROVE  [Life!Next]_(Life!vars)
  <1>1. mw \in WorkType
    BY RInvFacts
  <1>2. PICK k \in Clusters : mw' = [mw EXCEPT ![k] = [n \in MWNames |-> None]]
    BY DEF Detaches
  <1>3. works' = [works EXCEPT ![k] = [n \in MWNames |-> None]]
    BY <1>1, <1>2 DEF works, WorkType
  <1>4. Life!LoseCluster(k)
    BY <1>3 DEF Life!LoseCluster, phase, rev
  <1> QED BY <1>4 DEF Life!Next

\* Publishing: the stored Capp has the finalizer, and the worker's copy is no
\* newer than it and no older than what is published.
LEMMA PublishMaps ==
    ASSUME RInv, UNCHANGED capp, Publishes
    PROVE  [Life!Next]_(Life!vars)
  <1>1. TypeOK /\ CappTypeOK /\ InformerOK /\ SyncSnapshot /\ mw \in WorkType
    BY RInvFacts
  <1>2. PICK k \in Clusters, n \in MWNames, work \in MWObjs :
           /\ sync.pc = "apply"
           /\ work.manifest = [capp |-> sync.key, rev |-> sync.obj.rev]
           /\ PutManifestWork(k, n, work)
    BY DEF Publishes
  <1>3. \A j \in Clusters, m \in MWNames :
           mw'[j][m] = IF j = k /\ m = n THEN work ELSE mw[j][m]
    BY <1>1, <1>2, PutEffect
  <1>4. PICK c \in Capps : c = sync.key
    BY <1>1, <1>2 DEF TypeOK, SyncTypeOK, SyncIdle
  <1>5. capp[c] # None /\ capp[c].fin
    BY <1>1, <1>2, <1>4 DEF SyncSnapshot
  <1>6. phase[c] \in {"guarded", "leaving"} /\ rev[c] = capp[c].rev
    BY <1>5 DEF phase, Phase, rev, Rev
  <1>7. work # None /\ work.manifest # None /\ work.manifest.capp = c
        /\ work.manifest.rev = sync.obj.rev
    BY <1>2, <1>4, NoneAssumption DEF MWObjs
  <1>8. sync.obj.rev <= rev[c]
    <2>1. NoneOlder(c, sync.obj.rev)
      BY <1>2, <1>4 DEF RInv, RevisionsOrdered, SyncRevision
    <2>2. capp[c] \in Seen(c)
      BY <1>1, StoredSeen DEF InformerOK
    <2> QED BY <1>5, <1>6, <2>1, <2>2 DEF NoneOlder
  <1>9. works' = [works EXCEPT ![k][n] = work.manifest] /\ works'[k][n] = work.manifest
    <2>1. works' = [works EXCEPT ![k][n] = work.manifest]
      BY <1>1, <1>2, <1>7, WorksPut
    <2>2. works'[k][n] = work.manifest
      BY <1>3, <1>7 DEF works
    <2> QED BY <2>1, <2>2
  <1>10. Life!Carries(k, n, c) => works[k][n].rev <= work.manifest.rev
    <2> SUFFICES ASSUME Life!Carries(k, n, c) PROVE works[k][n].rev <= work.manifest.rev
      OBVIOUS
    <2>1. mw[k][n] # None /\ works[k][n] = mw[k][n].manifest /\ mw[k][n].manifest.capp = c
      BY <1>1, WorksMap DEF Life!Carries
    <2>2. WorkRevision(mw[k][n].manifest) /\ Rewrites(mw[k][n].manifest)
      BY <1>2, <1>4, <2>1 DEF RInv, RevisionsOrdered, Rewrites
    <2> QED BY <1>7, <2>1, <2>2 DEF WorkRevision
  <1>11. Life!Publish(c, k, n)
    BY <1>6, <1>7, <1>8, <1>9, <1>10 DEF Life!Publish, phase, rev
  <1> QED BY <1>11 DEF Life!Next

\* A controller's update of a Capp with its own spec and deletion mark.
LEMMA UpdateMaps ==
    ASSUME RInv, NEW c \in Capps, capp[c] \in CappObjs, NEW obj \in CappObjs,
           obj.site = capp[c].site, obj.rev = capp[c].rev, obj.uid = capp[c].uid,
           obj.deleting = capp[c].deleting,
           obj.fin = capp[c].fin \/ (obj.fin <=> ~obj.deleting),
           UpdateCapp(c, obj), UNCHANGED mw
    PROVE  [Life!Next]_(Life!vars)
  <1>1. CappTypeOK /\ mw \in WorkType
    BY RInvFacts
  <1>2. /\ \A d \in Capps \ {c} : capp'[d] = capp[d]
        /\ capp'[c] = None => capp[c].deleting
        /\ capp'[c] # None => /\ capp'[c].rev = capp[c].rev
                              /\ capp'[c].deleting = capp[c].deleting
                              /\ capp'[c].fin = obj.fin
    BY <1>1, UpdateCappEffect
  <1>3. capp[c] # None
    BY NoneAssumption
  <1>4. CASE capp'[c] = None
    BY <1>1, <1>2, <1>3, <1>4, CappStepMaps DEF LifeStep, Phase, Rev
  <1>5. CASE capp'[c] # None
    <2>1. CASE capp[c].deleting
      BY <1>1, <1>2, <1>3, <1>5, <2>1, CappStepMaps DEF LifeStep, Phase, Rev
    <2>2. CASE ~capp[c].deleting
      <3>1. capp'[c].fin = capp[c].fin \/ capp'[c].fin
        BY <1>2, <1>5, <2>2
      <3> QED BY <1>1, <1>2, <1>3, <1>5, <2>2, <3>1, CappStepMaps DEF LifeStep, Phase, Rev
    <2> QED BY <2>1, <2>2
  <1> QED BY <1>4, <1>5

LEMMA PlaceMaps ==
    ASSUME RInv, PlaceNext
    PROVE  [Life!Next]_(Life!vars)
  <1>1. CappTypeOK /\ mw \in WorkType
    BY RInvFacts
  <1>2. UNCHANGED mw
    BY DEF PlaceNext, PlaceGetConfig, PlaceSelect, UpdateCappDestination,
           AddCappHasPlacementAnnotation, PlaceCallFails, mwVars
  <1>3. CASE UNCHANGED capp
    BY <1>2, <1>3, UnchangedMaps
  <1>4. ASSUME NEW c \in Capps, capp[c] \in CappObjs, NEW obj \in CappObjs,
               obj.rev = capp[c].rev, obj.fin = capp[c].fin,
               obj.deleting = capp[c].deleting, Write(c, obj)
        PROVE  [Life!Next]_(Life!vars)
    <2>1. /\ \A d \in Capps \ {c} : capp'[d] = capp[d]
          /\ capp'[c] # None
          /\ capp'[c].rev = capp[c].rev
          /\ capp'[c].fin = capp[c].fin
          /\ capp'[c].deleting = capp[c].deleting
      BY <1>1, <1>4, WriteEffect
    <2>2. capp[c] # None
      BY <1>4, NoneAssumption
    <2> QED BY <1>1, <1>2, <2>1, <2>2, CappStepMaps DEF LifeStep, Phase, Rev
  <1> QED BY <1>2, <1>3, <1>4, PlaceWrites, UpdateMaps

LEMMA UserMaps ==
    ASSUME RInv, UserNext
    PROVE  [Life!Next]_(Life!vars)
  <1>1. CappTypeOK /\ InformerOK /\ AllMonotone /\ mw \in WorkType
    BY RInvFacts
  <1>2. UNCHANGED mw
    BY DEF UserNext, CreateCapp, EditCapp, DeleteCapp, ToggleVolumes, mwVars
  <1>3. ASSUME NEW c \in Capps, NEW site \in Sites, NEW anno \in Clusters \cup {None},
               CreateCapp(c, site, anno)
        PROVE  [Life!Next]_(Life!vars)
    <2> DEFINE new == ver[c] + 1
               obj == [site |-> site, rev |-> new, anno |-> anno, status |-> None, fin |-> FALSE,
                       deleting |-> FALSE, uid |-> new, rv |-> new]
    <2>1. obj \in CappObjs
      BY <1>1, <1>3, EnvironmentAssumption DEF CappObjs, CappTypeOK, Names
    <2>2. obj.rev = ver[c] + 1 /\ ~obj.fin /\ ~obj.deleting /\ obj # None
      BY <2>1, NoneAssumption
    <2>3. Store(c, obj) /\ capp[c] = None
      BY <1>3 DEF CreateCapp
    <2> HIDE DEF obj
    <2>4. capp'[c] = obj /\ \A d \in Capps \ {c} : capp'[d] = capp[d]
      BY <1>1, <2>3 DEF Store, CappTypeOK
    <2>5. ASSUME NEW k \in Clusters, NEW n \in MWNames, mw[k][n] # None, mw[k][n].manifest.capp = c
          PROVE  mw[k][n].manifest.rev < obj.rev
      <3>1. mw[k][n].manifest.rev <= ver[c]
        BY <2>5 DEF RInv, RevisionsOrdered, WorkRevision, NoneOlder
      <3>2. ver[c] \in Nat /\ mw[k][n].manifest.rev \in Nat
        BY <1>1, <2>5 DEF CappTypeOK, WorkType, MWObjs, Workloads
      <3> QED BY <2>2, <3>1, <3>2
    <2>6. LifeStep(c)
      BY <2>2, <2>3, <2>4, <2>5 DEF LifeStep, Phase, Rev
    <2> QED BY <1>1, <1>2, <2>4, <2>6, CappStepMaps
  <1>4. ASSUME NEW c \in Capps, NEW site \in Sites, EditCapp(c, site)
        PROVE  [Life!Next]_(Life!vars)
    <2> DEFINE obj == [capp[c] EXCEPT !.rev = ver[c] + 1, !.site = site]
    <2>1. capp[c] # None /\ capp[c] \in CappObjs /\ ver[c] \in Nat /\ site \in Names \cup {None}
      BY <1>1, <1>4, EnvironmentAssumption DEF EditCapp, CappTypeOK
    <2>1a. ver[c] + 1 \in Nat
      BY <2>1
    <2>2. obj \in CappObjs
      BY <2>1, <2>1a, CappFields
    <2>3. obj.rev = ver[c] + 1 /\ obj.fin = capp[c].fin /\ obj.deleting = capp[c].deleting
      BY <2>1 DEF CappObjs
    <2>4. Write(c, obj)
      BY <1>4 DEF EditCapp
    <2> HIDE DEF obj
    <2>5. /\ \A d \in Capps \ {c} : capp'[d] = capp[d]
          /\ capp'[c] # None
          /\ capp'[c].rev = ver[c] + 1
          /\ capp'[c].fin = capp[c].fin
          /\ capp'[c].deleting = capp[c].deleting
      BY <1>1, <2>2, <2>3, <2>4, WriteEffect
    <2>6. capp[c].rev <= ver[c]
      <3>1. capp[c] \in Seen(c) /\ InOrder(c) /\ Monotone(c)
        BY <1>1, StoredSeen DEF InformerOK, AllMonotone
      <3> QED BY <2>1, <3>1 DEF Monotone, InOrder
    <2>7. capp'[c].rev > capp[c].rev
      BY <2>1, <2>5, <2>6 DEF CappObjs
    <2> QED BY <1>1, <1>2, <2>1, <2>5, <2>7, CappStepMaps DEF LifeStep, Phase, Rev
  <1>5. ASSUME NEW c \in Capps, DeleteCapp(c)
        PROVE  [Life!Next]_(Life!vars)
    <2> DEFINE obj == [capp[c] EXCEPT !.deleting = TRUE]
    <2>1. capp[c] # None /\ capp[c] \in CappObjs /\ ~capp[c].deleting
      BY <1>1, <1>5 DEF DeleteCapp, CappTypeOK
    <2>2. obj \in CappObjs
      BY <2>1, CappFields
    <2>3. obj.rev = capp[c].rev /\ obj.deleting
      BY <2>1 DEF CappObjs
    <2>4. CASE capp[c].fin
      <3>1. Write(c, obj)
        BY <1>5, <2>4 DEF DeleteCapp
      <3> HIDE DEF obj
      <3>2. /\ \A d \in Capps \ {c} : capp'[d] = capp[d]
            /\ capp'[c] # None
            /\ capp'[c].rev = capp[c].rev
            /\ capp'[c].deleting
        BY <1>1, <2>2, <2>3, <3>1, WriteEffect
      <3> QED BY <1>1, <1>2, <2>1, <2>4, <3>2, CappStepMaps DEF LifeStep, Phase, Rev
    <2>5. CASE ~capp[c].fin
      <3>1. Store(c, None)
        BY <1>5, <2>5 DEF DeleteCapp
      <3>2. capp'[c] = None /\ \A d \in Capps \ {c} : capp'[d] = capp[d]
        BY <1>1, <3>1 DEF Store, CappTypeOK
      <3> QED BY <1>1, <1>2, <2>1, <2>5, <3>2, CappStepMaps DEF LifeStep, Phase, Rev
    <2> QED BY <2>4, <2>5
  <1>6. ASSUME NEW c \in Capps, ToggleVolumes(c)
        PROVE  [Life!Next]_(Life!vars)
    BY <1>2, <1>6, UnchangedMaps DEF ToggleVolumes, cappVars
  <1> QED BY <1>3, <1>4, <1>5, <1>6 DEF UserNext

LEMMA SyncMaps ==
    ASSUME RInv, SyncNext, Next
    PROVE  [Life!Next]_(Life!vars)
  <1>1. CASE UNCHANGED capp
    <2>1. CASE UNCHANGED mw
      BY <1>1, <2>1, UnchangedMaps
    <2> QED BY <1>1, <2>1, SyncWorks, TouchMaps, PublishMaps
  <1>2. ASSUME NEW c \in Capps, capp[c] \in CappObjs, NEW obj \in CappObjs,
               obj.site = capp[c].site, obj.rev = capp[c].rev, obj.uid = capp[c].uid,
               obj.deleting = capp[c].deleting, obj.fin <=> ~obj.deleting,
               UpdateCapp(c, obj), UNCHANGED mw
        PROVE  [Life!Next]_(Life!vars)
    BY <1>2, UpdateMaps
  <1> QED BY <1>1, <1>2, SyncWrites

LEMMA NextMaps == RInv /\ [Next]_vars => [Life!Next]_(Life!vars)
  <1> SUFFICES ASSUME RInv, [Next]_vars PROVE [Life!Next]_(Life!vars)
    OBVIOUS
  <1>1. CASE PlaceNext
    BY <1>1, PlaceMaps
  <1>2. CASE SyncNext /\ Next
    BY <1>2, SyncMaps
  <1>3. CASE UserNext
    BY <1>3, UserMaps
  <1>4. CASE UNCHANGED capp /\ Next /\ ~SyncNext
    <2>1. CASE UNCHANGED mw
      BY <1>4, <2>1, UnchangedMaps
    <2> QED BY <1>4, <2>1, NextWorks, TouchMaps, DetachMaps
  <1>5. ManagerNext \/ AdminNext \/ AgentNext => UNCHANGED capp
    BY DEF ManagerNext, Deliver, Resync, Restart, AgentNext, AgentApply, AgentCleanup,
           RefreshMWCache, AdminNext, SetConfig, SetDecision, DetachCluster, cappVars
  <1>6. CASE UNCHANGED vars
    BY <1>6, UnchangedMaps DEF vars, cappVars, mwVars
  <1> QED BY <1>1, <1>2, <1>3, <1>4, <1>5, <1>6 DEF Next, EnvNext

LEMMA InitMaps == Init => Life!Init
  BY DEF Init, HubInit, Life!Init, phase, rev, works, Phase, Rev

\* In every environment the operator implements the lifecycle of a Capp: nothing
\* is published before the finalizer, no deletion is undone, and what is published
\* is a revision the Capp had and only moves forward.
THEOREM LifecycleImplemented == Spec => ImplementsLifecycle
  BY InitOrdered, NextOrdered, InitMaps, NextMaps, PTL DEF Spec, ImplementsLifecycle, Life!Spec
=============================================================================
