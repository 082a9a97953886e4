----------------------------- MODULE WakeupProofs -----------------------------
(***************************************************************************)
(* Proofs that no Capp falls between the two controllers: whoever owes it  *)
(* a reconcile has its key or will be told of it, and while nothing moves  *)
(* a placed Capp, one that nobody has on his way is published as it is.    *)
(***************************************************************************)
EXTENDS PlacementProofs, FiniteSetTheorems

LEMMA IInvFacts ==
    ASSUME IInv
    PROVE  /\ TypeOK /\ CappTypeOK /\ InformerOK
           /\ PlaceSnapshot /\ SyncSnapshot
           /\ \A c \in Capps : InOrder(c)
           /\ \A c \in Capps : events[c] = <<>> => capp[c] = cache[c]
  BY DEF IInv, ConsistentCopies, InformerOK, InOrder, TypeOK, HubTypeOK, CappTypeOK

-----------------------------------------------------------------------------
(* Every change of a Capp is announced.                                    *)

\* As long as an event is pending, another reconcile of c is to come; without one
\* nothing has happened to c.
Announced ==
    \A c \in Capps : events'[c] = <<>> => capp'[c] = capp[c] /\ events[c] = <<>>

LEMMA StoreAnnounces ==
    ASSUME CappTypeOK, NEW c, NEW obj, Store(c, obj)
    PROVE  Announced
  <1> SUFFICES ASSUME NEW d \in Capps, events'[d] = <<>>
               PROVE  capp'[d] = capp[d] /\ events[d] = <<>>
    BY DEF Announced
  <1>1. CASE d = c
    <2>1. events'[d] = Append(events[d], obj) /\ events[d] \in Seq(CappObjs \cup {None})
      BY <1>1 DEF Store, CappTypeOK
    <2>2. events'[d] # <<>>
      BY <2>1
    <2> QED BY <2>2
  <1>2. CASE d # c
    BY <1>2 DEF Store, CappTypeOK
  <1> QED BY <1>1, <1>2

LEMMA WriteAnnounces ==
    ASSUME CappTypeOK, NEW c, NEW obj, Write(c, obj)
    PROVE  Announced
  BY StoreAnnounces DEF Write, Announced, cappVars

LEMMA UpdateAnnounces ==
    ASSUME CappTypeOK, NEW c, NEW obj, UpdateCapp(c, obj)
    PROVE  Announced
  BY StoreAnnounces, WriteAnnounces DEF UpdateCapp

LEMMA PlaceAnnounces ==
    ASSUME IInv, PlaceNext
    PROVE  Announced
  <1>1. CappTypeOK
    BY IInvFacts
  <1>2. UNCHANGED cappVars => Announced
    BY DEF Announced, cappVars
  <1>3. UpdateCappDestination => Announced
    BY <1>1, <1>2, WriteAnnounces DEF UpdateCappDestination, UpdateCappStatus
  <1>4. AddCappHasPlacementAnnotation => Announced
    BY <1>1, <1>2, UpdateAnnounces DEF AddCappHasPlacementAnnotation
  <1> QED BY <1>2, <1>3, <1>4 DEF PlaceNext, PlaceGetConfig, PlaceSelect, PlaceCallFails

LEMMA SyncAnnounces ==
    ASSUME IInv, SyncNext
    PROVE  Announced
  <1>1. CappTypeOK
    BY IInvFacts
  <1>2. UNCHANGED cappVars => Announced
    BY DEF Announced, cappVars
  <1>3. EnsureFinalizer => Announced
    BY <1>1, <1>2, UpdateAnnounces DEF EnsureFinalizer
  <1>4. removeFinalizer => Announced
    BY <1>1, <1>2, UpdateAnnounces DEF removeFinalizer
  <1>5. HandleCappDeletion => Announced
    BY <1>2, <1>4 DEF HandleCappDeletion, CleanUp, finalizeCapp, cappVars
  <1> QED BY <1>2, <1>3, <1>5 DEF SyncNext, SyncBegin, SyncManifestWork, SyncCallFails

LEMMA EnvAnnounces ==
    ASSUME IInv, EnvNext
    PROVE  Announced
  <1>1. CappTypeOK
    BY IInvFacts
  <1>2. UNCHANGED cappVars => Announced
    BY DEF Announced, cappVars
  <1>3. ASSUME NEW c, NEW site, NEW anno, CreateCapp(c, site, anno)
        PROVE  Announced
    BY <1>1, <1>3, StoreAnnounces DEF CreateCapp
  <1>4. ASSUME NEW c, NEW site, EditCapp(c, site)
        PROVE  Announced
    BY <1>1, <1>4, WriteAnnounces DEF EditCapp
  <1>5. ASSUME NEW c, DeleteCapp(c)
        PROVE  Announced
    BY <1>1, <1>5, StoreAnnounces, WriteAnnounces DEF DeleteCapp
  <1>6. ASSUME NEW c, ToggleVolumes(c)
        PROVE  UNCHANGED cappVars
    BY <1>6 DEF ToggleVolumes
  <1>7. AdminNext \/ AgentNext => UNCHANGED cappVars
    BY DEF AdminNext, AgentNext, SetConfig, SetDecision, DetachCluster, AgentApply,
           AgentCleanup, RefreshMWCache
  <1> QED BY <1>2, <1>3, <1>4, <1>5, <1>6, <1>7 DEF EnvNext, UserNext

\* The last event of a stored Capp, or its repetition, puts the key on the queue of
\* the controller whose Capp it is.
LEMMA DeliverWakes ==
    ASSUME IInv, NEW c \in Capps, Deliver(c)
    PROVE  /\ UNCHANGED <<capp, place, sync>>
           /\ syncQ \subseteq syncQ' /\ placeQ \subseteq placeQ'
           /\ \A d \in Capps \ {c} : events'[d] = events[d]
           /\ events'[c] = <<>> /\ capp[c] # None =>
                 IF ContainsPlacementAnnotation(capp[c]) THEN c \in syncQ' ELSE c \in placeQ'
  <1>1. CappTypeOK /\ InOrder(c)
    BY IInvFacts
  <1>2. events[c] \in Seq(CappObjs \cup {None}) /\ events[c] # <<>>
    BY <1>1 DEF Deliver, CappTypeOK
  <1>3. /\ events'[c] = Tail(events[c])
        /\ \A d \in Capps \ {c} : events'[d] = events[d]
        /\ Enqueue(c, IF Head(events[c]) = None THEN cache[c] ELSE Head(events[c]))
        /\ UNCHANGED <<capp, place, sync>>
    BY <1>1 DEF Deliver, CappTypeOK
  <1>4. events'[c] = <<>> => Head(events[c]) = capp[c]
    BY <1>1, <1>2, <1>3, TailFacts DEF InOrder
  <1> QED BY <1>3, <1>4 DEF Enqueue, CappPredicateFuncs, CappPredicateFunctions

LEMMA ResyncWakes ==
    ASSUME NEW c \in Capps, Resync(c)
    PROVE  /\ UNCHANGED <<capp, events, place, sync>>
           /\ syncQ \subseteq syncQ' /\ placeQ \subseteq placeQ'
  BY DEF Resync, Enqueue, cappVars

LEMMA RestartWakes ==
    ASSUME Restart, NEW c \in Capps, capp[c] # None
    PROVE  /\ capp'[c] = capp[c]
           /\ IF ContainsPlacementAnnotation(capp[c]) THEN c \in syncQ' ELSE c \in placeQ'
  BY DEF Restart, CappPredicateFuncs, CappPredicateFunctions

-----------------------------------------------------------------------------
(* No Capp is forgotten.                                                   *)

\* What NoCappForgotten says of the two controllers.
PlaceOwed(c) == capp[c] # None /\ ~ContainsPlacementAnnotation(capp[c])

SyncOwed(c) ==
    /\ capp[c] # None
    /\ ContainsPlacementAnnotation(capp[c])
    /\ capp[c].deleting \/ ~capp[c].fin

LEMMA OwedPending ==
    NoCappForgotten <=> \A c \in Capps : /\ PlaceOwed(c) => PlacePending(c)
                                         /\ SyncOwed(c) => SyncPending(c)
  BY DEF NoCappForgotten, PlaceOwed, SyncOwed

\* The annotation that the placement worker writes is never empty.
LEMMA AnnotationPlaces ==
    ASSUME IInv, AddCappHasPlacementAnnotation, Current(place.key, place.obj), Admitted(place.obj),
           NEW c, c = place.key
    PROVE  ~PlaceOwed(c)'
  <1> DEFINE new == [place.obj EXCEPT !.anno = place.dest]
  <1>1. TypeOK /\ CappTypeOK /\ InformerOK /\ PlaceSnapshot
    BY IInvFacts
  <1>2. /\ c \in Capps /\ place.obj \in CappObjs
        /\ place.dest \in Names /\ place.dest # None
    BY <1>1, NoneAssumption DEF AddCappHasPlacementAnnotation, TypeOK, PlaceTypeOK, PlaceIdle
  <1>3. capp[c] \in CappObjs /\ place.obj = capp[c]
    BY <1>1, <1>2, NoneAssumption, CurrentCopy DEF PlaceSnapshot
  <1>4. new \in CappObjs
    BY <1>2, CappFields
  <1>5. /\ new.site = capp[c].site /\ new.rev = capp[c].rev /\ new.uid = capp[c].uid
        /\ new.deleting = capp[c].deleting
        /\ new.anno = place.dest
    BY <1>3 DEF CappObjs
  <1>6. UpdateCapp(c, new)
    BY DEF AddCappHasPlacementAnnotation
  <1> HIDE DEF new
  <1>7. capp'[c] # None => capp'[c].anno = place.dest
    BY <1>1, <1>2, <1>3, <1>4, <1>5, <1>6, UpdateCappEffect
  <1> QED BY <1>2, <1>7 DEF PlaceOwed, ContainsPlacementAnnotation

\* The placement worker lets go of a key only when it has annotated the Capp, or
\* when there is none in the cache and none to come.
LEMMA PlaceKeepsKey ==
    ASSUME IInv, PlaceNext, NEW c \in Capps, PlaceOwed(c) => PlacePending(c), PlaceOwed(c)'
    PROVE  PlacePending(c)'
  <1> SUFFICES ASSUME events'[c] = <<>>
               PROVE  PlacePending(c)'
    BY DEF PlacePending
  <1>1. capp'[c] = capp[c] /\ events[c] = <<>>
    BY PlaceAnnounces DEF Announced
  <1>2. PlaceOwed(c) /\ capp[c] # None /\ cache[c] # None
    BY <1>1, IInvFacts DEF PlaceOwed
  <1>3. c \in placeQ \/ (place.pc # "idle" /\ place.key = c)
    BY <1>1, <1>2 DEF PlacePending
  <1>4. PlaceTypeOK
    BY IInvFacts DEF TypeOK
  <1>5. PlaceRetry => PlacePending(c)'
    BY <1>3 DEF PlaceRetry, PlacePending
  <1>6. ASSUME NEW d \in Capps, PlaceGetConfig(d)
        PROVE  PlacePending(c)'
    BY <1>3, <1>6 DEF PlaceGetConfig, PlacePending, PlaceIdle
  <1>7. CASE PlaceNotFound
    BY <1>2, <1>3, <1>7 DEF PlaceNotFound, PlaceDone, PlacePending
  <1>8. ASSUME placeQ' = placeQ, place'.key = place.key, place'.pc # "idle"
        PROVE  PlacePending(c)'
    BY <1>3, <1>8 DEF PlacePending
  <1>9. ASSUME place.pc = "select", NEW obj, NEW dest,
               place' = [place EXCEPT !.pc = "status", !.obj = obj, !.dest = dest]
        PROVE  place'.key = place.key /\ place'.pc # "idle"
    <2>1. place \in [pc : {"select"}, key : Capps, placements : Configs,
                     obj : {None}, dest : {None}]
      BY <1>4, <1>9 DEF PlaceTypeOK, PlaceIdle
    <2> QED BY <1>9, <2>1
  <1>10. CASE PlaceOnSite
    BY <1>8, <1>9, <1>10 DEF PlaceOnSite
  <1>11. CASE PlaceByDecision
    BY <1>5, <1>8, <1>9, <1>11 DEF PlaceByDecision
  <1>12. CASE UpdateCappDestination
    <2>1. place \in [pc : {"status", "annotate"}, key : Capps, placements : Configs,
                     obj : CappObjs, dest : Names]
      BY <1>4, <1>12 DEF UpdateCappDestination, PlaceTypeOK, PlaceIdle
    <2>2. ASSUME NEW obj, place' = [place EXCEPT !.pc = "annotate", !.obj = obj]
          PROVE  place'.key = place.key /\ place'.pc # "idle"
      BY <2>1, <2>2
    <2> QED BY <1>5, <1>8, <1>12, <2>2 DEF UpdateCappDestination
  <1>13. CASE AddCappHasPlacementAnnotation
    <2>1. CASE Current(place.key, place.obj) /\ Admitted(place.obj) /\ PlaceDone
      <3>1. c # place.key
        BY <1>13, <2>1, AnnotationPlaces
      <3> QED BY <1>3, <2>1, <3>1 DEF PlaceDone, PlacePending
    <2> QED BY <1>5, <1>13, <2>1 DEF AddCappHasPlacementAnnotation
  <1>14. PlaceCallFails => PlacePending(c)'
    BY <1>5 DEF PlaceCallFails
  <1> QED BY <1>6, <1>7, <1>10, <1>11, <1>12, <1>13, <1>14 DEF PlaceNext, PlaceSelect

\* The sync worker lets go of a key only when the Capp was published, and has the
\* finalizer, or when there is none in the cache and none to come.
LEMMA SyncKeepsKey ==
    ASSUME WakeInv, SyncNext, NEW c \in Capps, SyncOwed(c)'
    PROVE  SyncPending(c)'
  <1> SUFFICES ASSUME events'[c] = <<>>
               PROVE  SyncPending(c)'
    BY DEF SyncPending
  <1>1. capp'[c] = capp[c] /\ events[c] = <<>>
    BY SyncAnnounces DEF Announced, WakeInv
  <1>2. SyncOwed(c) /\ capp[c] # None /\ cache[c] # None
    BY <1>1, IInvFacts DEF SyncOwed, WakeInv
  <1>3. c \in syncQ \/ (sync.pc # "idle" /\ sync.key = c)
    BY <1>1, <1>2, OwedPending DEF SyncPending, WakeInv
  <1>4. SyncTypeOK /\ SyncSnapshot
    BY IInvFacts DEF TypeOK, WakeInv
  <1>5. SyncRetry => SyncPending(c)'
    BY <1>3 DEF SyncRetry, SyncPending
  <1>6. ASSUME NEW d \in Capps, SyncBegin(d)
        PROVE  SyncPending(c)'
    <2>1. CASE d = c
      BY <1>2, <1>6, <2>1 DEF SyncBegin, SyncPending
    <2>2. CASE d # c
      BY <1>3, <1>6, <2>2 DEF SyncBegin, SyncPending
    <2> QED BY <2>1, <2>2
  <1>7. CASE EnsureFinalizer
    <2>1. sync \in [pc : {"finalizer", "apply", "delete"}, key : Capps, obj : CappObjs]
      BY <1>4, <1>7 DEF EnsureFinalizer, SyncTypeOK, SyncIdle
    <2>2. sync' = [sync EXCEPT !.pc = "apply"] => sync'.key = sync.key /\ sync'.pc # "idle"
      BY <2>1
    <2> QED BY <1>3, <1>5, <1>7, <2>2 DEF EnsureFinalizer, SyncPending
  <1>8. CASE SyncManifestWork
    <2>1. CASE sync.key = c
      <3>1. capp[c].fin
        BY <1>4, <1>8, <2>1 DEF SyncManifestWork, SyncSnapshot
      <3>2. Outdated(c)
        BY <1>2, <1>8, <2>1, <3>1 DEF SyncManifestWork, SyncOwed, Outdated
      <3>3. c \in syncQ
        BY <1>1, <3>2 DEF WakeInv, OutdatedReadAgain
      <3> QED BY <1>5, <1>8, <3>3
             DEF SyncManifestWork, AssembleFails, CreateManifestWork, UpdateManifestWork,
                 SyncAnswered, SyncDone, SyncPending
    <2>2. CASE sync.key # c
      BY <1>3, <1>5, <1>8, <2>2
         DEF SyncManifestWork, AssembleFails, CreateManifestWork, UpdateManifestWork,
             SyncAnswered, SyncDone, SyncPending
    <2> QED BY <2>1, <2>2
  <1>9. HandleCappDeletion \/ SyncCallFails => SyncPending(c)'
    BY <1>5 DEF HandleCappDeletion, SyncCallFails
  <1> QED BY <1>6, <1>7, <1>8, <1>9 DEF SyncNext

LEMMA NextOwed ==
    ASSUME WakeInv, [Next]_vars
    PROVE  NoCappForgotten'
  <1> SUFFICES ASSUME NEW c \in Capps
               PROVE  /\ PlaceOwed(c)' => PlacePending(c)'
                      /\ SyncOwed(c)' => SyncPending(c)'
    BY DEF NoCappForgotten, PlaceOwed, SyncOwed, PlacePending, SyncPending
  <1>1. /\ IInv
        /\ PlaceOwed(c) => PlacePending(c)
        /\ SyncOwed(c) => SyncPending(c)
    BY OwedPending DEF WakeInv
  <1>2. ASSUME Announced, UNCHANGED placeVars
        PROVE  PlaceOwed(c)' => PlacePending(c)'
    BY <1>1, <1>2 DEF Announced, PlaceOwed, PlacePending, placeVars
  <1>3. ASSUME Announced, UNCHANGED syncVars
        PROVE  SyncOwed(c)' => SyncPending(c)'
    BY <1>1, <1>3 DEF Announced, SyncOwed, SyncPending, syncVars
  <1>4. UNCHANGED cappVars => Announced
    BY DEF Announced, cappVars
  <1>5. CASE PlaceNext /\ UNCHANGED syncVars
    BY <1>1, <1>3, <1>5, PlaceAnnounces, PlaceKeepsKey
  <1>6. CASE SyncNext /\ UNCHANGED placeVars
    BY <1>1, <1>2, <1>6, SyncAnnounces, SyncKeepsKey
  <1>7. CASE EnvNext /\ UNCHANGED <<placeVars, syncVars>>
    BY <1>1, <1>2, <1>3, <1>7, EnvAnnounces
  <1>8. ASSUME NEW d \in Capps, Deliver(d)
        PROVE  /\ PlaceOwed(c)' => PlacePending(c)'
               /\ SyncOwed(c)' => SyncPending(c)'
    BY <1>1, <1>8, DeliverWakes DEF PlaceOwed, SyncOwed, PlacePending, SyncPending
  <1>9. ASSUME NEW d \in Capps, Resync(d)
        PROVE  /\ PlaceOwed(c)' => PlacePending(c)'
               /\ SyncOwed(c)' => SyncPending(c)'
    BY <1>1, <1>9, ResyncWakes DEF PlaceOwed, SyncOwed, PlacePending, SyncPending
  <1>10. CASE Restart
    <2>1. capp'[c] = capp[c]
      BY <1>10 DEF Restart
    <2> QED BY <1>10, <2>1, RestartWakes DEF PlaceOwed, SyncOwed, PlacePending, SyncPending
  <1>11. CASE UNCHANGED vars
    BY <1>2, <1>3, <1>4, <1>11 DEF vars
  <1> QED BY <1>5, <1>6, <1>7, <1>8, <1>9, <1>10, <1>11 DEF Next, ManagerNext

\* When the worker takes a copy, it is the stored Capp or an event will follow; when
\* the Capp is written after that, an event follows too.
LEMMA NextReadAgain ==
    ASSUME WakeInv, [Next]_vars
    PROVE  OutdatedReadAgain'
  <1> SUFFICES ASSUME NEW c \in Capps, Outdated(c)', events'[c] = <<>>
               PROVE  c \in syncQ'
    BY DEF OutdatedReadAgain, Outdated
  <1>1. /\ IInv /\ SyncTypeOK /\ SyncSnapshot
        /\ Outdated(c) => c \in syncQ \/ events[c] # <<>>
    BY IInvFacts DEF WakeInv, OutdatedReadAgain, TypeOK
  <1>2. sync'.pc \in {"finalizer", "apply"} /\ sync'.key = c
    BY DEF Outdated
  <1>3. ASSUME Announced, sync.pc \in {"finalizer", "apply"}, sync'.key = sync.key,
               sync'.obj = sync.obj, syncQ' = syncQ
        PROVE  c \in syncQ'
    BY <1>1, <1>2, <1>3 DEF Announced, Outdated
  <1>4. ASSUME Announced, UNCHANGED syncVars
        PROVE  c \in syncQ'
    BY <1>2, <1>3, <1>4 DEF syncVars
  <1>5. UNCHANGED cappVars => Announced
    BY DEF Announced, cappVars
  <1>6. ASSUME NEW d \in Capps, SyncBegin(d)
        PROVE  FALSE
    <2>1. UNCHANGED sync \/ (cache[d] # None /\ sync' = [pc |-> sync'.pc, key |-> d, obj |-> cache[d]])
      BY <1>6 DEF SyncBegin
    <2>2. sync.pc = "idle" /\ UNCHANGED cappVars
      BY <1>6 DEF SyncBegin
    <2>3. d = c /\ sync'.obj = cache[c] /\ events[c] = <<>> /\ capp'[c] = capp[c]
      BY <1>2, <2>1, <2>2 DEF cappVars
    <2>4. sync'.obj = capp'[c]
      BY <1>1, <2>3, IInvFacts
    <2>5. cache[c].deleting
      BY <1>1, <2>3, <2>4, IInvFacts DEF Outdated
    <2>6. sync'.pc = "delete"
      BY <1>6, <2>1, <2>2, <2>3, <2>5, <1>2 DEF SyncBegin
    <2> QED BY <1>2, <2>6
  <1>7. CASE EnsureFinalizer /\ SyncNext
    <2>1. sync \in [pc : {"finalizer", "apply", "delete"}, key : Capps, obj : CappObjs]
      BY <1>1, <1>7 DEF EnsureFinalizer, SyncTypeOK, SyncIdle
    <2>2. sync' = [sync EXCEPT !.pc = "apply"] /\ syncQ' = syncQ
      BY <1>2, <1>7 DEF EnsureFinalizer, SyncRetry, SyncIdle
    <2>3. sync'.key = sync.key /\ sync'.obj = sync.obj
      BY <2>1, <2>2
    <2> QED BY <1>1, <1>3, <1>7, <2>2, <2>3, SyncAnnounces DEF EnsureFinalizer
  <1>8. ~(SyncManifestWork \/ HandleCappDeletion \/ SyncCallFails \/ Restart)
    BY <1>2 DEF SyncManifestWork, AssembleFails, CreateManifestWork, UpdateManifestWork, SyncAnswered,
           HandleCappDeletion, SyncCallFails, Restart, SyncDone, SyncRetry, SyncIdle
  <1>9. ASSUME NEW d \in Capps, Deliver(d)
        PROVE  c \in syncQ'
    <2>1. capp'[c] # None /\ ContainsPlacementAnnotation(capp'[c])
      BY DEF Outdated
    <2>2. CASE d = c
      BY <1>1, <1>9, <2>1, <2>2, DeliverWakes
    <2>3. CASE d # c
      <3>1. Outdated(c) /\ events[c] = <<>>
        BY <1>1, <1>9, <2>3, DeliverWakes DEF Outdated
      <3> QED BY <1>1, <1>9, <3>1, DeliverWakes
    <2> QED BY <2>2, <2>3
  <1>10. ASSUME NEW d \in Capps, Resync(d)
         PROVE  c \in syncQ'
    BY <1>1, <1>10, ResyncWakes DEF Outdated
  <1>11. CASE UNCHANGED vars
    BY <1>4, <1>5, <1>11 DEF vars
  <1>12. CASE (PlaceNext \/ EnvNext) /\ UNCHANGED syncVars
    BY <1>1, <1>4, <1>12, PlaceAnnounces, EnvAnnounces
  <1> QED BY <1>6, <1>7, <1>8, <1>9, <1>10, <1>11, <1>12 DEF Next, SyncNext, ManagerNext

LEMMA InitWakes == Init => WakeInv
  <1>1. Init => IInv
    BY InitType, InitConsistent DEF IInv
  <1>2. Init => NoCappForgotten
    BY DEF Init, HubInit, NoCappForgotten
  <1>3. Init => OutdatedReadAgain
    BY DEF Init, SyncInit, SyncIdle, OutdatedReadAgain, Outdated
  <1> QED BY <1>1, <1>2, <1>3 DEF WakeInv

LEMMA NextWakes == WakeInv /\ [Next]_vars => WakeInv'
  BY NextConsistent, NextOwed, NextReadAgain DEF WakeInv

\* Only Capps are watched, and each controller's filter drops what is the other's;
\* yet in every environment, across conflicts, failed calls and restarts, a Capp
\* without annotation is on its way through PlacementReconciler, and one that lacks
\* its finalizer or is being deleted through SyncReconciler.
THEOREM NoKeyIsLost == Spec => []NoCappForgotten
  <1>1. WakeInv => NoCappForgotten
    BY DEF WakeInv
  <1> QED BY <1>1, InitWakes, NextWakes, PTL DEF Spec

-----------------------------------------------------------------------------
(* Deletions are final.                                                    *)

\* A step shows nothing of c but what was there, and what is stored after it.
Shows == \A c \in Capps : Seen(c)' \subseteq Seen(c) \cup {capp'[c]}

LEMMA StoreShows ==
    ASSUME CappTypeOK, NEW c \in Capps, NEW obj, Store(c, obj)
    PROVE  Shows
  <1>1. Seen(c)' = Seen(c) \cup {obj} /\ \A d \in Capps \ {c} : Seen(d)' = Seen(d)
    BY SeenStore
  <1>2. capp'[c] = obj
    BY DEF Store, CappTypeOK
  <1> QED BY <1>1, <1>2 DEF Shows

LEMMA UpdateShows ==
    ASSUME CappTypeOK, NEW c \in Capps, NEW obj, Write(c, obj) \/ UpdateCapp(c, obj)
    PROVE  Shows
  BY StoreShows DEF Write, UpdateCapp, Shows, Seen, cappVars

LEMMA NextShows ==
    ASSUME RInv, [Next]_vars
    PROVE  Shows
  <1>1. CappTypeOK /\ InformerOK
    BY RInvFacts
  <1>2. UNCHANGED cappVars => Shows
    BY DEF Shows, Seen, cappVars
  <1>3. PlaceNext => Shows
    BY <1>1, <1>2, PlaceWrites, UpdateShows
  <1>4. SyncNext => Shows
    BY <1>1, <1>2, SyncWrites, UpdateShows
  <1>5. ASSUME NEW c \in Capps, NEW site, NEW anno, CreateCapp(c, site, anno)
        PROVE  Shows
    BY <1>1, <1>5, StoreShows DEF CreateCapp
  <1>6. ASSUME NEW c \in Capps, NEW site, EditCapp(c, site)
        PROVE  Shows
    BY <1>1, <1>6, UpdateShows DEF EditCapp
  <1>7. ASSUME NEW c \in Capps, DeleteCapp(c)
        PROVE  Shows
    BY <1>1, <1>7, StoreShows, UpdateShows DEF DeleteCapp
  <1>8. ASSUME NEW c \in Capps, ToggleVolumes(c)
        PROVE  UNCHANGED cappVars
    BY <1>8 DEF ToggleVolumes
  <1>9. AdminNext \/ AgentNext => UNCHANGED cappVars
    BY DEF AdminNext, AgentNext, SetConfig, SetDecision, DetachCluster, AgentApply,
           AgentCleanup, RefreshMWCache
  <1>10. ASSUME NEW c \in Capps, Deliver(c) PROVE Shows
    BY <1>1, <1>10, SeenDeliver DEF Shows
  <1>11. ASSUME NEW c \in Capps, Resync(c) PROVE UNCHANGED cappVars
    BY <1>11 DEF Resync
  <1>12. CASE Restart
    <2>1. ASSUME NEW c \in Capps
          PROVE  Seen(c)' \subseteq {capp'[c]}
      BY <1>12 DEF Restart, Seen
    <2> QED BY <2>1 DEF Shows
  <1>13. UNCHANGED vars => Shows
    BY <1>2 DEF vars
  <1> QED BY <1>2, <1>3, <1>4, <1>5, <1>6, <1>7, <1>8, <1>9, <1>10, <1>11, <1>12, <1>13
         DEF Next, ManagerNext, EnvNext, UserNext

\* A live Capp gets its finalizer from EnsureFinalizer, and from nobody else.
LEMMA FinalizerComes ==
    ASSUME RInv, [Next]_vars, NEW c \in Capps, capp'[c] # None, capp'[c].fin, ~capp'[c].deleting
    PROVE  \/ capp[c] # None /\ capp[c].fin /\ ~capp[c].deleting
           \/ EnsureFinalizer /\ c = sync.key /\ Current(c, sync.obj)
  <1> DEFINE Live == capp[c] # None /\ capp[c].fin /\ ~capp[c].deleting
  <1>1. CappTypeOK /\ SyncSnapshot /\ TypeOK
    BY RInvFacts
  <1>2. capp'[c] = capp[c] => Live
    OBVIOUS
  <1>3. CASE UNCHANGED cappVars
    BY <1>2, <1>3 DEF cappVars
  <1>4. CASE PlaceNext
    <2>1. ASSUME NEW d \in Capps, NEW obj \in CappObjs, capp[d] \in CappObjs,
                 obj.site = capp[d].site, obj.rev = capp[d].rev, obj.uid = capp[d].uid,
                 obj.fin = capp[d].fin, obj.deleting = capp[d].deleting,
                 Write(d, obj) \/ UpdateCapp(d, obj)
          PROVE  Live
      <3>1. /\ \A e \in Capps \ {d} : capp'[e] = capp[e]
            /\ capp'[d] # None => /\ capp'[d].fin = capp[d].fin
                                  /\ capp'[d].deleting = capp[d].deleting
        BY <1>1, <2>1, WriteEffect, UpdateCappEffect
      <3> QED BY <1>2, <2>1, <3>1, NoneAssumption
    <2> QED BY <1>2, <1>4, <2>1, PlaceWrites
  <1>5. CASE EnsureFinalizer /\ ~UNCHANGED cappVars
    <2>1. \A obj : UpdateCapp(sync.key, obj) => c = sync.key \/ capp'[c] = capp[c]
      BY <1>1 DEF UpdateCapp, Write, Store, CappTypeOK, cappVars
    <2> QED BY <1>2, <1>5, <2>1 DEF EnsureFinalizer
  <1>6. CASE HandleCappDeletion /\ ~UNCHANGED cappVars
    <2>1. UpdateCapp(sync.key, [sync.obj EXCEPT !.fin = FALSE])
      BY <1>6 DEF HandleCappDeletion, CleanUp, finalizeCapp, removeFinalizer, cappVars
    <2>2. sync.obj \in CappObjs /\ sync.obj.deleting
      BY <1>1, <1>6 DEF HandleCappDeletion, TypeOK, SyncTypeOK, SyncIdle, SyncSnapshot
    <2> DEFINE new == [[sync.obj EXCEPT !.fin = FALSE] EXCEPT !.status = capp[sync.key].status]
    <2>3. new.deleting /\ ~new.fin
      BY <2>2 DEF CappObjs
    <2>4. Store(sync.key, None)
      BY <2>1, <2>3 DEF UpdateCapp
    <2> QED BY <1>1, <1>2, <2>4 DEF Store, CappTypeOK
  <1>7. CASE SyncNext
    BY <1>3, <1>5, <1>6, <1>7 DEF SyncNext, SyncBegin, SyncManifestWork, SyncCallFails
  <1>8. ASSUME NEW d \in Capps, NEW site, NEW anno, CreateCapp(d, site, anno)
        PROVE  Live
    BY <1>1, <1>2, <1>8 DEF CreateCapp, Store, CappTypeOK
  <1>9. ASSUME NEW d \in Capps, NEW site \in Sites, EditCapp(d, site)
        PROVE  Live
    <2> DEFINE obj == [capp[d] EXCEPT !.rev = ver[d] + 1, !.site = site]
    <2>1. capp[d] \in CappObjs /\ capp[d] # None /\ ver[d] + 1 \in Nat
      BY <1>1, <1>9 DEF EditCapp, CappTypeOK
    <2>2. obj \in CappObjs /\ obj.fin = capp[d].fin /\ obj.deleting = capp[d].deleting
      BY <2>1, EnvironmentAssumption, CappFields DEF CappObjs
    <2>3. Write(d, obj)
      BY <1>9 DEF EditCapp
    <2> HIDE DEF obj
    <2> QED BY <1>1, <1>2, <2>1, <2>2, <2>3, WriteEffect
  <1>10. ASSUME NEW d \in Capps, DeleteCapp(d)
         PROVE  Live
    <2> DEFINE obj == [capp[d] EXCEPT !.deleting = TRUE]
    <2>1. capp[d] \in CappObjs
      BY <1>1, <1>10 DEF DeleteCapp, CappTypeOK
    <2>2. obj \in CappObjs /\ obj.deleting
      BY <2>1, CappFields DEF CappObjs
    <2>3. Write(d, obj) \/ Store(d, None)
      BY <1>10 DEF DeleteCapp
    <2> HIDE DEF obj
    <2>4. CASE Write(d, obj)
      BY <1>1, <1>2, <2>2, <2>4, WriteEffect
    <2>5. CASE Store(d, None)
      BY <1>1, <1>2, <2>5 DEF Store, CappTypeOK
    <2> QED BY <2>3, <2>4, <2>5
  <1>11. ASSUME NEW d \in Capps, ToggleVolumes(d)
         PROVE  UNCHANGED cappVars
    BY <1>11 DEF ToggleVolumes
  <1>12. AdminNext \/ AgentNext => UNCHANGED cappVars
    BY DEF AdminNext, AgentNext, SetConfig, SetDecision, DetachCluster, AgentApply,
           AgentCleanup, RefreshMWCache
  <1>13. CASE EnvNext
    BY <1>3, <1>8, <1>9, <1>10, <1>11, <1>12, <1>13 DEF EnvNext, UserNext
  <1>14. ManagerNext => UNCHANGED capp
    BY DEF ManagerNext, Deliver, Resync, Restart, cappVars
  <1>15. UNCHANGED vars => UNCHANGED capp
    BY DEF vars, cappVars
  <1> QED BY <1>2, <1>4, <1>7, <1>13, <1>14, <1>15 DEF Next

\* Whoever deletes a Capp cannot take it back.
LEMMA DeletingStays ==
    ASSUME RInv, [Next]_vars, NEW c \in Capps,
           capp[c] # None, capp[c].deleting, capp'[c] # None
    PROVE  capp'[c].deleting
  <1>1. phase[c] = "leaving" /\ phase'[c] = Phase(capp'[c])
    BY DEF phase, Phase
  <1>2. DOMAIN phase = Capps
    BY DEF phase
  <1>3. ASSUME NEW d, NEW p, Life!Become(d, p), c # d
        PROVE  phase'[c] = "leaving"
    BY <1>1, <1>2, <1>3 DEF Life!Become
  <1>4. ASSUME NEW d \in Capps, Life!Create(d) \/ Life!Guard(d) \/ Life!Delete(d)
        PROVE  phase'[c] = "leaving"
    BY <1>1, <1>3, <1>4 DEF Life!Create, Life!Guard, Life!Delete
  <1>5. ASSUME NEW d \in Capps, Life!Edit(d)
        PROVE  phase'[c] = "leaving"
    BY <1>1, <1>5 DEF Life!Edit
  <1>6. ASSUME NEW d \in Capps, Life!Release(d)
        PROVE  phase'[c] \in {"leaving", "absent"}
    BY <1>1, <1>2, <1>6 DEF Life!Release, Life!Become
  <1>7. ASSUME UNCHANGED phase
        PROVE  phase'[c] = "leaving"
    BY <1>1, <1>7
  <1>8. [Life!Next]_(Life!vars)
    BY NextMaps
  <1>9. phase'[c] \in {"leaving", "absent"}
    BY <1>4, <1>5, <1>6, <1>7, <1>8
       DEF Life!Next, Life!vars, Life!Publish, Life!Withdraw, Life!LoseCluster
  <1> QED BY <1>1, <1>9 DEF Phase

LEMMA NextDeletions ==
    ASSUME SInv, DeletionsFinal, [Next]_vars
    PROVE  DeletionsFinal'
  <1>1. RInv /\ CappTypeOK /\ SyncSnapshot /\ \A c \in Capps : InOrder(c)
    BY SInvFacts DEF InformerOK
  <1>2. ASSUME NEW c \in Capps, NEW x, x.deleting,
               capp'[c] # None, capp'[c].fin, ~capp'[c].deleting
        PROVE  /\ x \in Seen(c) \ {None} => FALSE
               /\ sync.pc # "idle" /\ c = sync.key /\ x = sync.obj => FALSE
    <2>1. CASE capp[c] # None /\ capp[c].fin /\ ~capp[c].deleting
      BY <1>2, <2>1 DEF DeletionsFinal, SameDeletion
    <2>2. CASE EnsureFinalizer /\ c = sync.key /\ Current(c, sync.obj)
      <3>1. sync.pc = "finalizer" /\ capp[c] = sync.obj /\ events[c] = <<>>
        BY <2>2, SyncHolds DEF EnsureFinalizer
      <3>2. ~sync.obj.deleting
        BY <1>1, <3>1 DEF SyncSnapshot
      <3>3. Seen(c) = {sync.obj}
        BY <1>1, <3>1 DEF Seen, InOrder
      <3> QED BY <1>2, <3>2, <3>3
    <2> QED BY <1>1, <1>2, <2>1, <2>2, FinalizerComes
  <1>3. ASSUME NEW c \in Capps, NEW x \in Seen(c)' \ {None}
        PROVE  SameDeletion(c, x)'
    <2>1. x \in Seen(c) \/ x = capp'[c]
      BY <1>1, NextShows DEF Shows
    <2> QED BY <1>2, <2>1 DEF SameDeletion
  <1>4. ASSUME sync'.pc # "idle"
        PROVE  SameDeletion(sync.key, sync.obj)'
    <2>1. CASE sync.pc # "idle" /\ sync'.key = sync.key /\ sync'.obj = sync.obj
      <3>1. PICK c \in Capps : c = sync.key
        BY <2>1, SyncHolds
      <3>2. PICK x : x = sync.obj
        OBVIOUS
      <3> QED BY <1>2, <2>1, <3>1, <3>2 DEF SameDeletion
    <2>2. ASSUME NEW c \in Capps, cache[c] # None, sync'.key = c, sync'.obj = cache[c],
                 UNCHANGED cappVars
          PROVE  SameDeletion(sync.key, sync.obj)'
      <3>1. PICK x \in Seen(c)' \ {None} : x = cache[c]
        BY <2>2 DEF Seen, cappVars
      <3>2. SameDeletion(c, x)'
        BY <1>3
      <3> QED BY <2>2, <3>1, <3>2 DEF SameDeletion
    <2> QED BY <1>1, <1>4, <2>1, <2>2, SyncOrigin
  <1> QED BY <1>3, <1>4 DEF DeletionsFinal, SameDeletion

-----------------------------------------------------------------------------
(* Published as it is.                                                     *)

\* What a step may do to the ManifestWork n in namespace k: leave it to the agent,
\* lose it, tell it to go, or publish the copy that the sync worker holds.
Kept(k, n) ==
    \/ mw'[k][n] = mw[k][n]
    \/ /\ mw[k][n] # None /\ mw'[k][n] # None
       /\ mw'[k][n].manifest = mw[k][n].manifest
       /\ mw'[k][n].deleting = mw[k][n].deleting

Lost(k, n) ==
    /\ mw'[k][n] = None
    /\ k \notin clusters' \/ (mw[k][n] # None /\ mw[k][n].deleting)

Told(k, n) ==
    /\ sync.pc = "delete" /\ n = GenerateMWName(sync.key)
    /\ UNCHANGED cappVars
    /\ mw[k][n] # None
    /\ mw'[k][n] # None => mw'[k][n].manifest = mw[k][n].manifest

Put(k, n) ==
    /\ sync.pc = "apply" /\ k = sync.obj.anno /\ n = GenerateMWName(sync.key)
    /\ UNCHANGED cappVars
    /\ mw'[k][n] # None
    /\ mw'[k][n].manifest = [capp |-> sync.key, rev |-> sync.obj.rev]
    /\ mw'[k][n].deleting => mw[k][n] # None /\ mw[k][n].deleting

LEMMA WorkMoves ==
    ASSUME RInv, [Next]_vars, NEW k \in Clusters, NEW n \in MWNames
    PROVE  Kept(k, n) \/ Lost(k, n) \/ Told(k, n) \/ Put(k, n)
  <1>1. mw \in WorkType /\ TypeOK /\ clusters \subseteq Clusters
    BY RInvFacts
  <1>2. mw[k][n] # None => mw[k][n] \in MWObjs
    BY <1>1 DEF WorkType
  <1>3. UNCHANGED mw => Kept(k, n)
    BY DEF Kept
  <1>4. ASSUME NEW j \in Clusters, NEW m \in MWNames, AgentApply(j, m)
        PROVE  Kept(k, n)
    <2> DEFINE work == [mw[j][m] EXCEPT !.applied = mw[j][m].manifest]
    <2>1. mw'[k][n] = IF k = j /\ n = m THEN work ELSE mw[k][n]
      BY <1>1, <1>4, PutEffect DEF AgentApply
    <2>2. CASE k = j /\ n = m
      <3>1. mw[k][n] # None /\ mw[k][n] \in MWObjs
        BY <1>2, <1>4, <2>2 DEF AgentApply
      <3>2. work \in MWObjs /\ work.manifest = mw[k][n].manifest /\ work.deleting = mw[k][n].deleting
        BY <2>2, <3>1 DEF MWObjs
      <3> HIDE DEF work
      <3> QED BY <2>1, <2>2, <3>1, <3>2, NoneAssumption DEF Kept
    <2> QED BY <2>1, <2>2 DEF Kept
  <1>5. ASSUME NEW j \in Clusters, NEW m \in MWNames, AgentCleanup(j, m)
        PROVE  Kept(k, n) \/ Lost(k, n)
    BY <1>1, <1>5, PutEffect DEF AgentCleanup, Kept, Lost
  <1>6. ASSUME NEW j \in Clusters, DetachCluster(j)
        PROVE  Kept(k, n) \/ Lost(k, n)
    <2>1. mw'[k] = IF k = j THEN [m \in MWNames |-> None] ELSE mw[k]
      BY <1>1, <1>6 DEF DetachCluster, WorkType
    <2> QED BY <1>6, <2>1 DEF DetachCluster, Kept, Lost
  <1>7. ASSUME sync.pc # "idle"
        PROVE  sync.key \in Capps /\ GenerateMWName(sync.key) \in MWNames
    BY <1>1, <1>7, MWNameType DEF TypeOK, SyncTypeOK, SyncIdle
  <1>8. CASE HandleCappDeletion
    <2> DEFINE m == GenerateMWName(sync.key)
               j == sync.obj.status
               work == IF mw[j][m].applied = None THEN None
                       ELSE [mw[j][m] EXCEPT !.deleting = TRUE]
    <2>1. m \in MWNames /\ sync.pc = "delete"
      BY <1>7, <1>8 DEF HandleCappDeletion
    <2>2. \/ UNCHANGED mw
          \/ j \in Clusters /\ UNCHANGED cappVars /\ mw[j][m] # None /\ PutManifestWork(j, m, work)
      BY <1>8 DEF HandleCappDeletion, CleanUp, finalizeCapp, DeleteManifestWork, GetManifestWork
    <2>3. CASE j \in Clusters /\ UNCHANGED cappVars /\ mw[j][m] # None /\ PutManifestWork(j, m, work)
      <3>1. mw'[k][n] = IF k = j /\ n = m THEN work ELSE mw[k][n]
        BY <1>1, <2>1, <2>3, PutEffect
      <3>2. CASE k = j /\ n = m
        <4>1. mw[k][n] \in MWObjs /\ mw[k][n] # None
          BY <1>2, <2>3, <3>2
        <4>2. work # None => work.manifest = mw[k][n].manifest
          BY <3>2, <4>1 DEF MWObjs
        <4> HIDE DEF work
        <4> QED BY <2>1, <2>3, <3>1, <3>2, <4>1, <4>2 DEF Told
      <3> HIDE DEF work, m, j
      <3> QED BY <3>1, <3>2 DEF Kept
    <2> HIDE DEF work, m, j
    <2> QED BY <1>3, <2>2, <2>3
  <1>9. CASE SyncManifestWork
    <2> DEFINE m == GenerateMWName(sync.key)
               j == sync.obj.anno
               manifests == [capp |-> sync.key, rev |-> sync.obj.rev]
               new == [manifest |-> manifests, applied |-> None, deleting |-> FALSE]
               work == [mw[j][m] EXCEPT !.manifest = manifests]
    <2>1. m \in MWNames /\ sync.pc = "apply" /\ UNCHANGED cappVars
      BY <1>7, <1>9 DEF SyncManifestWork
    <2>2. \/ UNCHANGED mw
          \/ j \in Clusters /\ PutManifestWork(j, m, new)
          \/ j \in Clusters /\ mw[j][m] # None /\ PutManifestWork(j, m, work)
      BY <1>1, <1>9
         DEF SyncManifestWork, AssembleFails, CreateManifestWork, UpdateManifestWork, GetManifestWork
    <2>3. sync.key \in Capps /\ sync.obj \in CappObjs
      BY <1>1, <2>1 DEF TypeOK, SyncTypeOK, SyncIdle
    <2>4. manifests \in Workloads
      BY <2>3 DEF Workloads, CappObjs
    <2>5. new \in MWObjs /\ new.manifest = manifests /\ ~new.deleting
      BY <2>4 DEF MWObjs
    <2>6. CASE j \in Clusters /\ PutManifestWork(j, m, new)
      <3>1. mw'[k][n] = IF k = j /\ n = m THEN new ELSE mw[k][n]
        BY <1>1, <2>1, <2>6, PutEffect
      <3> HIDE DEF new
      <3> QED BY <2>1, <2>5, <3>1, NoneAssumption DEF Kept, Put
    <2>7. CASE j \in Clusters /\ mw[j][m] # None /\ PutManifestWork(j, m, work)
      <3>1. mw'[k][n] = IF k = j /\ n = m THEN work ELSE mw[k][n]
        BY <1>1, <2>1, <2>7, PutEffect
      <3>2. CASE k = j /\ n = m
        <4>1. mw[k][n] \in MWObjs /\ mw[k][n] # None
          BY <1>2, <2>7, <3>2
        <4>2. work \in MWObjs /\ work.manifest = manifests /\ work.deleting = mw[k][n].deleting
          BY <2>4, <3>2, <4>1 DEF MWObjs
        <4> HIDE DEF work
        <4> QED BY <2>1, <3>1, <3>2, <4>1, <4>2, NoneAssumption DEF Put
      <3> HIDE DEF work, m, j
      <3> QED BY <3>1, <3>2 DEF Kept
    <2> HIDE DEF work, new, m, j
    <2> QED BY <1>3, <2>2, <2>6, <2>7
  <1>10. PlaceNext => UNCHANGED mw
    BY DEF PlaceNext, PlaceGetConfig, PlaceSelect, UpdateCappDestination,
           AddCappHasPlacementAnnotation, PlaceCallFails, mwVars
  <1>11. ManagerNext \/ UserNext \/ RefreshMWCache => UNCHANGED mw
    BY DEF ManagerNext, Deliver, Resync, Restart, UserNext, CreateCapp, EditCapp,
           DeleteCapp, ToggleVolumes, RefreshMWCache, mwVars
  <1>12. SyncNext => UNCHANGED mw \/ SyncManifestWork \/ HandleCappDeletion
    BY DEF SyncNext, SyncBegin, EnsureFinalizer, SyncCallFails, mwVars
  <1>13. AdminNext => UNCHANGED mw \/ \E j \in Clusters : DetachCluster(j)
    BY DEF AdminNext, SetConfig, SetDecision, mwVars
  <1>14. UNCHANGED vars => UNCHANGED mw
    BY DEF vars, mwVars
  <1> QED BY <1>3, <1>4, <1>5, <1>6, <1>8, <1>9, <1>10, <1>11, <1>12, <1>13, <1>14
         DEF Next, EnvNext, AgentNext

\* While works are where the status of their Capp points, one that was told to go
\* is of a Capp that is being deleted.
LEMMA NextMarked ==
    ASSUME Steady, DistinctNames, SInv, DeletionsFinal, MarkedWithCapp, [Next]_vars
    PROVE  MarkedWithCapp'
  <1>1. RInv /\ SyncSnapshot /\ WorkNamed /\ mw \in WorkType /\ TypeOK
    BY SInvFacts
  <1>2. SInv'
    BY NextSettled
  <1>3. mw' \in WorkType /\ WorkReachable'
    BY <1>2 DEF SInv, RInv, IInv, TypeOK, HubTypeOK, WorkType
  <1>4. ASSUME NEW k \in Clusters, NEW n \in MWNames, mw'[k][n] # None, mw'[k][n].deleting,
               NEW c, c = mw'[k][n].manifest.capp
        PROVE  capp'[c].deleting
    <2>1. c \in Capps
      BY <1>3, <1>4 DEF WorkType, MWObjs, Workloads
    <2>2. capp'[c] # None
      BY <1>3, <1>4 DEF WorkReachable
    <2>3. ASSUME mw[k][n] # None, NEW d, d = mw[k][n].manifest.capp
          PROVE  /\ d \in Capps /\ n = GenerateMWName(d)
                 /\ capp[d] # None /\ capp[d].fin
                 /\ mw[k][n].deleting => capp[d].deleting
      BY <1>1, <2>3 DEF WorkType, MWObjs, Workloads, WorkNamed, SInv, WorkReachable, MarkedWithCapp
    <2>4. capp[c] # None /\ capp[c].deleting
      <3>1. CASE Kept(k, n)
        BY <1>4, <2>3, <3>1 DEF Kept
      <3>2. CASE Told(k, n)
        <4>1. capp[c] # None /\ capp[c].fin /\ n = GenerateMWName(c)
          BY <1>4, <2>3, <3>2 DEF Told
        <4>2. sync.key \in Capps /\ sync.obj.deleting
          BY <1>1, <3>2, SyncHolds DEF Told, SyncSnapshot
        <4>3. c = sync.key
          BY <2>1, <3>2, <4>1, <4>2 DEF Told, DistinctNames
        <4>4. SameDeletion(c, sync.obj)
          BY <3>2, <4>3 DEF Told, DeletionsFinal
        <4> QED BY <4>1, <4>2, <4>4 DEF SameDeletion
      <3>3. CASE Put(k, n)
        <4>1. c = sync.key /\ n = GenerateMWName(c) /\ mw[k][n] # None /\ mw[k][n].deleting
          BY <1>4, <3>3 DEF Put
        <4>2. PICK d : d = mw[k][n].manifest.capp
          OBVIOUS
        <4>3. d = c
          BY <2>1, <2>3, <4>1, <4>2 DEF DistinctNames
        <4> QED BY <2>3, <4>1, <4>2, <4>3
      <3> QED BY <1>1, <1>4, <3>1, <3>2, <3>3, WorkMoves DEF Lost
    <2> QED BY <1>1, <2>1, <2>2, <2>4, DeletingStays
  <1> QED BY <1>4 DEF MarkedWithCapp

PInv == SInv /\ WakeInv /\ DeletionsFinal /\ MarkedWithCapp /\ PublishedOrPending

\* The work that a live Capp is published by.
PublishedAs(c) ==
    LET work == mw[capp[c].anno][GenerateMWName(c)]
    IN  work # None /\ work.manifest = [capp |-> c, rev |-> capp[c].rev]

\* A Capp that the sync worker has nothing to do with keeps its ManifestWork.
LEMMA PublishedStays ==
    ASSUME DistinctNames, PInv, [Next]_vars, NEW c \in Capps,
           capp[c] # None, ~capp[c].deleting, capp[c].anno \in clusters', ~SyncPending(c),
           capp'[c] = capp[c], clusters' \subseteq clusters
    PROVE  PublishedAs(c)'
  <1> DEFINE k == capp[c].anno
             n == GenerateMWName(c)
  <1>1. RInv /\ clusters \subseteq Clusters
    BY RInvFacts DEF PInv, SInv
  <1>2. k \in Clusters /\ n \in MWNames
    BY <1>1, MWNameType
  <1>3. /\ mw[k][n] # None
        /\ mw[k][n].manifest = [capp |-> c, rev |-> capp[c].rev]
        /\ ~mw[k][n].deleting
    BY DEF PInv, PublishedOrPending
  <1>4. ~(Told(k, n) \/ Put(k, n))
    <2>1. SUFFICES ASSUME sync.pc # "idle", n = GenerateMWName(sync.key) PROVE FALSE
      BY DEF Told, Put
    <2>2. sync.key \in Capps
      BY <2>1, SyncHolds DEF PInv
    <2>3. c = sync.key
      BY <2>1, <2>2 DEF DistinctNames
    <2> QED BY <2>1, <2>3 DEF SyncPending
  <1>5. ~Lost(k, n)
    BY <1>3 DEF Lost
  <1>6. Kept(k, n)
    BY <1>1, <1>2, <1>4, <1>5, WorkMoves
  <1>7. mw'[k][n] # None /\ mw'[k][n].manifest = [capp |-> c, rev |-> capp[c].rev]
    BY <1>3, <1>6 DEF Kept
  <1> QED BY <1>7 DEF PublishedAs

\* When the sync worker lets go of a Capp, it has just published the stored one.
LEMMA DonePublishes ==
    ASSUME PInv, SyncNext, NEW c \in Capps, SyncPending(c), ~SyncPending(c)',
           capp'[c] # None, ~capp'[c].deleting, ContainsPlacementAnnotation(capp'[c])
    PROVE  PublishedAs(c)'
  <1>1. /\ IInv /\ WakeInv /\ SInv /\ mw \in WorkType
        /\ SyncTypeOK /\ clusters \subseteq Clusters
    BY SInvFacts, RInvFacts DEF PInv, TypeOK, SInv
  <1>2. events'[c] = <<>> /\ c \notin syncQ' /\ ~(sync'.pc # "idle" /\ sync'.key = c)
    BY DEF SyncPending
  <1>3. capp'[c] = capp[c] /\ events[c] = <<>>
    BY <1>1, <1>2, SyncAnnounces DEF Announced
  <1>4. cache[c] # None
    BY <1>1, <1>3, IInvFacts
  <1>5. c \in syncQ \/ (sync.pc # "idle" /\ sync.key = c)
    BY <1>3 DEF SyncPending
  <1>6. SyncRetry => FALSE
    BY <1>2, <1>5 DEF SyncRetry
  <1>7. ASSUME NEW d \in Capps, SyncBegin(d)
        PROVE  FALSE
    <2>1. CASE d = c
      BY <1>2, <1>4, <1>7, <2>1 DEF SyncBegin
    <2>2. CASE d # c
      BY <1>2, <1>5, <1>7, <2>2 DEF SyncBegin
    <2> QED BY <2>1, <2>2
  <1>8. ~EnsureFinalizer
    <2> SUFFICES ASSUME EnsureFinalizer PROVE FALSE
      OBVIOUS
    <2>1. sync \in [pc : {"finalizer", "apply", "delete"}, key : Capps, obj : CappObjs]
      BY SyncHolds, <1>1 DEF EnsureFinalizer
    <2>2. sync' = [sync EXCEPT !.pc = "apply"] /\ UNCHANGED syncQ
      BY <1>6 DEF EnsureFinalizer
    <2>3. sync'.key = sync.key /\ sync'.pc # "idle"
      BY <2>1, <2>2
    <2> QED BY <1>2, <1>5, <2>2, <2>3
  <1>9. ~(HandleCappDeletion \/ SyncCallFails)
    BY <1>6 DEF HandleCappDeletion, SyncCallFails
  <1>10. SyncManifestWork
    BY <1>7, <1>8, <1>9 DEF SyncNext
  <1> DEFINE n == GenerateMWName(sync.key)
             k == sync.obj.anno
             manifests == [capp |-> sync.key, rev |-> sync.obj.rev]
             new == [manifest |-> manifests, applied |-> None, deleting |-> FALSE]
             work == [mw[k][n] EXCEPT !.manifest = manifests]
  <1>11. /\ SyncDone
         /\ k \in Clusters
         /\ \/ PutManifestWork(k, n, new)
            \/ mw[k][n] # None /\ PutManifestWork(k, n, work)
    BY <1>1, <1>6, <1>10
       DEF SyncManifestWork, AssembleFails, CreateManifestWork, UpdateManifestWork,
           SyncAnswered, GetManifestWork
  <1>12. sync.key = c /\ c \notin syncQ /\ sync.pc = "apply"
    BY <1>2, <1>5, <1>10, <1>11 DEF SyncDone, SyncManifestWork
  <1>13. capp[c].rev = sync.obj.rev /\ capp[c].anno = sync.obj.anno
    BY <1>1, <1>3, <1>12 DEF WakeInv, OutdatedReadAgain, Outdated
  <1>14. n \in MWNames /\ manifests \in Workloads
    BY <1>1, <1>12, SyncHolds, MWNameType DEF Workloads, CappObjs
  <1>15. mw'[k][n] \in MWObjs /\ mw'[k][n].manifest = manifests
    <2>1. CASE PutManifestWork(k, n, new)
      <3>1. new \in MWObjs /\ new.manifest = manifests
        BY <1>14 DEF MWObjs
      <3> HIDE DEF new
      <3> QED BY <1>1, <1>11, <1>14, <2>1, <3>1, PutEffect
    <2>2. CASE mw[k][n] # None /\ PutManifestWork(k, n, work)
      <3>1. mw[k][n] \in MWObjs
        BY <1>1, <1>11, <1>14, <2>2 DEF WorkType
      <3>2. work \in MWObjs /\ work.manifest = manifests
        BY <1>14, <3>1 DEF MWObjs
      <3> HIDE DEF work
      <3> QED BY <1>1, <1>11, <1>14, <2>2, <3>2, PutEffect
    <2> HIDE DEF new, work
    <2> QED BY <1>11, <2>1, <2>2
  <1> HIDE DEF new, work
  <1> QED BY <1>3, <1>12, <1>13, <1>15, NoneAssumption DEF PublishedAs

LEMMA ClustersOnlyLeave ==
    ASSUME [Next]_vars
    PROVE  clusters' \subseteq clusters
  BY DEF Next, vars, ocmVars, PlaceNext, PlaceGetConfig, PlaceSelect, UpdateCappDestination,
         AddCappHasPlacementAnnotation, PlaceCallFails, SyncNext, SyncBegin, EnsureFinalizer,
         SyncManifestWork, HandleCappDeletion, SyncCallFails, ManagerNext, Deliver, Resync, Restart,
         EnvNext, UserNext, CreateCapp, EditCapp, DeleteCapp, ToggleVolumes, AdminNext, SetConfig,
         SetDecision, DetachCluster, AgentNext, AgentApply, AgentCleanup, RefreshMWCache

LEMMA NextPublished ==
    ASSUME Steady, DistinctNames, PInv, [Next]_vars
    PROVE  PublishedOrPending'
  <1>1. IInv /\ WakeInv /\ clusters' \subseteq clusters /\ clusters \subseteq Clusters
    BY ClustersOnlyLeave, RInvFacts DEF PInv, SInv, RInv
  <1>2. MarkedWithCapp' /\ mw' \in WorkType
    <2>1. SInv'
      BY NextSettled DEF PInv
    <2> QED BY <2>1, NextMarked DEF PInv, SInv, RInv, IInv, TypeOK, HubTypeOK, WorkType
  <1>3. ASSUME NEW c \in Capps, capp'[c] # None, ~capp'[c].deleting,
               capp'[c].anno \in clusters', ~SyncPending(c)'
        PROVE  PublishedAs(c)'
    <2>1. ContainsPlacementAnnotation(capp'[c])
      BY <1>1, <1>3, NoneAssumption DEF ContainsPlacementAnnotation, Names
    <2>2. events'[c] = <<>> /\ c \notin syncQ'
      BY <1>3 DEF SyncPending
    <2>3. ASSUME Announced, UNCHANGED syncVars
          PROVE  PublishedAs(c)'
      BY <1>1, <1>3, <2>2, <2>3, PublishedStays DEF Announced, SyncPending, syncVars
    <2>4. UNCHANGED cappVars => Announced
      BY DEF Announced, cappVars
    <2>5. CASE SyncNext
      BY <1>1, <1>3, <2>1, <2>2, <2>5, SyncAnnounces, DonePublishes, PublishedStays DEF Announced
    <2>6. CASE (PlaceNext \/ EnvNext) /\ UNCHANGED syncVars
      BY <1>1, <2>3, <2>6, PlaceAnnounces, EnvAnnounces
    <2>7. ASSUME NEW d \in Capps, Deliver(d)
          PROVE  PublishedAs(c)'
      <3>1. CASE d = c
        BY <1>1, <1>3, <2>1, <2>2, <2>7, <3>1, DeliverWakes
      <3>2. CASE d # c
        <4>1. ~SyncPending(c) /\ capp'[c] = capp[c]
          BY <1>1, <1>3, <2>7, <3>2, DeliverWakes DEF SyncPending
        <4> QED BY <1>1, <1>3, <4>1, PublishedStays
      <3> QED BY <3>1, <3>2
    <2>8. ASSUME NEW d \in Capps, Resync(d)
          PROVE  PublishedAs(c)'
      <3>1. ~SyncPending(c) /\ capp'[c] = capp[c]
        BY <1>3, <2>8, ResyncWakes DEF SyncPending
      <3> QED BY <1>1, <1>3, <3>1, PublishedStays
    <2>9. ~Restart
      <3> SUFFICES ASSUME Restart PROVE FALSE
        OBVIOUS
      <3>1. capp'[c] = capp[c]
        BY DEF Restart
      <3> QED BY <1>3, <2>1, <2>2, <3>1, RestartWakes
    <2>10. UNCHANGED vars => PublishedAs(c)'
      BY <2>3, <2>4 DEF vars
    <2> QED BY <2>5, <2>6, <2>7, <2>8, <2>9, <2>10 DEF Next, ManagerNext
  <1>4. ASSUME NEW c \in Capps, capp'[c] # None, ~capp'[c].deleting,
               capp'[c].anno \in clusters', ~SyncPending(c)'
        PROVE  /\ PublishedAs(c)'
               /\ ~mw'[capp'[c].anno][GenerateMWName(c)].deleting
    <2> DEFINE k == capp'[c].anno
               n == GenerateMWName(c)
    <2>1. k \in Clusters /\ n \in MWNames
      BY <1>1, <1>4, MWNameType
    <2>2. PublishedAs(c)'
      BY <1>3, <1>4
    <2>3. mw'[k][n] # None /\ mw'[k][n].manifest.capp = c
      BY <2>2 DEF PublishedAs, GenerateMWName
    <2> HIDE DEF k, n
    <2>4. ~mw'[k][n].deleting
      BY <1>2, <1>4, <2>1, <2>3 DEF MarkedWithCapp
    <2> QED BY <2>2, <2>4 DEF k, n
  <1> QED BY <1>4 DEF PublishedOrPending, PublishedAs, GenerateMWName

LEMMA InitPublished == Init => PInv
  <1> SUFFICES ASSUME Init PROVE PInv
    OBVIOUS
  <1>1. /\ \A c \in Capps : capp[c] = None /\ Seen(c) = {None}
        /\ \A k \in Clusters, n \in MWNames : mw[k][n] = None
        /\ sync.pc = "idle"
    BY DEF Init, HubInit, SyncInit, SyncIdle, Seen
  <1>2. DeletionsFinal /\ MarkedWithCapp /\ PublishedOrPending
    BY <1>1 DEF DeletionsFinal, MarkedWithCapp, PublishedOrPending
  <1> QED BY <1>2, InitSettled, InitWakes DEF PInv

LEMMA NextPInv ==
    ASSUME Steady, DistinctNames
    PROVE  PInv /\ [Next]_vars => PInv'
  BY NextSettled, NextWakes, NextDeletions, NextMarked, NextPublished DEF PInv

\* While nothing moves a placed Capp and no two Capps share a ManifestWork's name, a
\* live Capp on a registered cluster that SyncReconciler has neither at hand nor on
\* its queue, and that no event is pending of, is published there in its latest
\* revision: no error path and no crash lets go of one that is not.
THEOREM LeftAlonePublished ==
    ASSUME Steady, DistinctNames
    PROVE  Spec => []PublishedOrPending
  <1>1. PInv => PublishedOrPending
    BY DEF PInv
  <1>2. PInv /\ [Next]_vars => PInv'
    BY NextPInv
  <1> QED BY <1>1, <1>2, InitPublished, PTL DEF Spec

-----------------------------------------------------------------------------
(* What the environment must not do.  Each of these four properties is lost *)
(* as soon as its hypothesis is given up, as TLC shows.                    *)

\* While nothing moves a placed Capp, no ManifestWork outlives its Capp.
THEOREM NoOrphanWhileSteady ==
    ASSUME Steady
    PROVE  Spec => []NoOrphan
  <1>1. WorkReachable => NoOrphan
    BY DEF WorkReachable, NoOrphan
  <1> QED BY <1>1, WorksStayReachable, PTL

\* While nothing moves a placed Capp, it is published on one cluster at a time.
THEOREM OneClusterWhileSteady ==
    ASSUME Steady, DistinctNames
    PROVE  Spec => []OneCluster
  <1>1. SInv => OneCluster
    <2> SUFFICES ASSUME SInv, NEW n \in MWNames
                 PROVE  Cardinality({k \in Clusters : mw[k][n] # None}) <= 1
      BY DEF OneCluster
    <2>1. ASSUME NEW j \in Clusters, NEW k \in Clusters, mw[j][n] # None, mw[k][n] # None
          PROVE  j = k
      <3>1. PICK c, d : c = mw[j][n].manifest.capp /\ d = mw[k][n].manifest.capp
        OBVIOUS
      <3>2. c \in Capps /\ d \in Capps
        BY <2>1, <3>1, SInvFacts DEF WorkType, MWObjs, Workloads
      <3>3. c = d
        BY <2>1, <3>1, <3>2, SInvFacts DEF WorkNamed, DistinctNames
      <3>4. capp[c].status = j /\ capp[d].status = k
        BY <2>1, <3>1 DEF SInv, WorkReachable
      <3> QED BY <3>3, <3>4
    <2>2. CASE {k \in Clusters : mw[k][n] # None} = {}
      BY <2>2, FS_EmptySet
    <2>3. ASSUME NEW k \in {k \in Clusters : mw[k][n] # None}
          PROVE  {j \in Clusters : mw[j][n] # None} = {k}
      BY <2>1
    <2> QED BY <2>2, <2>3, FS_Singleton
  <1>2. SInv /\ [Next]_vars => SInv'
    BY NextSettled
  <1> QED BY <1>1, <1>2, InitSettled, PTL DEF Spec

\* In every environment, the sync controller never puts one Capp's manifests over
\* another's, if GenerateMWName tells the Capps apart.
THEOREM WorksKeptApart ==
    ASSUME DistinctNames
    PROVE  Spec => OwnWork
  <1>1. Init => RInv /\ WorkNamed
    BY InitOrdered, InitSettled, SInvFacts
  <1>2. RInv /\ WorkNamed /\ [Next]_vars => (RInv /\ WorkNamed)'
    BY NextOrdered, StepWorkNamed
  <1>3. ASSUME RInv, WorkNamed, RInv', WorkNamed', NEW k \in Clusters, NEW n \in MWNames,
               mw[k][n] # None, mw'[k][n] # None
        PROVE  mw'[k][n].manifest.capp = mw[k][n].manifest.capp
    <2>1. PICK c, d : c = mw[k][n].manifest.capp /\ d = mw'[k][n].manifest.capp
      OBVIOUS
    <2>2. mw \in WorkType /\ mw' \in WorkType
      BY <1>3 DEF RInv, IInv, TypeOK, HubTypeOK, WorkType
    <2>3. c \in Capps /\ d \in Capps
      BY <1>3, <2>1, <2>2 DEF WorkType, MWObjs, Workloads
    <2>4. n = GenerateMWName(c) /\ n = GenerateMWName(d)
      BY <1>3, <2>1 DEF WorkNamed
    <2> QED BY <2>1, <2>3, <2>4 DEF DistinctNames
  <1>4. RInv /\ WorkNamed /\ (RInv /\ WorkNamed)' =>
           [\A k \in Clusters, n \in MWNames :
               mw[k][n] # None /\ mw'[k][n] # None =>
                  mw'[k][n].manifest.capp = mw[k][n].manifest.capp]_vars
    BY <1>3
  <1> QED BY <1>1, <1>2, <1>4, PTL DEF Spec, OwnWork

\* The site and the status of the Capp that a step stores.
LEMMA StoredSite ==
    ASSUME RInv, SitesKnown, [Next]_vars, NEW c \in Capps, capp'[c] # None
    PROVE  /\ capp'[c].site \in Clusters \cup {None} \cup Listed(config)
           /\ capp'[c].status \in Clusters \cup {None}
  <1> DEFINE Known(obj) == /\ obj.site \in Clusters \cup {None} \cup Listed(config)
                           /\ obj.status \in Clusters \cup {None}
  <1>1. CappTypeOK /\ InformerOK /\ TypeOK /\ PlaceSnapshot /\ clusters \subseteq Clusters
    BY RInvFacts
  <1>2. ASSUME NEW d \in Capps, capp[d] # None
        PROVE  Known(capp[d]) /\ capp[d] \in CappObjs /\ ver[d] \in Nat
    <2>1. capp[d] \in Seen(d)
      BY <1>1, StoredSeen DEF InformerOK
    <2> QED BY <1>1, <1>2, <2>1 DEF SitesKnown, CappTypeOK
  <1> HIDE DEF Known
  <1>3. capp'[c] = capp[c] => Known(capp'[c])
    BY <1>2
  <1>4. ASSUME NEW d \in Capps, NEW obj \in CappObjs, Known(obj), Write(d, obj)
        PROVE  Known(capp'[c])
    BY <1>1, <1>3, <1>4, WriteEffect DEF Known
  <1>5. ASSUME NEW d \in Capps, NEW obj \in CappObjs, capp[d] \in CappObjs,
               obj.site = capp[d].site, obj.rev = capp[d].rev, obj.uid = capp[d].uid,
               obj.deleting = capp[d].deleting, UpdateCapp(d, obj)
        PROVE  Known(capp'[c])
    <2>1. capp[d] # None
      BY <1>5, NoneAssumption
    <2>2. /\ \A e \in Capps \ {d} : capp'[e] = capp[e]
          /\ capp'[d] # None => capp'[d].site = capp[d].site /\ capp'[d].status = capp[d].status
      BY <1>1, <1>5, UpdateCappEffect
    <2> QED BY <1>2, <1>3, <2>1, <2>2 DEF Known
  <1>6. ASSUME UNCHANGED cappVars
        PROVE  Known(capp'[c])
    BY <1>3, <1>6 DEF cappVars
  <1>7. ASSUME place.pc \in {"status", "annotate"}, Current(place.key, place.obj)
        PROVE  /\ place.key \in Capps /\ place.dest \in Names /\ place.dest \in Clusters
               /\ capp[place.key] \in CappObjs /\ capp[place.key] # None
               /\ place.obj = capp[place.key]
    <2>1. /\ place.key \in Capps /\ place.obj \in CappObjs
          /\ place.dest \in Names /\ place.obj # None
      BY <1>1, <1>7, NoneAssumption DEF TypeOK, PlaceTypeOK, PlaceIdle
    <2> QED BY <1>1, <1>7, <2>1, NoneAssumption, CurrentCopy DEF PlaceSnapshot, SitesKnown
  <1>8. ASSUME UpdateCappDestination /\ ~UNCHANGED cappVars
        PROVE  Known(capp'[c])
    <2> DEFINE new == [capp[place.key] EXCEPT
                          !.status = [place.obj EXCEPT !.status = place.dest].status]
    <2>1. /\ place.key \in Capps /\ place.dest \in Names /\ place.dest \in Clusters
          /\ capp[place.key] \in CappObjs /\ capp[place.key] # None
          /\ place.obj = capp[place.key]
      BY <1>7, <1>8 DEF UpdateCappDestination
    <2>2. [place.obj EXCEPT !.status = place.dest].status = place.dest
      BY <2>1 DEF CappObjs
    <2>3. new \in CappObjs
      BY <2>1, <2>2, CappFields
    <2>4. new.site = capp[place.key].site /\ new.status = place.dest
      BY <2>1, <2>2 DEF CappObjs
    <2>5. Write(place.key, new)
      BY <1>8 DEF UpdateCappDestination, UpdateCappStatus
    <2> HIDE DEF new
    <2>6. Known(new)
      BY <1>2, <2>1, <2>4 DEF Known
    <2> QED BY <1>4, <2>1, <2>3, <2>5, <2>6
  <1>9. ASSUME AddCappHasPlacementAnnotation /\ ~UNCHANGED cappVars
        PROVE  Known(capp'[c])
    <2> DEFINE new == [place.obj EXCEPT !.anno = place.dest]
    <2>1. /\ place.key \in Capps /\ place.dest \in Names
          /\ capp[place.key] \in CappObjs /\ place.obj = capp[place.key]
      BY <1>7, <1>9 DEF AddCappHasPlacementAnnotation
    <2>2. /\ new \in CappObjs
          /\ new.site = capp[place.key].site /\ new.rev = capp[place.key].rev
          /\ new.uid = capp[place.key].uid /\ new.deleting = capp[place.key].deleting
      BY <2>1, CappFields DEF CappObjs
    <2>3. UpdateCapp(place.key, new)
      BY <1>9 DEF AddCappHasPlacementAnnotation
    <2> HIDE DEF new
    <2> QED BY <1>5, <2>1, <2>2, <2>3
  <1>10. ASSUME PlaceNext
         PROVE  Known(capp'[c])
    BY <1>6, <1>8, <1>9, <1>10 DEF PlaceNext, PlaceGetConfig, PlaceSelect, PlaceCallFails
  <1>11. ASSUME SyncNext
         PROVE  Known(capp'[c])
    BY <1>5, <1>6, <1>11, SyncWrites
  <1>12. ASSUME NEW d \in Capps, NEW site \in Sites, NEW anno, CreateCapp(d, site, anno)
         PROVE  Known(capp'[c])
    <2>1. /\ site \in Clusters \cup {None} \cup Listed(config)
          /\ capp'[d].site = site /\ capp'[d].status = None
          /\ d # c => capp'[c] = capp[c]
      BY <1>1, <1>12 DEF CreateCapp, Admitted, isSiteValid, Store, CappTypeOK
    <2> QED BY <1>3, <2>1 DEF Known
  <1>13. ASSUME NEW d \in Capps, NEW site \in Sites, EditCapp(d, site)
         PROVE  Known(capp'[c])
    <2> DEFINE obj == [capp[d] EXCEPT !.rev = ver[d] + 1, !.site = site]
    <2>1. capp[d] \in CappObjs /\ capp[d] # None /\ ver[d] + 1 \in Nat /\ Known(capp[d])
      BY <1>2, <1>13 DEF EditCapp
    <2>2. obj \in CappObjs /\ obj.site = site /\ obj.status = capp[d].status
      BY <2>1, EnvironmentAssumption, CappFields DEF CappObjs
    <2>3. Write(d, obj) /\ isSiteValid(obj, config)
      BY <1>13 DEF EditCapp, Admitted
    <2> HIDE DEF obj
    <2>4. Known(obj)
      BY <1>1, <2>1, <2>2, <2>3 DEF Known, isSiteValid
    <2> QED BY <1>4, <2>2, <2>3, <2>4
  <1>14. ASSUME NEW d \in Capps, DeleteCapp(d)
         PROVE  Known(capp'[c])
    <2> DEFINE obj == [capp[d] EXCEPT !.deleting = TRUE]
    <2>1. capp[d] \in CappObjs /\ Known(capp[d])
      BY <1>2, <1>14 DEF DeleteCapp
    <2>2. obj \in CappObjs /\ obj.site = capp[d].site /\ obj.status = capp[d].status
      BY <2>1, CappFields DEF CappObjs
    <2>3. Write(d, obj) \/ Store(d, None)
      BY <1>14 DEF DeleteCapp
    <2> HIDE DEF obj
    <2>4. Known(obj)
      BY <2>1, <2>2 DEF Known
    <2>5. Store(d, None) => capp'[c] = capp[c]
      BY <1>1 DEF Store, CappTypeOK
    <2> QED BY <1>3, <1>4, <2>2, <2>3, <2>4, <2>5
  <1>15. ASSUME NEW d \in Capps, ToggleVolumes(d)
         PROVE  UNCHANGED cappVars
    BY <1>15 DEF ToggleVolumes
  <1>16. AdminNext \/ AgentNext => UNCHANGED cappVars
    BY DEF AdminNext, AgentNext, SetConfig, SetDecision, DetachCluster, AgentApply,
           AgentCleanup, RefreshMWCache
  <1>17. ASSUME EnvNext
         PROVE  Known(capp'[c])
    BY <1>6, <1>12, <1>13, <1>14, <1>15, <1>16, <1>17 DEF EnvNext, UserNext
  <1>18. ManagerNext => UNCHANGED capp
    BY DEF ManagerNext, Deliver, Resync, Restart, cappVars
  <1>19. UNCHANGED vars => UNCHANGED capp
    BY DEF vars, cappVars
  <1>20. Known(capp'[c])
    BY <1>3, <1>10, <1>11, <1>17, <1>18, <1>19 DEF Next
  <1> QED BY <1>20 DEF Known

LEMMA NextSites ==
    ASSUME "configChange" \notin Env, RInv, SitesKnown, [Next]_vars
    PROVE  SitesKnown'
  <1>1. TypeOK /\ PlaceTypeOK /\ decisions \in [Placements -> Decisions \cup {None}]
    BY RInvFacts DEF TypeOK, HubTypeOK
  <1>2. config' = config
    BY DEF Next, vars, ocmVars, PlaceNext, PlaceGetConfig, PlaceSelect, UpdateCappDestination,
           AddCappHasPlacementAnnotation, PlaceCallFails, SyncNext, SyncBegin, EnsureFinalizer,
           SyncManifestWork, HandleCappDeletion, SyncCallFails, ManagerNext, Deliver, Resync,
           Restart, EnvNext, UserNext, CreateCapp, EditCapp, DeleteCapp, ToggleVolumes, AdminNext,
           SetConfig, SetDecision, DetachCluster, AgentNext, AgentApply, AgentCleanup,
           RefreshMWCache
  <1>3. ASSUME NEW c \in Capps, NEW obj \in Seen(c)' \ {None}
        PROVE  /\ obj.site \in (Clusters \cup {None} \cup Listed(config))'
               /\ obj.status \in Clusters \cup {None}
    <2>1. obj \in Seen(c) \/ obj = capp'[c]
      BY NextShows DEF Shows
    <2> QED BY <1>2, <2>1, StoredSite DEF SitesKnown, Listed
  <1> DEFINE Choice ==
         /\ place'.pc # "idle" => place'.placements = config
         /\ place'.obj # None => place'.dest \in Clusters
  <1>4. ASSUME UNCHANGED place \/ place' = PlaceIdle
        PROVE  Choice
    BY <1>4 DEF SitesKnown, PlaceIdle
  <1>5. ASSUME NEW c \in Capps, PlaceGetConfig(c)
        PROVE  Choice
    BY <1>5 DEF PlaceGetConfig, PlaceIdle
  <1>6. ASSUME place.pc = "select", NEW obj, NEW dest \in Clusters,
               place' = [place EXCEPT !.pc = "status", !.obj = obj, !.dest = dest]
        PROVE  Choice
    <2>1. place \in [pc : {"select"}, key : Capps, placements : Configs,
                     obj : {None}, dest : {None}]
      BY <1>1, <1>6 DEF PlaceTypeOK, PlaceIdle
    <2> QED BY <1>6, <2>1 DEF SitesKnown
  <1>7. ASSUME place.pc = "select"
        PROVE  place.key \in Capps /\ place.placements = config /\ config \in Configs
    BY <1>1, <1>7 DEF PlaceTypeOK, PlaceIdle, SitesKnown
  <1>8. ASSUME PlaceOnSite
        PROVE  Choice
    <2>1. cache[place.key] \in Seen(place.key) \ {None}
      BY <1>8 DEF PlaceOnSite, Seen
    <2>2. cache[place.key].site \in Clusters
      BY <1>7, <1>8, <2>1 DEF PlaceOnSite, SitesKnown
    <2> QED BY <1>6, <1>8, <2>2 DEF PlaceOnSite
  <1>9. ASSUME PlaceByDecision
        PROVE  Choice
    <2>1. \A cluster \in pickDecision(cache[place.key].site, place.placements) :
             cluster \in Clusters \cup {None}
      BY <1>1, <1>7, <1>9, PickType DEF PlaceByDecision
    <2>2. PlaceRetry => Choice
      BY <1>4 DEF PlaceRetry
    <2> QED BY <1>6, <1>9, <2>1, <2>2 DEF PlaceByDecision
  <1>10. ASSUME UpdateCappDestination
         PROVE  Choice
    <2>1. place \in [pc : {"status", "annotate"}, key : Capps, placements : Configs,
                     obj : CappObjs, dest : Names]
      BY <1>1, <1>10 DEF UpdateCappDestination, PlaceTypeOK, PlaceIdle
    <2>2. place.placements = config /\ place.dest \in Clusters
      BY <1>10, <2>1, NoneAssumption DEF UpdateCappDestination, SitesKnown
    <2>3. ASSUME NEW obj, place' = [place EXCEPT !.pc = "annotate", !.obj = obj]
          PROVE  Choice
      BY <2>1, <2>2, <2>3
    <2>4. PlaceRetry => Choice
      BY <1>4 DEF PlaceRetry
    <2> QED BY <1>10, <2>3, <2>4 DEF UpdateCappDestination
  <1>11. AddCappHasPlacementAnnotation \/ PlaceCallFails \/ PlaceNotFound => Choice
    BY <1>4 DEF AddCappHasPlacementAnnotation, PlaceCallFails, PlaceNotFound, PlaceDone, PlaceRetry
  <1>12. ASSUME PlaceNext
         PROVE  Choice
    BY <1>5, <1>8, <1>9, <1>10, <1>11, <1>12 DEF PlaceNext, PlaceSelect
  <1>13. ManagerNext => Choice
    BY <1>4 DEF ManagerNext, Deliver, Resync, Restart
  <1>14. Choice
    BY <1>4, <1>12, <1>13 DEF Next, vars, placeVars
  <1> QED BY <1>2, <1>3, <1>14 DEF SitesKnown

\* While the RCSConfig stays, the placement controller records managed clusters only,
\* whatever users write into Spec.Site and whatever Placements decide.
THEOREM SiteIsClusterWhileConfigured ==
    ASSUME "configChange" \notin Env
    PROVE  Spec => []SiteIsCluster
  <1>1. Init => RInv /\ SitesKnown
    <2> SUFFICES ASSUME Init PROVE SitesKnown
      BY InitOrdered
    <2>1. \A c \in Capps : Seen(c) = {None}
      BY DEF Init, HubInit, Seen
    <2>2. config # None /\ place.pc = "idle" /\ place.obj = None
      BY NoneAssumption DEF Init, HubInit, PlaceInit, PlaceIdle
    <2> QED BY <2>1, <2>2 DEF SitesKnown
  <1>2. RInv /\ SitesKnown /\ [Next]_vars => (RInv /\ SitesKnown)'
    BY NextOrdered, NextSites
  <1>3. RInv /\ SitesKnown => SiteIsCluster
    <2> SUFFICES ASSUME RInv, SitesKnown, NEW c \in Capps, capp[c] # None
                 PROVE  capp[c].status \in Clusters \cup {None}
      BY DEF SiteIsCluster
    <2>1. capp[c] \in Seen(c)
      BY RInvFacts, StoredSeen DEF InformerOK
    <2> QED BY <2>1 DEF SitesKnown
  <1> QED BY <1>1, <1>2, <1>3, PTL DEF Spec

=============================================================================
