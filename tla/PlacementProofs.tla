--------------------------- MODULE PlacementProofs ---------------------------
(***************************************************************************)
(* Proofs about where Capps and their ManifestWorks are: while nothing     *)
(* moves a placed Capp, every ManifestWork stays where its Capp's status   *)
(* points, and Deployer implements the strict CappLifecycle.               *)
(***************************************************************************)
EXTENDS LifecycleProofs

SInv == RInv /\ PlacementSettled /\ WorkReachable

\* The facts about the state before a step that the lemmas below start from.
LEMMA SInvFacts ==
    ASSUME SInv
    PROVE  /\ RInv /\ IInv
           /\ TypeOK /\ CappTypeOK /\ InformerOK
           /\ PlaceSnapshot /\ SyncSnapshot
           /\ \A c \in Capps : CappSettled(c)
           /\ PlaceSettled /\ SyncSettled /\ WorkNamed
           /\ mw \in WorkType
           /\ config \in Configs /\ config # None
           /\ decisions \in [Placements -> Decisions \cup {None}]
  <1>1. RInv /\ IInv /\ PlacementSettled
    BY DEF SInv, RInv
  <1>2. config # None
    BY <1>1 DEF PlacementSettled, PlaceSettled
  <1> QED BY <1>1, <1>2, RInvFacts DEF PlacementSettled, TypeOK, HubTypeOK

-----------------------------------------------------------------------------
(* What the placement controller chooses.                                  *)

\* A site that is no cluster names a Placement, and so does an empty one, if the
\* RCSConfig lists any.
LEMMA PlacementRef ==
    ASSUME NEW placements \in Configs, NEW site \in {None} \cup Listed(placements),
           ~(site = None /\ placements = <<>>)
    PROVE  (IF site = None THEN placements[1] ELSE site) \in Placements
  <1>1. placements \in Seq(Placements)
    BY ConstantsAssumption
  <1>2. CASE site = None
    BY <1>1, <1>2
  <1>3. CASE site # None
    BY <1>1, <1>3 DEF Listed
  <1> QED BY <1>2, <1>3

\* While PlacementDecisions agree, there is only one choice.
LEMMA TargetUnique ==
    ASSUME Steady, SInv, NEW obj, NEW x \in Targets(obj), NEW y \in Targets(obj)
    PROVE  x = y
  <1> DEFINE ref == IF obj.site = None THEN config[1] ELSE obj.site
  <1>1. CASE obj.site \notin {None} \cup Listed(config)
    BY <1>1 DEF Targets
  <1>2. CASE obj.site \in {None} \cup Listed(config)
    <2>1. x \in pickDecision(obj.site, config) /\ y \in pickDecision(obj.site, config)
      BY <1>2 DEF Targets
    <2>2. CASE \/ obj.site = None /\ config = <<>>
               \/ decisions[ref] = None
               \/ decisions[ref] = {}
      BY <2>1, <2>2 DEF pickDecision, GetPlacementDecisionList
    <2>3. CASE ~(\/ obj.site = None /\ config = <<>>
                 \/ decisions[ref] = None
                 \/ decisions[ref] = {})
      <3>1. ref \in Placements
        BY <1>2, <2>3, SInvFacts, PlacementRef
      <3>2. decisions[ref] \in Decisions
        BY <2>3, <3>1, SInvFacts
      <3>3. /\ x \in {GetDecisionClusterName(pd) : pd \in decisions[ref]}
            /\ y \in {GetDecisionClusterName(pd) : pd \in decisions[ref]}
        BY <2>1, <2>3 DEF pickDecision, GetPlacementDecisionList
      <3> HIDE DEF ref
      <3> QED BY <3>2, <3>3 DEF Steady
    <2> QED BY <2>2, <2>3
  <1> QED BY <1>1, <1>2

\* The RCSConfig stays, and a decision only comes where there was none.
LEMMA DecisionsStay ==
    ASSUME Steady, SInv, [Next]_vars
    PROVE  /\ config' = config
           /\ \A p \in Placements : decisions'[p] = decisions[p] \/ decisions[p] \in {None, {}}
  <1>1. CASE UNCHANGED ocmVars
    BY <1>1 DEF ocmVars
  <1>2. ASSUME NEW p \in Placements, NEW pds \in Decisions, SetDecision(p, pds)
        PROVE  /\ config' = config
               /\ \A q \in Placements : decisions'[q] = decisions[q] \/ decisions[q] \in {None, {}}
    BY <1>2, SInvFacts DEF SetDecision, Steady
  <1>3. CASE EnvNext
    <2>1. ASSUME NEW placements, SetConfig(placements) PROVE FALSE
      BY <2>1 DEF SetConfig, Steady
    <2> QED BY <1>1, <1>2, <1>3, <2>1
           DEF EnvNext, UserNext, AdminNext, AgentNext, CreateCapp, EditCapp, DeleteCapp,
               ToggleVolumes, DetachCluster, AgentApply, AgentCleanup, RefreshMWCache, ocmVars
  <1>4. PlaceNext => UNCHANGED ocmVars
    BY DEF PlaceNext, PlaceGetConfig, PlaceSelect, UpdateCappDestination,
           AddCappHasPlacementAnnotation, PlaceCallFails
  <1>5. SyncNext => UNCHANGED ocmVars
    BY DEF SyncNext, SyncBegin, EnsureFinalizer, SyncManifestWork, HandleCappDeletion, SyncCallFails
  <1>6. ManagerNext => UNCHANGED ocmVars
    BY DEF ManagerNext, Deliver, Resync, Restart
  <1> QED BY <1>1, <1>3, <1>4, <1>5, <1>6 DEF Next, vars

\* A choice that was made is not revised.
LEMMA TargetsStay ==
    ASSUME Steady, SInv, [Next]_vars, NEW obj, NEW x \in Targets(obj), x # None
    PROVE  x \in Targets(obj)'
  <1> DEFINE ref == IF obj.site = None THEN config[1] ELSE obj.site
  <1>1. /\ config' = config
        /\ \A p \in Placements : decisions'[p] = decisions[p] \/ decisions[p] \in {None, {}}
    BY DecisionsStay
  <1>2. CASE obj.site \notin {None} \cup Listed(config)
    BY <1>1, <1>2 DEF Targets, Listed
  <1>3. CASE obj.site \in {None} \cup Listed(config)
    <2>1. x \in pickDecision(obj.site, config)
      BY <1>3 DEF Targets
    <2>2. ~(\/ obj.site = None /\ config = <<>>
            \/ decisions[ref] = None
            \/ decisions[ref] = {})
      BY <2>1 DEF pickDecision, GetPlacementDecisionList
    <2>3. ref \in Placements
      BY <1>3, <2>2, SInvFacts, PlacementRef
    <2>4. decisions'[ref] = decisions[ref]
      BY <1>1, <2>2, <2>3
    <2>5. pickDecision(obj.site, config)' = pickDecision(obj.site, config)
      BY <1>1, <2>2, <2>4 DEF pickDecision, GetPlacementDecisionList
    <2> QED BY <1>1, <1>3, <2>1, <2>5 DEF Targets, Listed
  <1> QED BY <1>1, <1>2, <1>3

-----------------------------------------------------------------------------
(* How the stored Capps change.                                            *)

\* The three versions that may come after the stored one of c: a new Capp, the
\* same one with its placement kept, and none, once nobody waits for its cleanup.
Fresh(c, obj) ==
    capp[c] = None /\ obj.uid = ver[c] + 1 /\ obj.status = None /\ obj.anno = None

Same(c, obj) ==
    /\ capp[c] # None
    /\ obj.uid = capp[c].uid
    /\ Agrees(obj)
    /\ capp[c].status # None => obj.status = capp[c].status
    /\ obj.status # None => obj.status \in Targets(obj)

Gone(c) ==
    /\ capp[c] # None
    /\ ~capp[c].fin \/ (events[c] = <<>> /\ capp[c].deleting)

Follows(c, obj) ==
    \/ obj = None /\ Gone(c)
    \/ obj \in CappObjs /\ (Fresh(c, obj) \/ Same(c, obj))

\* A step that shows no version but of those that were there.
ShowsOld ==
    UNCHANGED <<capp, ver>> /\ \A c \in Capps : Seen(c)' \subseteq Seen(c)

\* A step that stores a version that may follow.
StoresNext ==
    /\ UNCHANGED ocmVars
    /\ \E c \in Capps, obj \in CappObjs \cup {None} : Follows(c, obj) /\ Store(c, obj)

\* What both kinds of steps keep.
KeepsPlaced ==
    /\ \A c \in Capps : CappSettled(c)'
    /\ \A c \in Capps, obj \in CappObjs : KeepsStatus(c, obj) => KeepsStatus(c, obj)'
    /\ \A c \in Capps : capp[c] # None /\ capp'[c] # None =>
          /\ capp'[c].uid = capp[c].uid
          /\ capp[c].status # None => capp'[c].status = capp[c].status

\* The object that is stored is among what the informer shows.
LEMMA StoredSettled ==
    ASSUME SInv, NEW c \in Capps, capp[c] # None
    PROVE  /\ capp[c] \in CappObjs
           /\ capp[c] \in Seen(c)
           /\ Agrees(capp[c])
           /\ capp[c].uid \in Nat /\ ver[c] \in Nat /\ capp[c].uid <= ver[c]
  <1>1. CappTypeOK /\ InOrder(c) /\ CappSettled(c)
    BY SInvFacts DEF InformerOK
  <1>2. capp[c] \in Seen(c)
    BY <1>1, StoredSeen
  <1>3. capp[c] \in CappObjs /\ ver[c] \in Nat
    BY <1>1 DEF CappTypeOK
  <1> QED BY <1>1, <1>2, <1>3 DEF CappSettled, KeepsStatus, CappObjs

LEMMA OldKeepsPlaced ==
    ASSUME Steady, SInv, [Next]_vars, ShowsOld
    PROVE  KeepsPlaced
  <1>1. UNCHANGED <<capp, ver>> /\ \A c \in Capps : Seen(c)' \subseteq Seen(c)
    BY DEF ShowsOld
  <1>2. \A c, obj : KeepsStatus(c, obj)' = KeepsStatus(c, obj)
    BY <1>1 DEF KeepsStatus
  <1>3. \A c, obj : SameCapp(c, obj)' = SameCapp(c, obj)
    BY <1>1 DEF SameCapp
  <1>4. ASSUME NEW c \in Capps
        PROVE  CappSettled(c)'
    <2>1. CappSettled(c)
      BY SInvFacts
    <2>2. capp[c] # None /\ capp[c].status # None => capp[c].status \in Targets(capp[c])
      BY <2>1 DEF CappSettled
    <2>3. capp'[c] # None /\ capp'[c].status # None => capp'[c].status \in Targets(capp[c])'
      <3>1. ASSUME capp'[c] # None, capp'[c].status # None
            PROVE  capp'[c].status \in Targets(capp[c])'
        <4>1. PICK obj : obj = capp[c]
          OBVIOUS
        <4>2. PICK x \in Targets(obj) : x = capp[c].status /\ x # None
          BY <1>1, <2>2, <3>1, <4>1
        <4>3. x \in Targets(obj)'
          BY <4>2, TargetsStay
        <4> QED BY <1>1, <4>1, <4>2, <4>3 DEF Targets
      <3> QED BY <3>1
    <2> QED BY <1>1, <1>2, <1>3, <2>1, <2>3 DEF CappSettled, Agrees
  <1> QED BY <1>1, <1>2, <1>4 DEF KeepsPlaced

LEMMA NextKeepsPlaced ==
    ASSUME SInv, StoresNext
    PROVE  KeepsPlaced
  <1>1. PICK c \in Capps, obj \in CappObjs \cup {None} : Follows(c, obj) /\ Store(c, obj)
    BY DEF StoresNext
  <1>2. /\ \A d \in Capps : InOrder(d) /\ Guarded(d) /\ CappSettled(d)
        /\ CappTypeOK
    BY SInvFacts DEF InformerOK
  <1>3. /\ Seen(c)' = Seen(c) \cup {obj}
        /\ ver'[c] = ver[c] + 1
        /\ \A d \in Capps \ {c} : Seen(d)' = Seen(d) /\ ver'[d] = ver[d]
    BY <1>1, <1>2, SeenStore
  <1>4. \A d \in Capps : capp'[d] = IF d = c THEN obj ELSE capp[d]
    BY <1>1, <1>2 DEF Store, CappTypeOK
  <1>5. UNCHANGED <<config, decisions>>
    BY DEF StoresNext, ocmVars
  <1>6. ver[c] \in Nat /\ (capp[c] # None => capp[c].uid \in Nat /\ capp[c].uid <= ver[c])
    BY <1>2, StoredSettled, SeenType
  <1>7. Gone(c) => \A x \in Seen(c) \ {None} : ~(x.fin /\ ~x.deleting)
    <2> SUFFICES ASSUME Gone(c), NEW x \in Seen(c) \ {None}
                 PROVE  ~(x.fin /\ ~x.deleting)
      OBVIOUS
    <2>1. CASE ~capp[c].fin
      BY <1>2, <2>1 DEF Guarded
    <2>2. CASE events[c] = <<>> /\ capp[c].deleting
      <3>1. Seen(c) = {cache[c]} /\ capp[c] = cache[c]
        BY <1>2, <2>2 DEF Seen, InOrder
      <3> QED BY <2>2, <3>1
    <2> QED BY <2>1, <2>2 DEF Gone
  <1>8. ASSUME NEW x \in CappObjs, KeepsStatus(c, x)
        PROVE  KeepsStatus(c, x)'
    <2>1. x.uid \in Nat /\ x.uid <= ver[c] /\ x.uid <= ver'[c] /\ x.uid # ver[c] + 1
      BY <1>3, <1>6, <1>8 DEF KeepsStatus, CappObjs
    <2>2. CASE obj = None
      BY <1>4, <2>1, <2>2 DEF KeepsStatus
    <2>3. CASE Fresh(c, obj)
      BY <1>4, <2>1, <2>3 DEF KeepsStatus, Fresh
    <2>4. CASE Same(c, obj)
      BY <1>4, <1>8, <2>1, <2>4 DEF KeepsStatus, Same
    <2> QED BY <1>1, <2>2, <2>3, <2>4 DEF Follows
  <1>9. ASSUME NEW x \in Seen(c) \ {None}, SameCapp(c, x)
        PROVE  SameCapp(c, x)'
    <2>1. CASE obj = None /\ Gone(c)
      BY <1>7, <2>1 DEF SameCapp
    <2>2. CASE obj # None /\ Fresh(c, obj)
      BY <1>9, <2>2 DEF SameCapp, Fresh
    <2>3. CASE obj # None /\ Same(c, obj)
      BY <1>4, <1>9, <2>3 DEF SameCapp, Same
    <2> QED BY <1>1, <2>1, <2>2, <2>3, NoneAssumption DEF Follows
  <1>10. obj # None =>
            /\ Agrees(obj)
            /\ KeepsStatus(c, obj)'
            /\ SameCapp(c, obj)'
            /\ obj.status # None => obj.status \in Targets(obj)
    <2> SUFFICES ASSUME obj # None
                 PROVE  /\ Agrees(obj)
                        /\ KeepsStatus(c, obj)'
                        /\ SameCapp(c, obj)'
                        /\ obj.status # None => obj.status \in Targets(obj)
      OBVIOUS
    <2>1. obj.uid <= ver'[c]
      BY <1>1, <1>3, <1>6 DEF Follows, Fresh, Same
    <2>2. KeepsStatus(c, obj)' /\ SameCapp(c, obj)'
      BY <1>4, <2>1 DEF KeepsStatus, SameCapp
    <2> QED BY <1>1, <2>2 DEF Follows, Fresh, Same, Agrees
  <1>11. CappSettled(c)'
    <2>1. \A x \in Seen(c) \ {None} : x \in CappObjs
      BY <1>2, SeenType
    <2>2. \A x \in Seen(c)' \ {None} : Agrees(x) /\ KeepsStatus(c, x)' /\ SameCapp(c, x)'
      BY <1>2, <1>3, <1>8, <1>9, <1>10, <2>1 DEF CappSettled
    <2>3. \A x : Targets(x)' = Targets(x)
      BY <1>5 DEF Targets, Listed, pickDecision, GetPlacementDecisionList
    <2>4. obj # None /\ obj.status # None => obj.status \in Targets(obj)'
      BY <1>10, <2>3
    <2>5. capp'[c] = obj
      BY <1>4
    <2>6. capp'[c] # None /\ capp'[c].status # None => capp'[c].status \in Targets(capp[c])'
      BY <1>5, <2>4, <2>5 DEF Targets
    <2> QED BY <2>2, <2>6 DEF CappSettled, Agrees
  <1>12. ASSUME NEW d \in Capps \ {c}
         PROVE  /\ CappSettled(d)'
                /\ \A x \in CappObjs : KeepsStatus(d, x) => KeepsStatus(d, x)'
    <2>1. capp'[d] = capp[d] /\ Seen(d)' = Seen(d) /\ ver'[d] = ver[d]
      BY <1>3, <1>4
    <2>2. \A x : (KeepsStatus(d, x)' <=> KeepsStatus(d, x)) /\ (SameCapp(d, x)' <=> SameCapp(d, x))
      BY <2>1 DEF KeepsStatus, SameCapp
    <2>3. Targets(capp[d])' = Targets(capp[d])
      BY <1>5, <2>1 DEF Targets, Listed, pickDecision, GetPlacementDecisionList
    <2> QED BY <1>2, <2>1, <2>2, <2>3 DEF CappSettled, Agrees
  <1>13. capp[c] # None /\ capp'[c] # None =>
            /\ capp'[c].uid = capp[c].uid
            /\ capp[c].status # None => capp'[c].status = capp[c].status
    BY <1>1, <1>4 DEF Follows, Fresh, Same
  <1> QED BY <1>4, <1>8, <1>11, <1>12, <1>13 DEF KeepsPlaced

LEMMA UnchangedShowsOld ==
    ASSUME UNCHANGED cappVars
    PROVE  ShowsOld
  BY DEF ShowsOld, Seen, cappVars

LEMMA WriteFollows ==
    ASSUME SInv, NEW c \in Capps, NEW obj \in CappObjs, Same(c, obj), Write(c, obj),
           UNCHANGED ocmVars
    PROVE  ShowsOld \/ StoresNext
  <1>1. CASE obj = capp[c]
    BY <1>1, UnchangedShowsOld DEF Write
  <1>2. CASE obj # capp[c]
    <2> DEFINE new == [obj EXCEPT !.rv = ver[c] + 1]
    <2>1. ver[c] + 1 \in Nat
      BY SInvFacts DEF CappTypeOK
    <2>2. new \in CappObjs
      BY <2>1, CappFields
    <2>3. /\ new.uid = obj.uid /\ new.status = obj.status
          /\ new.anno = obj.anno /\ new.site = obj.site
      BY DEF CappObjs
    <2>4. Store(c, new)
      BY <1>2 DEF Write
    <2> HIDE DEF new
    <2>5. Same(c, new)
      BY <2>3 DEF Same, Agrees, Targets
    <2> QED BY <2>2, <2>4, <2>5 DEF StoresNext, Follows
  <1> QED BY <1>1, <1>2

\* An Update that annotates the stored Capp with its status, or only changes its
\* finalizer.
LEMMA UpdateFollows ==
    ASSUME SInv, NEW c \in Capps, capp[c] \in CappObjs, NEW obj \in CappObjs,
           obj.site = capp[c].site, obj.uid = capp[c].uid,
           obj.anno # None => obj.anno = capp[c].status,
           obj.deleting /\ ~obj.fin => Gone(c),
           UpdateCapp(c, obj), UNCHANGED ocmVars
    PROVE  ShowsOld \/ StoresNext
  <1> DEFINE new == [obj EXCEPT !.status = capp[c].status]
  <1>1. capp[c].status \in Names \cup {None} /\ capp[c] # None
    BY NoneAssumption DEF CappObjs
  <1>2. new \in CappObjs
    BY <1>1, CappFields
  <1>3. /\ new.site = obj.site /\ new.anno = obj.anno /\ new.uid = obj.uid
        /\ new.status = capp[c].status
        /\ new.fin = obj.fin /\ new.deleting = obj.deleting
    BY DEF CappObjs
  <1>4. CASE new.deleting /\ ~new.fin
    <2>1. Store(c, None)
      BY <1>4 DEF UpdateCapp
    <2> HIDE DEF new
    <2> QED BY <1>3, <1>4, <2>1 DEF StoresNext, Follows
  <1>5. CASE ~(new.deleting /\ ~new.fin)
    <2>1. Write(c, new)
      BY <1>5 DEF UpdateCapp
    <2> HIDE DEF new
    <2>2. Same(c, new)
      BY <1>1, <1>3, SInvFacts DEF Same, Agrees, CappSettled, Targets
    <2> QED BY <1>2, <2>1, <2>2, WriteFollows
  <1> QED BY <1>4, <1>5

\* What the placement worker holds between the choice of a cluster and its writes.
LEMMA PlaceHolds ==
    ASSUME SInv, place.pc \in {"status", "annotate"}
    PROVE  /\ place \in [pc : {"status", "annotate"}, key : Capps, placements : Configs,
                         obj : CappObjs, dest : Names]
           /\ place.key \in Capps
           /\ place.obj \in CappObjs
           /\ place.obj # None
           /\ place.dest \in Names
           /\ place.dest # None
           /\ place.dest \in Targets(place.obj)
           /\ Current(place.key, place.obj) =>
                 capp[place.key] \in CappObjs /\ place.obj = capp[place.key]
  <1>1. /\ TypeOK /\ CappTypeOK /\ InformerOK
        /\ PlaceSnapshot /\ PlaceSettled
    BY SInvFacts
  <1>2. place \in [pc : {"status", "annotate"}, key : Capps, placements : Configs,
                   obj : CappObjs, dest : Names]
    BY <1>1 DEF TypeOK, PlaceTypeOK, PlaceIdle
  <1>3. place.obj \in CappObjs /\ place.obj # None
    BY <1>2, NoneAssumption
  <1>4. Current(place.key, place.obj) =>
           capp[place.key] \in CappObjs /\ place.obj = capp[place.key]
    BY <1>1, <1>2, <1>3, CurrentCopy DEF PlaceSnapshot
  <1> QED BY <1>1, <1>2, <1>3, <1>4, NoneAssumption DEF PlaceSettled

\* The status is only set to what it was set to before.
LEMMA DestinationFollows ==
    ASSUME Steady, SInv, UpdateCappDestination, Current(place.key, place.obj)
    PROVE  /\ ShowsOld \/ StoresNext
           /\ capp'[place.key] # None
           /\ capp'[place.key].status = place.dest
           /\ capp'[place.key].site = place.obj.site
  <1> DEFINE c == place.key
             new == [capp[c] EXCEPT !.status = [place.obj EXCEPT !.status = place.dest].status]
  <1>1. /\ c \in Capps /\ place.obj \in CappObjs /\ place.dest \in Names
        /\ place.dest # None /\ place.dest \in Targets(place.obj)
        /\ capp[c] \in CappObjs /\ place.obj = capp[c]
    BY PlaceHolds DEF UpdateCappDestination
  <1>2. capp[c] # None /\ Agrees(capp[c]) /\ CappSettled(c)
    BY <1>1, NoneAssumption, StoredSettled, SInvFacts
  <1>3. [place.obj EXCEPT !.status = place.dest].status = place.dest
    BY <1>1 DEF CappObjs
  <1>4. new \in CappObjs
    BY <1>1, <1>3, CappFields
  <1>5. /\ new.status = place.dest
        /\ new.uid = capp[c].uid /\ new.anno = capp[c].anno /\ new.site = capp[c].site
    BY <1>1, <1>3 DEF CappObjs
  <1>6. Write(c, new)
    BY DEF UpdateCappDestination, UpdateCappStatus
  <1>7. capp[c].status # None => capp[c].status = place.dest
    <2> SUFFICES ASSUME capp[c].status # None PROVE capp[c].status = place.dest
      OBVIOUS
    <2>1. capp[c].status \in Targets(capp[c])
      BY <1>1, <1>2 DEF CappSettled
    <2>2. PICK obj : obj = capp[c]
      OBVIOUS
    <2>3. PICK x \in Targets(obj) : x = capp[c].status
      BY <2>1, <2>2
    <2>4. PICK y \in Targets(obj) : y = place.dest
      BY <1>1, <2>2
    <2> QED BY <2>3, <2>4, TargetUnique
  <1> HIDE DEF new
  <1>8. Same(c, new)
    BY <1>1, <1>2, <1>5, <1>7 DEF Same, Agrees, Targets
  <1>9. UNCHANGED ocmVars
    BY DEF UpdateCappDestination
  <1>10. CappTypeOK
    BY SInvFacts
  <1>11. capp'[c] # None /\ capp'[c].status = new.status /\ capp'[c].site = new.site
    BY <1>1, <1>4, <1>6, <1>10, WriteEffect
  <1>12. ShowsOld \/ StoresNext
    BY <1>1, <1>4, <1>6, <1>8, <1>9, WriteFollows
  <1> QED BY <1>1, <1>5, <1>11, <1>12

LEMMA AnnotationFollows ==
    ASSUME SInv, AddCappHasPlacementAnnotation, Current(place.key, place.obj), Admitted(place.obj)
    PROVE  ShowsOld \/ StoresNext
  <1> DEFINE c == place.key
             new == [place.obj EXCEPT !.anno = place.dest]
  <1>1. /\ c \in Capps /\ place.obj \in CappObjs /\ place.dest \in Names
        /\ capp[c] \in CappObjs /\ place.obj = capp[c]
    BY PlaceHolds DEF AddCappHasPlacementAnnotation
  <1>2. place.obj.status = place.dest
    BY SInvFacts DEF AddCappHasPlacementAnnotation, PlaceSettled
  <1>3. new \in CappObjs
    BY <1>1, CappFields
  <1>4. /\ new.site = capp[c].site /\ new.uid = capp[c].uid
        /\ new.anno = capp[c].status
        /\ new.fin = capp[c].fin /\ new.deleting = capp[c].deleting
    BY <1>1, <1>2 DEF CappObjs
  <1>5. UpdateCapp(c, new) /\ UNCHANGED ocmVars
    BY DEF AddCappHasPlacementAnnotation
  <1> HIDE DEF new
  <1>6. new.deleting /\ ~new.fin => Gone(c)
    BY <1>1, <1>4, NoneAssumption DEF Gone
  <1> QED BY <1>1, <1>3, <1>4, <1>5, <1>6, UpdateFollows

LEMMA PlaceFollows ==
    ASSUME Steady, SInv, PlaceNext
    PROVE  ShowsOld \/ StoresNext
  <1>1. CASE UNCHANGED cappVars
    BY <1>1, UnchangedShowsOld
  <1>2. CASE UpdateCappDestination
    BY <1>1, <1>2, DestinationFollows DEF UpdateCappDestination
  <1>3. CASE AddCappHasPlacementAnnotation
    BY <1>1, <1>3, AnnotationFollows DEF AddCappHasPlacementAnnotation
  <1> QED BY <1>1, <1>2, <1>3 DEF PlaceNext, PlaceGetConfig, PlaceSelect, PlaceCallFails

\* What the sync worker holds.
LEMMA SyncHolds ==
    ASSUME SInv, sync.pc # "idle"
    PROVE  /\ sync \in [pc : {"finalizer", "apply", "delete"}, key : Capps, obj : CappObjs]
           /\ sync.key \in Capps
           /\ sync.obj \in CappObjs
           /\ Current(sync.key, sync.obj) =>
                 /\ capp[sync.key] \in CappObjs
                 /\ sync.obj = capp[sync.key]
                 /\ events[sync.key] = <<>>
  <1>1. TypeOK /\ CappTypeOK /\ InformerOK /\ SyncSnapshot
    BY SInvFacts
  <1>2. sync \in [pc : {"finalizer", "apply", "delete"}, key : Capps, obj : CappObjs]
    BY <1>1 DEF TypeOK, SyncTypeOK, SyncIdle
  <1>3. ASSUME Current(sync.key, sync.obj)
        PROVE  /\ capp[sync.key] \in CappObjs
               /\ sync.obj = capp[sync.key]
               /\ events[sync.key] = <<>>
    <2>1. capp[sync.key] \in CappObjs /\ sync.obj = capp[sync.key]
      BY <1>1, <1>2, <1>3, CurrentCopy DEF SyncSnapshot
    <2>2. PICK c \in Capps : c = sync.key
      BY <1>2
    <2>3. /\ capp[c].rv = ver[c]
          /\ capp[c].rv <= ver[c] - Len(events[c])
      BY <1>1, <1>3, <2>1, <2>2 DEF SyncSnapshot, InformerOK, InOrder, Current
    <2>4. events[c] \in Seq(CappObjs \cup {None}) /\ ver[c] \in Nat
      BY <1>1 DEF CappTypeOK
    <2>5. Len(events[c]) = 0
      BY <2>3, <2>4
    <2> QED BY <2>1, <2>2, <2>4, <2>5
  <1> QED BY <1>2, <1>3

\* The two writes of the sync controller: the finalizer comes, and it goes from a
\* Capp that is being deleted.
LEMMA FinalizerFollows ==
    ASSUME SInv, NEW fin \in BOOLEAN, sync.pc # "idle",
           sync.obj.deleting \/ fin,
           Current(sync.key, sync.obj),
           UpdateCapp(sync.key, [sync.obj EXCEPT !.fin = fin]), UNCHANGED ocmVars
    PROVE  ShowsOld \/ StoresNext
  <1> DEFINE c == sync.key
             new == [sync.obj EXCEPT !.fin = fin]
  <1>1. /\ c \in Capps /\ sync.obj \in CappObjs
        /\ capp[c] \in CappObjs /\ sync.obj = capp[c] /\ events[c] = <<>>
    BY SyncHolds
  <1>2. capp[c] # None /\ Agrees(capp[c])
    BY <1>1, NoneAssumption, StoredSettled
  <1>3. new \in CappObjs
    BY <1>1, CappFields
  <1>4. /\ new.site = capp[c].site /\ new.uid = capp[c].uid
        /\ new.anno = capp[c].anno
        /\ new.deleting = capp[c].deleting
    BY <1>1 DEF CappObjs
  <1>5. UpdateCapp(c, new)
    OBVIOUS
  <1> HIDE DEF new
  <1>6. new.deleting /\ ~new.fin => Gone(c)
    BY <1>1, <1>2, <1>4 DEF Gone
  <1> QED BY <1>1, <1>2, <1>3, <1>4, <1>5, <1>6, UpdateFollows DEF Agrees

LEMMA SyncFollows ==
    ASSUME SInv, SyncNext
    PROVE  ShowsOld \/ StoresNext
  <1>1. CASE UNCHANGED cappVars
    BY <1>1, UnchangedShowsOld
  <1>2. CASE EnsureFinalizer
    BY <1>1, <1>2, FinalizerFollows DEF EnsureFinalizer
  <1>3. CASE HandleCappDeletion
    <2>1. sync.obj.deleting /\ sync.pc # "idle" /\ UNCHANGED ocmVars
      BY <1>3, SInvFacts DEF HandleCappDeletion, SyncSnapshot
    <2>2. CASE removeFinalizer
      BY <1>1, <2>1, <2>2, FinalizerFollows DEF removeFinalizer
    <2> QED BY <1>1, <1>3, <2>2 DEF HandleCappDeletion, CleanUp, finalizeCapp, cappVars
  <1> QED BY <1>1, <1>2, <1>3 DEF SyncNext, SyncBegin, SyncManifestWork, SyncCallFails

LEMMA UserFollows ==
    ASSUME Steady, SInv, UserNext
    PROVE  ShowsOld \/ StoresNext
  <1>1. ASSUME NEW c \in Capps, NEW site \in Sites, NEW anno \in Clusters \cup {None},
               CreateCapp(c, site, anno)
        PROVE  StoresNext
    <2> DEFINE new == ver[c] + 1
               obj == [site |-> site, rev |-> new, anno |-> anno, status |-> None, fin |-> FALSE,
                       deleting |-> FALSE, uid |-> new, rv |-> new]
    <2>1. obj \in CappObjs
      BY <1>1, SInvFacts, EnvironmentAssumption DEF CappObjs, CappTypeOK, Names
    <2>2. anno = None
      BY <1>1 DEF CreateCapp, Steady
    <2>3. Fresh(c, obj)
      BY <1>1, <2>2 DEF CreateCapp, Fresh
    <2>4. Store(c, obj) /\ UNCHANGED ocmVars
      BY <1>1 DEF CreateCapp
    <2> HIDE DEF obj
    <2> QED BY <2>1, <2>3, <2>4 DEF StoresNext, Follows
  <1>2. ASSUME NEW c \in Capps, NEW site \in Sites, EditCapp(c, site)
        PROVE  ShowsOld \/ StoresNext
    <2> DEFINE obj == [capp[c] EXCEPT !.rev = ver[c] + 1, !.site = site]
    <2>1. /\ capp[c] \in CappObjs /\ capp[c] # None
          /\ ver[c] + 1 \in Nat /\ site \in Names \cup {None}
          /\ Agrees(capp[c]) /\ CappSettled(c)
      BY <1>2, SInvFacts, StoredSettled, EnvironmentAssumption DEF EditCapp, CappTypeOK
    <2>2. site = capp[c].site
      BY <1>2 DEF EditCapp, Steady
    <2>3. obj \in CappObjs
      BY <2>1, CappFields
    <2>4. /\ obj.site = capp[c].site /\ obj.uid = capp[c].uid
          /\ obj.status = capp[c].status /\ obj.anno = capp[c].anno
      BY <2>1, <2>2 DEF CappObjs
    <2>5. Write(c, obj) /\ UNCHANGED ocmVars
      BY <1>2 DEF EditCapp
    <2> HIDE DEF obj
    <2>6. Same(c, obj)
      BY <2>1, <2>4 DEF Same, Agrees, CappSettled, Targets
    <2> QED BY <2>3, <2>5, <2>6, WriteFollows
  <1>3. ASSUME NEW c \in Capps, DeleteCapp(c)
        PROVE  ShowsOld \/ StoresNext
    <2> DEFINE obj == [capp[c] EXCEPT !.deleting = TRUE]
    <2>1. /\ capp[c] \in CappObjs /\ capp[c] # None
          /\ Agrees(capp[c]) /\ CappSettled(c)
          /\ UNCHANGED ocmVars
      BY <1>3, SInvFacts, StoredSettled DEF DeleteCapp
    <2>2. obj \in CappObjs
      BY <2>1, CappFields
    <2>3. /\ obj.site = capp[c].site /\ obj.uid = capp[c].uid
          /\ obj.status = capp[c].status /\ obj.anno = capp[c].anno
      BY <2>1 DEF CappObjs
    <2>4. CASE capp[c].fin
      <3>1. Write(c, obj)
        BY <1>3, <2>4 DEF DeleteCapp
      <3> HIDE DEF obj
      <3>2. Same(c, obj)
        BY <2>1, <2>3 DEF Same, Agrees, CappSettled, Targets
      <3> QED BY <2>1, <2>2, <3>1, <3>2, WriteFollows
    <2>5. CASE ~capp[c].fin
      <3>1. Store(c, None) /\ Gone(c)
        BY <1>3, <2>1, <2>5 DEF DeleteCapp, Gone
      <3> QED BY <2>1, <3>1 DEF StoresNext, Follows
    <2> QED BY <2>4, <2>5
  <1>4. ASSUME NEW c \in Capps, ToggleVolumes(c)
        PROVE  ShowsOld
    BY <1>4, UnchangedShowsOld DEF ToggleVolumes
  <1> QED BY <1>1, <1>2, <1>3, <1>4 DEF UserNext

LEMMA ManagerFollows ==
    ASSUME SInv, ManagerNext
    PROVE  ShowsOld
  <1>1. CappTypeOK /\ InformerOK
    BY SInvFacts
  <1>2. ASSUME NEW c \in Capps, Deliver(c)
        PROVE  ShowsOld
    BY <1>1, <1>2, SeenDeliver DEF ShowsOld, Deliver
  <1>3. ASSUME NEW c \in Capps, Resync(c)
        PROVE  ShowsOld
    BY <1>3, UnchangedShowsOld DEF Resync
  <1>4. CASE Restart
    <2>1. ASSUME NEW c \in Capps
          PROVE  Seen(c)' \subseteq Seen(c)
      <3>1. cache'[c] = capp[c] /\ events'[c] = <<>>
        BY <1>4 DEF Restart
      <3>2. Seen(c)' = {capp[c]}
        BY <3>1 DEF Seen
      <3> QED BY <1>1, <3>2, StoredSeen DEF InformerOK
    <2> QED BY <1>4, <2>1 DEF ShowsOld, Restart
  <1> QED BY <1>2, <1>3, <1>4 DEF ManagerNext

\* Every step keeps the placement of every Capp and of every copy.
LEMMA StepKeepsPlaced ==
    ASSUME Steady, SInv, [Next]_vars
    PROVE  KeepsPlaced
  <1>1. ShowsOld \/ StoresNext
    <2>1. CASE UNCHANGED cappVars
      BY <2>1, UnchangedShowsOld
    <2>2. AdminNext \/ AgentNext => UNCHANGED cappVars
      BY DEF AdminNext, AgentNext, SetConfig, SetDecision, DetachCluster, AgentApply,
             AgentCleanup, RefreshMWCache
    <2> QED BY <2>1, <2>2, PlaceFollows, SyncFollows, UserFollows, ManagerFollows
           DEF Next, EnvNext, vars
  <1> QED BY <1>1, OldKeepsPlaced, NextKeepsPlaced

-----------------------------------------------------------------------------
(* What the workers hold.                                                  *)

\* A destination that the placement worker holds stays what it would choose again.
LEMMA PlaceStays ==
    ASSUME Steady, SInv, [Next]_vars, place' = PlaceIdle \/ UNCHANGED place
    PROVE  PlaceSettled'
  <1>1. PlaceSettled /\ config' = config /\ TypeOK
    BY SInvFacts, DecisionsStay
  <1>2. CASE place' = PlaceIdle
    BY <1>1, <1>2 DEF PlaceSettled, PlaceIdle
  <1>3. CASE UNCHANGED place
    <2>1. place.obj # None => place.dest \in Targets(place.obj)'
      <3> SUFFICES ASSUME place.obj # None
                   PROVE  place.dest \in Targets(place.obj)'
        OBVIOUS
      <3>1. place.pc \in {"status", "annotate"}
        BY <1>1 DEF TypeOK, PlaceTypeOK, PlaceIdle
      <3>2. place.dest \in Targets(place.obj) /\ place.dest # None
        BY <3>1, PlaceHolds
      <3>3. PICK obj : obj = place.obj
        OBVIOUS
      <3>4. PICK x \in Targets(obj) : x = place.dest /\ x # None
        BY <3>2, <3>3
      <3>5. x \in Targets(obj)'
        BY <3>4, TargetsStay
      <3> QED BY <1>3, <3>3, <3>4, <3>5 DEF Targets
    <2> QED BY <1>1, <1>3, <2>1 DEF PlaceSettled, Targets
  <1> QED BY <1>2, <1>3

LEMMA PlaceStepSettled ==
    ASSUME Steady, SInv, PlaceNext, UNCHANGED <<syncVars, ops>>
    PROVE  PlaceSettled'
  <1>1. /\ PlaceSettled /\ TypeOK
        /\ [Next]_vars
        /\ config \in Configs
    BY SInvFacts DEF Next
  <1>2. config' = config
    BY <1>1, DecisionsStay
  <1>3. CASE place' = PlaceIdle
    BY <1>1, <1>3, PlaceStays
  <1>4. ASSUME NEW c \in Capps, PlaceGetConfig(c)
        PROVE  PlaceSettled'
    BY <1>1, <1>2, <1>4 DEF PlaceGetConfig, PlaceSettled, PlaceIdle
  <1>5. CASE PlaceSelect
    <2>1. UNCHANGED ocmVars
      BY <1>5 DEF PlaceSelect
    <2>2. \A obj : Targets(obj)' = Targets(obj)
      BY <2>1 DEF Targets, Listed, pickDecision, GetPlacementDecisionList, ocmVars
    <2>3. ASSUME place.pc = "select"
          PROVE  /\ place.key \in Capps /\ place.placements = config
                 /\ DOMAIN place = {"pc", "key", "placements", "obj", "dest"}
      BY <1>1, <2>3 DEF TypeOK, PlaceTypeOK, PlaceIdle, PlaceSettled
    <2>4. ASSUME NEW x \in Targets(cache[place.key]), place.pc = "select",
                 place' = [place EXCEPT !.pc = "status", !.obj = cache[place.key], !.dest = x]
          PROVE  PlaceSettled'
      <3>1. /\ place'.pc = "status" /\ place'.placements = config
            /\ place'.obj = cache[place.key] /\ place'.dest = x
        BY <2>3, <2>4
      <3>2. x \in Targets(cache[place.key])
        BY <2>4
      <3>3. PICK obj : obj = cache[place.key]
        OBVIOUS
      <3>4. place'.dest \in Targets(obj)'
        BY <2>2, <3>1, <3>2, <3>3
      <3>5. place'.dest \in Targets(place.obj)'
        BY <3>1, <3>3, <3>4 DEF Targets
      <3> QED BY <1>1, <1>2, <3>1, <3>5 DEF PlaceSettled
    <2>5. CASE PlaceOnSite
      BY <2>3, <2>4, <2>5 DEF PlaceOnSite, Targets
    <2>6. CASE PlaceByDecision
      BY <1>3, <2>3, <2>4, <2>6 DEF PlaceByDecision, PlaceRetry, Targets
    <2> QED BY <1>3, <1>5, <2>5, <2>6 DEF PlaceSelect, PlaceNotFound, PlaceDone
  <1>6. CASE UpdateCappDestination
    <2>1. CASE Current(place.key, place.obj)
      <3>1. /\ place \in [pc : {"status", "annotate"}, key : Capps, placements : Configs,
                          obj : CappObjs, dest : Names]
            /\ place.dest \in Targets(place.obj)
            /\ place.placements = config
        BY <1>1, <1>6, PlaceHolds DEF UpdateCappDestination, PlaceSettled
      <3>2. /\ capp'[place.key].status = place.dest
            /\ capp'[place.key].site = place.obj.site
        BY <1>6, <2>1, DestinationFollows
      <3>3. /\ place'.pc = "annotate" /\ place'.placements = config
            /\ place'.dest = place.dest /\ place'.obj = capp'[place.key]
        BY <1>6, <2>1, <3>1 DEF UpdateCappDestination
      <3>4. Targets(place.obj)' = Targets(place.obj)
        <4>1. place'.obj.site = place.obj.site
          BY <3>2, <3>3
        <4>2. UNCHANGED <<config, decisions>>
          BY <1>6 DEF UpdateCappDestination, ocmVars
        <4> QED BY <4>1, <4>2
               DEF Targets, Listed, pickDecision, GetPlacementDecisionList
      <3> QED BY <1>1, <1>2, <3>1, <3>2, <3>3, <3>4 DEF PlaceSettled
    <2>2. CASE ~Current(place.key, place.obj)
      BY <1>3, <1>6, <2>2 DEF UpdateCappDestination, PlaceRetry
    <2> QED BY <2>1, <2>2
  <1>7. CASE AddCappHasPlacementAnnotation \/ PlaceCallFails
    BY <1>3, <1>7 DEF AddCappHasPlacementAnnotation, PlaceCallFails, PlaceDone, PlaceRetry
  <1> QED BY <1>4, <1>5, <1>6, <1>7 DEF PlaceNext

LEMMA StepPlaceSettled ==
    ASSUME Steady, SInv, [Next]_vars
    PROVE  PlaceSettled'
  <1>1. ManagerNext => place' = PlaceIdle \/ UNCHANGED place
    BY DEF ManagerNext, Deliver, Resync, Restart
  <1> QED BY <1>1, PlaceStays, PlaceStepSettled DEF Next, vars, placeVars

\* The copy that the sync worker reads or goes on with is settled, and it is
\* published only while the stored Capp is still the one that was copied.
LEMMA StepSyncSettled ==
    ASSUME Steady, SInv, [Next]_vars
    PROVE  SyncSettled'
  <1>1. KeepsPlaced /\ IInv'
    BY StepKeepsPlaced, SInvFacts, NextConsistent
  <1>2. SyncSettled /\ TypeOK /\ CappTypeOK
    BY SInvFacts
  <1>3. SyncSnapshot'
    BY <1>1 DEF IInv, ConsistentCopies
  <1>4. CASE sync'.pc = "idle"
    BY <1>4 DEF SyncSettled
  <1>5. CASE sync'.pc # "idle" /\ UNCHANGED sync
    <2>1. sync.key \in Capps /\ sync.obj \in CappObjs
      BY <1>5, SyncHolds
    <2>2. PICK c \in Capps, obj \in CappObjs : c = sync.key /\ obj = sync.obj
      BY <2>1
    <2>3. KeepsStatus(c, obj)'
      BY <1>1, <1>2, <1>5, <2>2 DEF KeepsPlaced, SyncSettled
    <2>4. sync.pc = "apply" => capp'[c] # None /\ capp'[c].uid = obj.uid
      BY <1>1, <1>2, <1>3, <1>5, <2>2 DEF KeepsPlaced, SyncSettled, SyncSnapshot
    <2> QED BY <1>2, <1>5, <2>2, <2>3, <2>4 DEF SyncSettled, Agrees, KeepsStatus
  <1>6. ASSUME NEW c \in Capps, SyncBegin(c), sync'.pc # "idle"
        PROVE  SyncSettled'
    <2>1. \/ UNCHANGED sync
          \/ /\ cache[c] # None
             /\ sync'.key = c /\ sync'.obj = cache[c]
             /\ sync'.pc = "apply" => cache[c].fin /\ ~cache[c].deleting
      BY <1>6 DEF SyncBegin
    <2>2. UNCHANGED <<capp, ver>>
      BY <1>6 DEF SyncBegin, cappVars
    <2>3. cache[c] # None => /\ Agrees(cache[c])
                             /\ KeepsStatus(c, cache[c])
                             /\ SameCapp(c, cache[c])
      BY SInvFacts DEF CappSettled, Seen
    <2> QED BY <1>5, <1>6, <2>1, <2>2, <2>3 DEF SyncSettled, Agrees, KeepsStatus, SameCapp
  <1>7. CASE EnsureFinalizer /\ sync'.pc # "idle"
    <2>1. /\ Current(sync.key, sync.obj)
          /\ sync' = [sync EXCEPT !.pc = "apply"]
      BY <1>7 DEF EnsureFinalizer, SyncRetry, SyncIdle
    <2>2. /\ sync \in [pc : {"finalizer", "apply", "delete"}, key : Capps, obj : CappObjs]
          /\ sync.key \in Capps /\ sync.obj \in CappObjs
          /\ sync.obj = capp[sync.key] /\ capp[sync.key] # None
      BY <1>7, <2>1, SyncHolds, NoneAssumption DEF EnsureFinalizer
    <2>3. sync'.pc = "apply" /\ sync'.key = sync.key /\ sync'.obj = sync.obj
      BY <2>1, <2>2
    <2>4. PICK c \in Capps, obj \in CappObjs : c = sync.key /\ obj = sync.obj
      BY <2>2
    <2>5. KeepsStatus(c, obj)' /\ Agrees(obj)
      BY <1>1, <1>2, <1>7, <2>4 DEF KeepsPlaced, SyncSettled, EnsureFinalizer
    <2>6. capp'[c] # None /\ capp'[c].uid = obj.uid
      BY <1>1, <1>3, <2>2, <2>3, <2>4 DEF KeepsPlaced, SyncSnapshot
    <2> QED BY <2>3, <2>4, <2>5, <2>6 DEF SyncSettled, Agrees, KeepsStatus
  <1>8. SyncManifestWork \/ HandleCappDeletion \/ SyncCallFails => sync'.pc = "idle"
    BY DEF SyncManifestWork, AssembleFails, CreateManifestWork, UpdateManifestWork, SyncAnswered,
           HandleCappDeletion, SyncCallFails, SyncDone, SyncRetry, SyncIdle
  <1>9. ManagerNext => UNCHANGED sync \/ sync'.pc = "idle"
    BY DEF ManagerNext, Deliver, Resync, Restart, SyncIdle
  <1> QED BY <1>4, <1>5, <1>6, <1>7, <1>8, <1>9 DEF Next, SyncNext, vars, syncVars

-----------------------------------------------------------------------------
(* Where ManifestWorks are.                                                *)

LEMMA StepWorkNamed ==
    ASSUME RInv, WorkNamed, [Next]_vars
    PROVE  WorkNamed'
  <1>1. ASSUME NEW k \in Clusters, NEW n \in MWNames, mw'[k][n] # None
        PROVE  n = GenerateMWName(mw'[k][n].manifest.capp)
    BY <1>1, WorkOrigin DEF WorkNamed
  <1> QED BY <1>1 DEF WorkNamed

\* The worker gives up a finalizer only when the ManifestWork that the status
\* points to is gone, and there is no other one of that Capp.
LEMMA RemovalKeepsGuard ==
    ASSUME Steady, SInv, HandleCappDeletion, ~UNCHANGED cappVars,
           NEW k \in Clusters, NEW n \in MWNames, mw[k][n] # None
    PROVE  mw[k][n].manifest.capp # sync.key
  <1> SUFFICES ASSUME mw[k][n].manifest.capp = sync.key PROVE FALSE
    OBVIOUS
  <1>1. /\ GetManifestWork(sync.obj.status, GenerateMWName(sync.key)) = None
        /\ Current(sync.key, sync.obj)
    BY DEF HandleCappDeletion, CleanUp, finalizeCapp, removeFinalizer, cappVars
  <1>2. sync.obj = capp[sync.key]
    BY <1>1, SyncHolds DEF HandleCappDeletion
  <1>3. capp[sync.key].status = k
    BY DEF SInv, WorkReachable
  <1>4. n = GenerateMWName(sync.key)
    BY SInvFacts DEF WorkNamed
  <1>5. mwCache = mw
    BY DEF HandleCappDeletion, MWCacheReadable, Steady
  <1> QED BY <1>1, <1>2, <1>3, <1>4, <1>5 DEF GetManifestWork

\* A Capp with a ManifestWork stays, and stays guarded.
LEMMA GuardStays ==
    ASSUME Steady, SInv, [Next]_vars, NEW k \in Clusters, NEW n \in MWNames, mw[k][n] # None,
           NEW c \in Capps, c = mw[k][n].manifest.capp
    PROVE  capp'[c] # None /\ capp'[c].fin
  <1>1. capp[c] # None /\ capp[c].fin
    BY DEF SInv, WorkReachable
  <1>2. CASE UNCHANGED capp
    BY <1>1, <1>2
  <1>3. KeepsCopies => capp'[c] # None /\ capp'[c].fin
    BY <1>1 DEF KeepsCopies
  <1>4. PlaceNext \/ EnvNext => KeepsCopies
    BY SInvFacts, PlaceConsistent, EnvConsistent
  <1>5. CASE EnsureFinalizer /\ ~UNCHANGED cappVars
    <2> DEFINE new == [sync.obj EXCEPT !.fin = TRUE]
    <2>1. /\ sync.key \in Capps /\ sync.obj \in CappObjs /\ CappTypeOK
          /\ capp[sync.key] \in CappObjs /\ sync.obj = capp[sync.key]
          /\ UpdateCapp(sync.key, new)
      BY <1>5, SyncHolds, SInvFacts DEF EnsureFinalizer
    <2>2. ~sync.obj.deleting
      BY <1>5, SInvFacts DEF EnsureFinalizer, SyncSnapshot
    <2>3. new \in CappObjs
      BY <2>1, CappFields
    <2>4. /\ new.site = capp[sync.key].site /\ new.rev = capp[sync.key].rev
          /\ new.uid = capp[sync.key].uid
          /\ new.deleting = capp[sync.key].deleting
          /\ new.fin = TRUE
      BY <2>1 DEF CappObjs
    <2> HIDE DEF new
    <2>5. /\ \A d \in Capps \ {sync.key} : capp'[d] = capp[d]
          /\ capp'[sync.key] = None => capp[sync.key].deleting
          /\ capp'[sync.key] # None => capp'[sync.key].fin = new.fin
      BY <2>1, <2>3, <2>4, UpdateCappEffect
    <2> QED BY <1>1, <2>1, <2>2, <2>4, <2>5
  <1>6. CASE HandleCappDeletion /\ ~UNCHANGED cappVars
    <2>1. c # sync.key
      BY <1>6, RemovalKeepsGuard
    <2>2. \A obj : Store(sync.key, obj) => capp'[c] = capp[c]
      BY <2>1, SInvFacts DEF Store, CappTypeOK
    <2>3. capp'[c] = capp[c]
      BY <1>6, <2>2
         DEF HandleCappDeletion, CleanUp, finalizeCapp, removeFinalizer, UpdateCapp, Write, cappVars
    <2> QED BY <1>1, <2>3
  <1>7. SyncManifestWork \/ SyncCallFails => UNCHANGED capp
    BY DEF SyncManifestWork, SyncCallFails, cappVars
  <1>8. CASE SyncNext
    BY <1>2, <1>5, <1>6, <1>7, <1>8 DEF SyncNext, SyncBegin, cappVars
  <1>9. ManagerNext => UNCHANGED capp
    BY DEF ManagerNext, Deliver, Resync, Restart, cappVars
  <1> QED BY <1>2, <1>3, <1>4, <1>8, <1>9 DEF Next, vars, cappVars

LEMMA StepReachable ==
    ASSUME Steady, SInv, [Next]_vars
    PROVE  WorkReachable'
  <1>1. KeepsPlaced /\ RInv /\ mw \in WorkType /\ SyncSnapshot /\ SyncSettled
    BY StepKeepsPlaced, SInvFacts
  <1>2. ASSUME NEW k \in Clusters, NEW n \in MWNames, mw'[k][n] # None,
               NEW c, c = mw'[k][n].manifest.capp
        PROVE  capp'[c] # None /\ capp'[c].fin /\ capp'[c].status = k
    <2>1. k # None
      BY NoneAssumption DEF Names
    <2>2. CASE mw[k][n] # None /\ mw'[k][n].manifest = mw[k][n].manifest
      <3>1. c \in Capps
        BY <1>1, <1>2, <2>2 DEF WorkType, MWObjs, Workloads
      <3>2. capp'[c] # None /\ capp'[c].fin
        BY <1>2, <2>2, <3>1, GuardStays
      <3>3. capp[c] # None /\ capp[c].status = k
        BY <1>2, <2>2 DEF SInv, WorkReachable
      <3> QED BY <1>1, <2>1, <3>1, <3>2, <3>3 DEF KeepsPlaced
    <2>3. CASE /\ sync.pc = "apply"
               /\ k = sync.obj.anno /\ n = GenerateMWName(sync.key)
               /\ UNCHANGED cappVars
               /\ mw'[k][n].manifest = [capp |-> sync.key, rev |-> sync.obj.rev]
      <3>1. c = sync.key
        BY <1>2, <2>3
      <3>2. capp[c] # None /\ capp[c].fin
        BY <1>1, <2>3, <3>1 DEF SyncSnapshot
      <3>3. sync.obj.status = k
        BY <1>1, <2>1, <2>3 DEF SyncSettled, Agrees
      <3>4. capp[c].status = k
        BY <1>1, <2>1, <2>3, <3>1, <3>2, <3>3 DEF SyncSettled, KeepsStatus
      <3> QED BY <2>3, <3>2, <3>4 DEF cappVars
    <2> QED BY <1>1, <1>2, <2>2, <2>3, WorkOrigin
  <1> QED BY <1>2 DEF WorkReachable

LEMMA InitSettled == Init => SInv
  <1> SUFFICES ASSUME Init PROVE SInv
    OBVIOUS
  <1>1. RInv
    BY InitOrdered
  <1>2. ASSUME NEW c \in Capps
        PROVE  CappSettled(c)
    <2>1. Seen(c) = {None} /\ capp[c] = None
      BY DEF Init, HubInit, Seen
    <2> QED BY <2>1 DEF CappSettled
  <1>3. PlaceSettled
    BY NoneAssumption DEF Init, HubInit, PlaceInit, PlaceIdle, PlaceSettled
  <1>4. SyncSettled
    BY DEF Init, SyncInit, SyncIdle, SyncSettled
  <1>5. \A k \in Clusters, n \in MWNames : mw[k][n] = None
    BY DEF Init, HubInit
  <1>6. WorkNamed /\ WorkReachable
    BY <1>5 DEF WorkNamed, WorkReachable
  <1> QED BY <1>1, <1>2, <1>3, <1>4, <1>6 DEF SInv, PlacementSettled

LEMMA NextSettled ==
    ASSUME Steady
    PROVE  SInv /\ [Next]_vars => SInv'
  <1> SUFFICES ASSUME SInv, [Next]_vars PROVE SInv'
    OBVIOUS
  <1>1. RInv'
    BY SInvFacts, NextOrdered
  <1>2. PlacementSettled'
    BY SInvFacts, StepKeepsPlaced, StepPlaceSettled, StepSyncSettled, StepWorkNamed
       DEF PlacementSettled, KeepsPlaced
  <1> QED BY <1>1, <1>2, StepReachable DEF SInv

\* While nothing moves a placed Capp, status, annotation and all their copies agree
\* with each other and with what PlacementReconciler would choose again.
THEOREM PlacementsStaySettled ==
    ASSUME Steady
    PROVE  Spec => []PlacementSettled
  <1>1. SInv => PlacementSettled
    BY DEF SInv
  <1>2. SInv /\ [Next]_vars => SInv'
    BY NextSettled
  <1> QED BY <1>1, <1>2, InitSettled, PTL DEF Spec

\* While nothing moves a placed Capp, every ManifestWork is where the status of its
\* Capp points, and that Capp waits for HandleCappDeletion to find it there.
THEOREM WorksStayReachable ==
    ASSUME Steady
    PROVE  Spec => []WorkReachable
  <1>1. SInv => WorkReachable
    BY DEF SInv
  <1>2. SInv /\ [Next]_vars => SInv'
    BY NextSettled
  <1> QED BY <1>1, <1>2, InitSettled, PTL DEF Spec

-----------------------------------------------------------------------------
(* The strict lifecycle.                                                   *)

\* Everything published of one Capp is one ManifestWork, where its status points;
\* after a step it still is.
LEMMA OneWork ==
    ASSUME WorkReachable, WorkNamed, NEW c, NEW j \in Clusters, NEW m \in MWNames,
           Life!Carries(j, m, c)
    PROVE  /\ capp[c] # None
           /\ j = capp[c].status
           /\ m = GenerateMWName(c)
  <1>1. mw[j][m] # None /\ mw[j][m].manifest.capp = c
    BY DEF Life!Carries, works
  <1> QED BY <1>1 DEF WorkReachable, WorkNamed

LEMMA OneWorkNext ==
    ASSUME WorkReachable', WorkNamed', NEW c, NEW j \in Clusters, NEW m \in MWNames,
           Life!Carries(j, m, c)'
    PROVE  /\ capp'[c] # None
           /\ j = capp'[c].status
           /\ m = GenerateMWName(c)
  <1>1. mw'[j][m] # None /\ mw'[j][m].manifest.capp = c
    BY DEF Life!Carries, works
  <1> QED BY <1>1 DEF WorkReachable, WorkNamed, GenerateMWName

LEMMA PublishIsStrict ==
    ASSUME SInv', NEW c \in Capps, NEW k \in Clusters, NEW n \in MWNames, Life!Publish(c, k, n)
    PROVE  StrictLife!Publish(c, k, n)
  <1> USE DEF SInv, PlacementSettled
  <1>1. ASSUME NEW j \in Clusters, NEW m \in MWNames, Life!Carries(j, m, c)
        PROVE  <<j, m>> = <<k, n>>
    <2>1. Life!Carries(k, n, c)'
      BY DEF Life!Publish, Life!Carries
    <2>2. SUFFICES ASSUME <<j, m>> # <<k, n>> PROVE FALSE
      OBVIOUS
    <2>3. works' = [works EXCEPT ![k][n] = works'[k][n]]
      BY DEF Life!Publish
    <2>4. DOMAIN works = Clusters /\ DOMAIN works[k] = MWNames
      BY DEF works
    <2>5. works' = [works EXCEPT ![k] = [works[k] EXCEPT ![n] = works'[k][n]]]
      BY <2>3
    <2>6. works'[j][m] = works[j][m]
      <3>1. CASE j = k
        BY <2>2, <2>4, <2>5, <3>1
      <3>2. CASE j # k
        BY <2>4, <2>5, <3>2
      <3> QED BY <3>1, <3>2
    <2>7. Life!Carries(j, m, c)'
      BY <1>1, <2>6 DEF Life!Carries
    <2>8. j = capp'[c].status /\ m = GenerateMWName(c)
      BY <2>7, OneWorkNext
    <2>9. k = capp'[c].status /\ n = GenerateMWName(c)
      BY <2>1, OneWorkNext
    <2> QED BY <2>2, <2>8, <2>9
  <1> QED BY <1>1 DEF Life!Publish, StrictLife!Publish, Life!Carries, StrictLife!Carries

LEMMA ReleaseIsStrict ==
    ASSUME SInv', NEW c \in Capps, Life!Release(c)
    PROVE  StrictLife!Release(c)
  <1> USE DEF SInv, PlacementSettled
  <1>1. capp'[c] = None
    BY DEF Life!Release, Life!Become, phase, Phase
  <1>2. ASSUME NEW k \in Clusters, NEW n \in MWNames, Life!Carries(k, n, c)
        PROVE  FALSE
    <2>1. works' = works
      BY DEF Life!Release
    <2>2. Life!Carries(k, n, c)'
      BY <1>2, <2>1 DEF Life!Carries
    <2> QED BY <1>1, <2>2, OneWorkNext
  <1> QED BY <1>2 DEF Life!Release, StrictLife!Release, Life!Carries, StrictLife!Carries,
                      Life!Become, StrictLife!Become

LEMMA StrictNextMaps ==
    ASSUME SInv, SInv', [Next]_vars
    PROVE  [StrictLife!Next]_(StrictLife!vars)
  <1>1. [Life!Next]_(Life!vars)
    BY SInvFacts, NextMaps
  <1>2. \A c : /\ Life!Create(c) = StrictLife!Create(c)
               /\ Life!Edit(c) = StrictLife!Edit(c)
               /\ Life!Guard(c) = StrictLife!Guard(c)
               /\ Life!Delete(c) = StrictLife!Delete(c)
    BY DEF Life!Create, StrictLife!Create, Life!Edit, StrictLife!Edit, Life!Guard, StrictLife!Guard,
           Life!Delete, StrictLife!Delete, Life!Become, StrictLife!Become, Life!Carries,
           StrictLife!Carries
  <1>3. \A k \in Clusters : /\ \A n \in MWNames : Life!Withdraw(k, n) = StrictLife!Withdraw(k, n)
                            /\ Life!LoseCluster(k) = StrictLife!LoseCluster(k)
    BY DEF Life!Withdraw, StrictLife!Withdraw, Life!LoseCluster, StrictLife!LoseCluster
  <1>4. CASE UNCHANGED Life!vars
    BY <1>4 DEF Life!vars, StrictLife!vars
  <1> QED BY <1>1, <1>2, <1>3, <1>4, PublishIsStrict, ReleaseIsStrict
         DEF Life!Next, StrictLife!Next

LEMMA StrictInitMaps == Init => StrictLife!Init
  BY DEF Init, HubInit, StrictLife!Init, phase, rev, works, Phase, Rev

\* While nothing moves a placed Capp, the operator implements the strict lifecycle:
\* a Capp is published on one managed cluster at a time, and it is gone only
\* after its ManifestWork.
THEOREM StrictLifecycleImplemented ==
    ASSUME Steady
    PROVE  Spec => ImplementsStrictLifecycle
  <1>1. SInv /\ [Next]_vars => SInv'
    BY NextSettled
  <1>2. SInv /\ SInv' /\ [Next]_vars => [StrictLife!Next]_(StrictLife!vars)
    BY StrictNextMaps
  <1> QED BY <1>1, <1>2, InitSettled, StrictInitMaps, PTL
         DEF Spec, ImplementsStrictLifecycle, StrictLife!Spec

=============================================================================
