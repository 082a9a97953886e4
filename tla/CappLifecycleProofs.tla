------------------------ MODULE CappLifecycleProofs ------------------------
(***************************************************************************)
(* What the strict lifecycle promises, for every set of Capps, clusters    *)
(* and names.                                                              *)
(***************************************************************************)
EXTENDS CappLifecycle, TLAPS

Phases == {"absent", "new", "guarded", "leaving"}

Shape ==
    /\ phase \in [Capps -> Phases]
    /\ works = [k \in Clusters |-> [n \in WorkNames |-> works[k][n]]]

LInv == Shape /\ NoOrphan

\* A step that leaves every ManifestWork alone or removes it.
Fewer ==
    \A c \in Capps, k \in Clusters, n \in WorkNames : Carries(k, n, c)' => Carries(k, n, c)

LEMMA ShapeKept == Shape /\ [Next]_vars => Shape'
  <1> SUFFICES ASSUME Shape, [Next]_vars PROVE Shape'
    OBVIOUS
  <1>1. phase' \in [Capps -> Phases]
    BY DEF Shape, Next, vars, Create, Edit, Guard, Delete, Publish, Withdraw, LoseCluster,
           Release, Become, Phases
  <1>2. ASSUME NEW k \in Clusters, NEW n \in WorkNames, NEW w, works' = [works EXCEPT ![k][n] = w]
        PROVE  works' = [j \in Clusters |-> [m \in WorkNames |-> works'[j][m]]]
    <2>1. ASSUME NEW j \in Clusters
          PROVE  works'[j] = [m \in WorkNames |-> works'[j][m]]
      <3>1. works[j] = [m \in WorkNames |-> works[j][m]]
        BY DEF Shape
      <3>2. works'[j] = IF j = k THEN [works[j] EXCEPT ![n] = w] ELSE works[j]
        BY <1>2 DEF Shape
      <3> QED BY <3>1, <3>2
    <2>2. works' = [j \in Clusters |-> works'[j]]
      BY <1>2 DEF Shape
    <2> QED BY <2>1, <2>2
  <1>3. ASSUME NEW k \in Clusters, works' = [works EXCEPT ![k] = [n \in WorkNames |-> None]]
        PROVE  works' = [j \in Clusters |-> [m \in WorkNames |-> works'[j][m]]]
    BY <1>3 DEF Shape
  <1>4. CASE UNCHANGED works
    BY <1>1, <1>4 DEF Shape
  <1> QED BY <1>1, <1>2, <1>3, <1>4
         DEF Shape, Next, vars, Create, Edit, Guard, Delete, Publish, Withdraw, LoseCluster, Release

\* No ManifestWork outlives its Capp, or is there before the finalizer, when a
\* Capp is published on one cluster at a time and released only after its
\* ManifestWork is gone, as HandleCappDeletion means to do.
THEOREM NothingOrphaned == Strict /\ Spec => []NoOrphan
  <1>1. Init => LInv
    BY DEF Init, LInv, Shape, Phases, NoOrphan, Carries
  <1>2. Strict /\ LInv /\ [Next]_vars => LInv'
    <2> SUFFICES ASSUME Strict, LInv, [Next]_vars PROVE NoOrphan'
      BY ShapeKept DEF LInv
    <2> USE DEF LInv
    <2>1. ASSUME NEW c \in Capps, NEW p, Become(c, p), Fewer,
                 \/ p \in {"guarded", "leaving"}
                 \/ \A k \in Clusters, n \in WorkNames : ~Carries(k, n, c)
          PROVE  NoOrphan'
      BY <2>1 DEF Become, Fewer, NoOrphan, Shape
    <2>2. ASSUME UNCHANGED works
          PROVE  Fewer
      BY <2>2 DEF Fewer, Carries
    <2>3. ASSUME NEW c \in Capps, Create(c) \/ Guard(c) \/ Delete(c) \/ Release(c)
          PROVE  NoOrphan'
      <3>1. Fewer
        BY <2>2, <2>3 DEF Create, Guard, Delete, Release
      <3>2. phase[c] \in {"absent", "new"} =>
               \A k \in Clusters, n \in WorkNames : ~Carries(k, n, c)
        BY DEF NoOrphan
      <3> QED BY <2>1, <2>3, <3>1, <3>2 DEF Create, Guard, Delete, Release
    <2>4. ASSUME NEW c \in Capps, Edit(c)
          PROVE  NoOrphan'
      BY <2>4 DEF Edit, NoOrphan, Carries
    <2>5. ASSUME NEW c \in Capps, NEW k \in Clusters, NEW n \in WorkNames, Publish(c, k, n)
          PROVE  NoOrphan'
      <3>1. ASSUME NEW j \in Clusters, NEW m \in WorkNames, <<j, m>> # <<k, n>>
            PROVE  works'[j][m] = works[j][m]
        BY <2>5, <3>1 DEF Publish, Shape
      <3> QED BY <2>5, <3>1 DEF Publish, NoOrphan, Carries
    <2>6. ASSUME NEW k \in Clusters, NEW n \in WorkNames, Withdraw(k, n)
          PROVE  NoOrphan'
      <3>1. \A j \in Clusters, m \in WorkNames : works'[j][m] \in {None, works[j][m]}
        BY <2>6 DEF Withdraw, Shape
      <3> QED BY <2>6, <3>1 DEF Withdraw, NoOrphan, Carries
    <2>7. ASSUME NEW k \in Clusters, LoseCluster(k)
          PROVE  NoOrphan'
      <3>1. \A j \in Clusters, m \in WorkNames : works'[j][m] \in {None, works[j][m]}
        BY <2>7 DEF LoseCluster, Shape
      <3> QED BY <2>7, <3>1 DEF LoseCluster, NoOrphan, Carries
    <2>8. CASE UNCHANGED vars
      BY <2>8 DEF vars, NoOrphan, Carries
    <2> QED BY <2>3, <2>4, <2>5, <2>6, <2>7, <2>8 DEF Next
  <1>3. LInv => NoOrphan
    BY DEF LInv
  <1>4. ASSUME Strict PROVE Spec => []NoOrphan
    BY <1>1, <1>2, <1>3, <1>4, PTL DEF Spec
  <1> QED BY <1>4
=============================================================================
