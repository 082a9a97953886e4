--------------------------- MODULE CappLifecycle ---------------------------
(***************************************************************************)
(* What the operator promises about a Capp, without controllers, caches or *)
(* queues: a Capp is created, guarded by the cleanup finalizer, published  *)
(* on managed clusters, edited, told to leave and gone.  With Strict it is *)
(* published on one cluster at a time and gone only after its ManifestWork *)
(* is.                                                                     *)
(***************************************************************************)
EXTENDS Naturals

CONSTANTS
    Capps, Clusters, WorkNames,
    None,
    Strict  \* the promises that hold while nothing moves a placed Capp

VARIABLES
    phase,  \* phase[c]: "absent", "new", "guarded" (with the finalizer) or "leaving"
    rev,    \* rev[c]: the revision of the spec its user last wrote, 0 while absent
    works   \* works[k][n]: the Capp and revision published on cluster k under name n, or None

vars == <<phase, rev, works>>

\* The ManifestWork named n on cluster k carries Capp c.
Carries(k, n, c) == works[k][n] # None /\ works[k][n].capp = c

Become(c, p) == phase' = [phase EXCEPT ![c] = p]

\* A new Capp is newer than all that was ever published of one of its name.
Create(c) ==
    /\ phase[c] = "absent"
    /\ Become(c, "new")
    /\ rev' = [rev EXCEPT ![c] = rev'[c]]
    /\ \A k \in Clusters, n \in WorkNames : Carries(k, n, c) => works[k][n].rev < rev'[c]
    /\ UNCHANGED works

Edit(c) ==
    /\ phase[c] # "absent"
    /\ rev' = [rev EXCEPT ![c] = rev'[c]]
    /\ rev'[c] > rev[c]
    /\ UNCHANGED <<phase, works>>

Guard(c) ==
    /\ phase[c] = "new"
    /\ Become(c, "guarded")
    /\ UNCHANGED <<rev, works>>

\* The user deletes the Capp; one without finalizer is gone at once.
Delete(c) ==
    /\ \/ phase[c] = "new" /\ Become(c, "absent") /\ rev' = [rev EXCEPT ![c] = 0]
       \/ phase[c] = "guarded" /\ Become(c, "leaving") /\ UNCHANGED rev
    /\ UNCHANGED works

\* Only a guarded Capp is published, in a revision it had and never in an older
\* one than before.
Publish(c, k, n) ==
    /\ phase[c] \in {"guarded", "leaving"}
    /\ works' = [works EXCEPT ![k][n] = works'[k][n]]
    /\ works'[k][n] # None
    /\ works'[k][n].capp = c
    /\ works'[k][n].rev <= rev[c]
    /\ Carries(k, n, c) => works[k][n].rev <= works'[k][n].rev
    /\ Strict => \A j \in Clusters, m \in WorkNames : Carries(j, m, c) => <<j, m>> = <<k, n>>
    /\ UNCHANGED <<phase, rev>>

\* A ManifestWork goes, or a cluster with all that is published on it.
Withdraw(k, n) ==
    /\ works' = [works EXCEPT ![k][n] = None]
    /\ UNCHANGED <<phase, rev>>

LoseCluster(k) ==
    /\ works' = [works EXCEPT ![k] = [n \in WorkNames |-> None]]
    /\ UNCHANGED <<phase, rev>>

\* The finalizer goes, and the Capp with it.
Release(c) ==
    /\ phase[c] = "leaving"
    /\ Strict => \A k \in Clusters, n \in WorkNames : ~Carries(k, n, c)
    /\ Become(c, "absent")
    /\ rev' = [rev EXCEPT ![c] = 0]
    /\ UNCHANGED works

Init ==
    /\ phase = [c \in Capps |-> "absent"]
    /\ rev = [c \in Capps |-> 0]
    /\ works = [k \in Clusters |-> [n \in WorkNames |-> None]]

Next ==
    \/ \E c \in Capps : Create(c) \/ Edit(c) \/ Guard(c) \/ Delete(c) \/ Release(c)
    \/ \E c \in Capps, k \in Clusters, n \in WorkNames : Publish(c, k, n)
    \/ \E k \in Clusters, n \in WorkNames : Withdraw(k, n)
    \/ \E k \in Clusters : LoseCluster(k)

Spec == Init /\ [][Next]_vars

\* No ManifestWork outlives its Capp, and none is there before the finalizer.
NoOrphan ==
    \A c \in Capps, k \in Clusters, n \in WorkNames :
       Carries(k, n, c) => phase[c] \in {"guarded", "leaving"}
=============================================================================
