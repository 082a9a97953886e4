--------------------------- MODULE SyncController ---------------------------
(***************************************************************************)
(* SyncReconciler: one worker that takes a Capp key from its queue and     *)
(* either publishes the Capp as a ManifestWork in the namespace of its     *)
(* cluster, or, when the Capp is being deleted, deletes that ManifestWork  *)
(* and then gives up the finalizer.  A reconcile is split where it reads   *)
(* the Capp and at each write.  Reading a ManifestWork and writing it is   *)
(* one step: only this worker creates and deletes ManifestWorks, and a     *)
(* change by the work agent in between is a stale read.                    *)
(***************************************************************************)
EXTENDS HubApi

VARIABLES
    syncQ,  \* keys queued, waiting for a back-off or for RequeueAfter
    sync    \* the worker: program counter, key and the Capp that Reconcile read

syncVars == <<syncQ, sync>>

SyncIdle == [pc |-> "idle", key |-> None, obj |-> None]

SyncTypeOK ==
    /\ syncQ \subseteq Capps
    /\ \/ sync = SyncIdle
       \/ sync \in [pc : {"finalizer", "apply", "delete"}, key : Capps, obj : CappObjs]

SyncInit == syncQ = {} /\ sync = SyncIdle

\* The event filter: Capps that are placed.
CappPredicateFuncs(obj) == ContainsPlacementAnnotation(obj)

\* return ctrl.Result{}, nil
SyncDone == sync' = SyncIdle /\ UNCHANGED syncQ

\* return an error, or ctrl.Result{RequeueAfter: RequeueTime}
SyncRetry == sync' = SyncIdle /\ syncQ' = syncQ \cup {sync.key}

-----------------------------------------------------------------------------

\* Take key c and Get the Capp.
SyncBegin(c) ==
    /\ sync.pc = "idle"
    /\ c \in syncQ
    /\ syncQ' = syncQ \ {c}
    /\ LET obj == cache[c]
           task == IF obj.deleting THEN "delete"
                   ELSE IF obj.fin THEN "apply" ELSE "finalizer"
       IN  IF obj = None THEN UNCHANGED sync
           ELSE sync' = [pc |-> task, key |-> c, obj |-> obj]
    /\ UNCHANGED <<cappVars, mwVars, ocmVars, faults>>

\* Faulty variants: the finalizer is never added; its failed update is ignored.
EnsureFinalizerSkipped ==
    /\ sync.pc = "finalizer"
    /\ sync' = [sync EXCEPT !.pc = "apply"]
    /\ UNCHANGED <<syncQ, cappVars, mwVars, ocmVars, faults>>

EnsureFinalizerUnchecked ==
    /\ sync.pc = "finalizer"
    /\ IF Current(sync.key, sync.obj) /\ Admitted(sync.obj)
       THEN UpdateCapp(sync.key, [sync.obj EXCEPT !.fin = TRUE])
       ELSE UNCHANGED cappVars
    /\ sync' = [sync EXCEPT !.pc = "apply"]
    /\ UNCHANGED <<syncQ, mwVars, ocmVars, faults>>

\* The Capp is passed by value: what SyncManifestWork goes on with is the copy
\* that Reconcile read, without the finalizer and with the old resourceVersion.
EnsureFinalizer ==
    /\ sync.pc = "finalizer"
    /\ IF Current(sync.key, sync.obj) /\ Admitted(sync.obj)
       THEN /\ UpdateCapp(sync.key, [sync.obj EXCEPT !.fin = TRUE])
            /\ sync' = [sync EXCEPT !.pc = "apply"]
            /\ UNCHANGED syncQ
       ELSE SyncRetry /\ UNCHANGED cappVars
    /\ UNCHANGED <<mwVars, ocmVars, faults>>

\* The answer to the last write of a reconcile arrives, or is lost.
SyncAnswered ==
    \/ SyncDone /\ UNCHANGED faults
    \/ SyncRetry /\ Fault

\* Create fails without a namespace (no annotation, no such cluster) and when
\* the ManifestWork exists although the cache does not show it.
CreateManifestWork(k, n, manifests) ==
    IF k \in clusters /\ mw[k][n] = None
    THEN /\ PutManifestWork(k, n, [manifest |-> manifests, applied |-> None, deleting |-> FALSE])
         /\ SyncAnswered
    ELSE SyncRetry /\ UNCHANGED <<mw, faults>>

\* r.Update of the cached ManifestWork: a conflict, or NotFound, when it is stale.
UpdateManifestWork(k, n, manifests) ==
    IF mwCache[k][n] = mw[k][n]
    THEN /\ PutManifestWork(k, n, [mw[k][n] EXCEPT !.manifest = manifests])
         /\ SyncAnswered
    ELSE SyncRetry /\ UNCHANGED <<mw, faults>>

\* Faulty variants: the worker waits for the volumes; the error is logged and forgotten.
AssembleBlocks == FALSE

AssembleForgets == ~resolvable[sync.key] /\ SyncDone /\ UNCHANGED <<mw, faults>>

\* AssembleManifests returns an error: a ConfigMap or Secret is missing.
AssembleFails == ~resolvable[sync.key] /\ SyncRetry /\ UNCHANGED <<mw, faults>>

SyncManifestWork ==
    /\ sync.pc = "apply"
    /\ MWCacheReadable
    /\ LET n == GenerateMWName(sync.key)
           k == sync.obj.anno
           manifests == [capp |-> sync.key, rev |-> sync.obj.rev]
       IN  \/ AssembleFails
           \/ resolvable[sync.key] /\ GetManifestWork(k, n) = None /\ CreateManifestWork(k, n, manifests)
           \/ resolvable[sync.key] /\ GetManifestWork(k, n) # None /\ UpdateManifestWork(k, n, manifests)
    /\ UNCHANGED <<cappVars, mwCache, ocmVars>>

\* The finalizer goes; HandleCappDeletion is requeued whatever the outcome.
removeFinalizer ==
    IF Current(sync.key, sync.obj) /\ Admitted(sync.obj)
    THEN UpdateCapp(sync.key, [sync.obj EXCEPT !.fin = FALSE])
    ELSE UNCHANGED cappVars

\* Faulty variant: the finalizer goes with the Delete call, not once the work is gone.
finalizeCappEarly(k, n) ==
    /\ IF mw[k][n] # None THEN DeleteManifestWork(k, n) ELSE UNCHANGED mw
    /\ removeFinalizer

\* Delete the cached ManifestWork; it fails if the object is gone by now.
finalizeCapp(k, n) ==
    /\ IF mw[k][n] # None THEN DeleteManifestWork(k, n) ELSE UNCHANGED mw
    /\ UNCHANGED cappVars

\* Delete the ManifestWork where the status points; NotFound ends the cleanup.
CleanUp ==
    LET n == GenerateMWName(sync.key)
        k == sync.obj.status
    IN  IF ~sync.obj.fin THEN UNCHANGED <<cappVars, mw>>
        ELSE \/ GetManifestWork(k, n) = None /\ removeFinalizer /\ UNCHANGED mw
             \/ GetManifestWork(k, n) # None /\ finalizeCapp(k, n)

\* Faulty variant: no RequeueAfter once the ManifestWork was told to go.
HandleCappDeletionOnce ==
    /\ sync.pc = "delete"
    /\ MWCacheReadable
    /\ CleanUp
    /\ SyncDone
    /\ UNCHANGED <<mwCache, ocmVars, faults>>

HandleCappDeletion ==
    /\ sync.pc = "delete"
    /\ MWCacheReadable
    /\ CleanUp
    /\ SyncRetry
    /\ UNCHANGED <<mwCache, ocmVars, faults>>

SyncCallFails ==
    /\ sync.pc # "idle"
    /\ Fault
    /\ SyncRetry
    /\ UNCHANGED <<cappVars, mwVars, ocmVars>>

SyncNext ==
    \/ \E c \in Capps : SyncBegin(c)
    \/ EnsureFinalizer
    \/ SyncManifestWork
    \/ HandleCappDeletion
    \/ SyncCallFails
=============================================================================
