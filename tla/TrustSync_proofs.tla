-------------------------- MODULE TrustSync_proofs --------------------------
(***************************************************************************)
(* TrustSync keeps its type invariant, loses no update (NoLostReload) and  *)
(* makes the files follow the objects (FilesFollowObjects), for any names, *)
(* contents and bounds.                                                    *)
(***************************************************************************)
EXTENDS TrustSync, TLAPS

(***************************************************************************)
(* Quiet: nothing announces a further reload.  While it lasts, what the    *)
(* loader has read agrees with the files, at whatever point the loader is. *)
(* A change of a file ends Quiet in the same step (changed), notify        *)
(* hands that over to the channel, and Receive to a new ReadDir.           *)
(***************************************************************************)
Quiet ==
    /\ changed = {}
    /\ channel = 0
    /\ lost = {}

LoadAgrees ==
    lpc = "load" => \A n \in Names :
                       IF n \in pending THEN disk[TP][n] # NoDoc
                                        ELSE building[n] = disk[TP][n]

ClearAgrees == lpc = "clear" => verifiers = disk[TP]

IdleAgrees == lpc = "idle" => Blocked \/ InForce

\* The changed flag is only up inside a sync, so that it is down at rest.
ChangedInSync == \A k \in Kinds : k \in changed => rpc[k] \in {"write", "delete"}

Agrees == LoadAgrees /\ ClearAgrees /\ IdleAgrees

ReloadInv ==
    /\ TypeOK
    /\ ChangedInSync
    /\ Quiet => Agrees

(***************************************************************************)
(* Where the worker of controller k stands with the list it works from,    *)
(* unless a newer event is queued.                                         *)
(***************************************************************************)
WriteProgress(k) ==
    rpc[k] = "write" =>
        /\ desired[k] \in Listings(k)
        /\ \A n \in Names :
             IF n \in todo[k] THEN desired[k][n] # NoDoc
                              ELSE desired[k][n] \in {NoDoc, disk[k][n]}

DeleteProgress(k) ==
    rpc[k] = "delete" =>
        /\ desired[k] \in Listings(k)
        /\ \A n \in Names :
             desired[k][n] = IF n \in todo[k] THEN NoDoc ELSE disk[k][n]

RestProgress(k) ==
    rpc[k] = "finalize" \/ (rpc[k] = "idle" /\ (restarts = 0 \/ HasObjects(k)))
        => disk[k] \in Listings(k)

FilesInv ==
    /\ TypeOK
    /\ \A k \in Kinds :
         k \notin queued => WriteProgress(k) /\ DeleteProgress(k) /\ RestProgress(k)

-----------------------------------------------------------------------------
(* Type correctness.                                                       *)

\* Every action of the controllers and of the verifier keeps the types.
LEMMA TypeStep == TypeOK /\ [Next]_vars => TypeOK'
<1> SUFFICES ASSUME TypeOK, [Next]_vars PROVE TypeOK'
  OBVIOUS
<1> USE DocsAssumption, BoundsAssumption DEF MaybeDocs, NoFiles
<1>1. ASSUME NEW k \in Kinds, NEW n \in Names, Edit(k, n) PROVE TypeOK'
  <2>1. OneEdit(claims[k][n]) \subseteq SUBSET Docs
    <3>1. claims[k][n] \subseteq Docs
      BY DEF TypeOK
    <3> QED BY <3>1 DEF OneEdit
  <2>2. claims' \in [Kinds -> [Names -> SUBSET Docs]]
    BY <1>1, <2>1 DEF Edit, TypeOK
  <2> QED BY <1>1, <2>2 DEF TypeOK, Edit, workerVars, loaderVars
<1>2. ASSUME NEW k \in Kinds, Resync(k) PROVE TypeOK'
  BY <1>2 DEF TypeOK, Resync, workerVars, loaderVars
<1>3. ASSUME NEW k \in Kinds, Reconcile(k) PROVE TypeOK'
  BY <1>3 DEF TypeOK, Reconcile, loaderVars, counters
<1>4. ASSUME NEW k \in Kinds, List(k) PROVE TypeOK'
  BY <1>4 DEF TypeOK, List, Listings, apiVars, loaderVars, counters
<1>5. ASSUME NEW k \in Kinds, NEW n \in Names, WriteFile(k, n) PROVE TypeOK'
  <2>1. disk' \in [Kinds -> [Names -> MaybeDocs]]
    <3>1. disk' = disk \/ disk' = [disk EXCEPT ![k][n] = desired[k][n]]
      BY <1>5 DEF WriteFile
    <3>2. desired[k][n] \in MaybeDocs
      BY DEF TypeOK
    <3>3. CASE disk' = disk
      BY <3>3 DEF TypeOK
    <3>4. CASE disk' = [disk EXCEPT ![k][n] = desired[k][n]]
      BY <3>2, <3>4 DEF TypeOK
    <3> QED BY <3>1, <3>3, <3>4
  <2>2. changed' \in SUBSET Kinds /\ dirty' \in SUBSET Kinds
    BY <1>5 DEF TypeOK, WriteFile
  <2>3. todo' \in [Kinds -> SUBSET Names]
    BY <1>5 DEF TypeOK, WriteFile
  <2> QED
    BY <1>5, <2>1, <2>2, <2>3
       DEF TypeOK, WriteFile, apiVars, loaderVars, counters
<1>6. ASSUME NEW k \in Kinds, ScanDir(k) PROVE TypeOK'
  BY <1>6 DEF TypeOK, ScanDir, Stale, apiVars, loaderVars, counters
<1>7. ASSUME NEW k \in Kinds, NEW n \in Names, RemoveFile(k, n) PROVE TypeOK'
  <2>1. disk' \in [Kinds -> [Names -> MaybeDocs]]
    BY <1>7 DEF TypeOK, RemoveFile
  <2> QED BY <1>7, <2>1 DEF TypeOK, RemoveFile, apiVars, loaderVars, counters
<1>8. ASSUME NEW k \in Kinds, Notify(k) PROVE TypeOK'
  BY <1>8 DEF TypeOK, Notify, Notified, apiVars, loaderVars, counters
<1>9. ASSUME NEW k \in Kinds, ReconcileDone(k) PROVE TypeOK'
  BY <1>9 DEF TypeOK, ReconcileDone, apiVars, loaderVars, counters
<1>10. ASSUME NEW k \in Kinds, ReconcileError(k) PROVE TypeOK'
  BY <1>10 DEF TypeOK, ReconcileError, loaderVars
<1>11. CASE Receive
  BY <1>11 DEF TypeOK, Receive, apiVars, workerVars, counters
<1>12. CASE ReadDir
  BY <1>12 DEF TypeOK, ReadDir, apiVars, workerVars, counters
<1>13. ASSUME NEW n \in Names, LoadPolicy(n) PROVE TypeOK'
  BY <1>13 DEF TypeOK, LoadPolicy, apiVars, workerVars, counters
<1>14. ASSUME NEW n \in Names, RefuseRefresh(n) PROVE TypeOK'
  BY <1>14 DEF TypeOK, RefuseRefresh, AfterFailedRefresh, apiVars, workerVars,
               counters
<1>15. CASE SwapVerifiers
  BY <1>15 DEF TypeOK, SwapVerifiers, apiVars, workerVars, counters
<1>16. CASE ClearCache
  BY <1>16 DEF TypeOK, ClearCache, apiVars, workerVars, counters
<1>17. CASE RefreshError
  BY <1>17 DEF TypeOK, RefreshError, AfterFailedRefresh, apiVars, workerVars
<1>18. CASE Restart
  <2>1. claims' \in [Kinds -> [Names -> SUBSET Docs]] /\ queued' \in SUBSET Kinds
    BY <1>18 DEF TypeOK, Restart, Relisted
  <2>2. /\ rpc' \in [Kinds -> {"idle", "list", "write", "delete", "finalize"}]
        /\ desired' \in [Kinds -> [Names -> MaybeDocs]]
        /\ todo' \in [Kinds -> SUBSET Names]
        /\ changed' \in SUBSET Kinds
    BY <1>18 DEF TypeOK, Restart
  <2>3. building' \in [Names -> MaybeDocs] /\ verifiers' \in [Names -> MaybeDocs]
    BY <1>18 DEF Restart
  <2>4. /\ disk' \in [Kinds -> [Names -> MaybeDocs]]
        /\ channel' \in {0, 1}
        /\ lpc' \in {"idle", "read", "load", "clear"}
    BY <1>18 DEF TypeOK, Restart
  <2>5. /\ serving' \in BOOLEAN
        /\ pending' \in SUBSET Names
        /\ dirty' \in SUBSET Kinds
        /\ lost' \in SUBSET {"sync", "reload"}
    BY <1>18 DEF Restart
  <2>6. events' \in Nat /\ faults' \in Nat /\ restarts' \in Nat
    BY <1>18 DEF TypeOK, Restart
  <2> QED BY <2>1, <2>2, <2>3, <2>4, <2>5, <2>6 DEF TypeOK
<1>19. CASE UNCHANGED vars
  BY <1>19 DEF TypeOK, vars, apiVars, workerVars, loaderVars, counters
<1> QED
  BY <1>1, <1>2, <1>3, <1>4, <1>5, <1>6, <1>7, <1>8, <1>9, <1>10, <1>11, <1>12,
     <1>13, <1>14, <1>15, <1>16, <1>17, <1>18, <1>19
     DEF Next, WorkerStep, LoaderStep, Wait

\* TypeOK holds of the initial state: NewVerifier has not loaded anything yet.
LEMMA TypeInit == Init => TypeOK
<1> SUFFICES ASSUME Init PROVE TypeOK
  OBVIOUS
<1> USE DEF Init, MaybeDocs, NoFiles
<1>1. claims \in [Kinds -> [Names -> SUBSET Docs]] /\ queued \in SUBSET Kinds
  OBVIOUS
<1>2. /\ rpc \in [Kinds -> {"idle", "list", "write", "delete", "finalize"}]
      /\ todo \in [Kinds -> SUBSET Names]
      /\ changed \in SUBSET Kinds
  OBVIOUS
<1>3. /\ desired \in [Kinds -> [Names -> MaybeDocs]]
      /\ disk \in [Kinds -> [Names -> MaybeDocs]]
      /\ building \in [Names -> MaybeDocs]
      /\ verifiers \in [Names -> MaybeDocs]
  OBVIOUS
<1> QED BY <1>1, <1>2, <1>3 DEF TypeOK

\* The types of the state of controllers, channel and loader never change.
THEOREM TypeCorrect == Spec => []TypeOK
BY TypeInit, TypeStep, PTL DEF Spec

-----------------------------------------------------------------------------
(* No update is lost.                                                      *)

\* A step that leaves files and loader alone, and does not make the replica
\* quiet, keeps them in agreement.
LEMMA LoaderUnmoved ==
    ASSUME Quiet => Agrees, Quiet' => Quiet, UNCHANGED <<disk, loaderVars, dirty>>
    PROVE  Quiet' => Agrees'
BY DEF Agrees, LoadAgrees, ClearAgrees, IdleAgrees, Blocked, InForce, loaderVars

\* The same for the steps of API and workers: a worker that changes a file
\* raises its changed flag, and gives it up only for a notification in the
\* channel or, on an error, for an entry in lost.
LEMMA WorkerReload ==
    ASSUME ReloadInv, NEW k \in Kinds,
           \/ \E n \in Names : Edit(k, n)
           \/ Resync(k)
           \/ WorkerStep(k)
           \/ ReconcileError(k)
    PROVE  ChangedInSync' /\ (Quiet' => Agrees')
<1> USE DEF ReloadInv
<1>1. ASSUME NEW n \in Names, Edit(k, n)
      PROVE  ChangedInSync' /\ (Quiet' => Agrees')
  <2>1. ChangedInSync'
    BY <1>1 DEF Edit, ChangedInSync, workerVars
  <2>2. Quiet' => Quiet
    BY <1>1 DEF Edit, Quiet, workerVars
  <2>3. UNCHANGED <<disk, loaderVars, dirty>>
    BY <1>1 DEF Edit
  <2> QED BY <2>1, <2>2, <2>3, LoaderUnmoved
<1>2. ASSUME Resync(k)
      PROVE  ChangedInSync' /\ (Quiet' => Agrees')
  <2>1. ChangedInSync'
    BY <1>2 DEF Resync, ChangedInSync, workerVars
  <2>2. Quiet' => Quiet
    BY <1>2 DEF Resync, Quiet, workerVars
  <2>3. UNCHANGED <<disk, loaderVars, dirty>>
    BY <1>2 DEF Resync
  <2> QED BY <2>1, <2>2, <2>3, LoaderUnmoved
<1>3. ASSUME Reconcile(k)
      PROVE  ChangedInSync' /\ (Quiet' => Agrees')
  <2>1. ChangedInSync'
    BY <1>3 DEF Reconcile, ChangedInSync, TypeOK
  <2>2. Quiet' => Quiet
    BY <1>3 DEF Reconcile, Quiet
  <2>3. UNCHANGED <<disk, loaderVars, dirty>>
    BY <1>3 DEF Reconcile
  <2> QED BY <2>1, <2>2, <2>3, LoaderUnmoved
<1>4. ASSUME List(k)
      PROVE  ChangedInSync' /\ (Quiet' => Agrees')
  <2>1. k \notin changed
    BY <1>4 DEF List, ChangedInSync
  <2>2. ChangedInSync'
    BY <1>4 DEF List, ChangedInSync, TypeOK
  <2>3. Quiet' => Quiet
    BY <1>4, <2>1 DEF List, Quiet
  <2>4. UNCHANGED <<disk, loaderVars, dirty>>
    BY <1>4 DEF List
  <2> QED BY <2>2, <2>3, <2>4, LoaderUnmoved
<1>5. ASSUME NEW n \in Names, WriteFile(k, n)
      PROVE  ChangedInSync' /\ (Quiet' => Agrees')
  <2>1. ChangedInSync'
    BY <1>5 DEF WriteFile, ChangedInSync
  <2>2. CASE disk[k][n] = desired[k][n]
    <3>1. UNCHANGED <<disk, changed, dirty, channel, lost, loaderVars>>
      BY <1>5, <2>2 DEF WriteFile
    <3>2. Quiet' => Quiet
      BY <3>1 DEF Quiet
    <3> QED BY <2>1, <3>1, <3>2, LoaderUnmoved
  <2>3. CASE disk[k][n] # desired[k][n]
    <3>1. k \in changed'
      BY <1>5, <2>3 DEF WriteFile
    <3> QED BY <2>1, <3>1 DEF Quiet
  <2> QED BY <2>2, <2>3
<1>6. ASSUME ScanDir(k)
      PROVE  ChangedInSync' /\ (Quiet' => Agrees')
  <2>1. ChangedInSync'
    BY <1>6 DEF ScanDir, ChangedInSync, TypeOK
  <2>2. Quiet' => Quiet
    BY <1>6 DEF ScanDir, Quiet
  <2>3. UNCHANGED <<disk, loaderVars, dirty>>
    BY <1>6 DEF ScanDir
  <2> QED BY <2>1, <2>2, <2>3, LoaderUnmoved
<1>7. ASSUME NEW n \in Names, RemoveFile(k, n)
      PROVE  ChangedInSync' /\ (Quiet' => Agrees')
  <2>1. ChangedInSync'
    BY <1>7 DEF RemoveFile, ChangedInSync
  <2>2. k \in changed'
    BY <1>7 DEF RemoveFile
  <2> QED BY <2>1, <2>2 DEF Quiet
<1>8. ASSUME Notify(k)
      PROVE  ChangedInSync' /\ (Quiet' => Agrees')
  <2>1. ChangedInSync'
    BY <1>8 DEF Notify, ChangedInSync, TypeOK
  <2>2. Quiet' => Quiet
    BY <1>8 DEF Notify, Notified, Quiet
  <2>3. UNCHANGED <<disk, loaderVars, dirty>>
    BY <1>8 DEF Notify, Notified
  <2> QED BY <2>1, <2>2, <2>3, LoaderUnmoved
<1>9. ASSUME ReconcileDone(k)
      PROVE  ChangedInSync' /\ (Quiet' => Agrees')
  <2>1. ChangedInSync'
    BY <1>9 DEF ReconcileDone, ChangedInSync, TypeOK
  <2>2. Quiet' => Quiet
    BY <1>9 DEF ReconcileDone, Quiet
  <2>3. UNCHANGED <<disk, loaderVars, dirty>>
    BY <1>9 DEF ReconcileDone
  <2> QED BY <2>1, <2>2, <2>3, LoaderUnmoved
<1>10. ASSUME ReconcileError(k)
       PROVE  ChangedInSync' /\ (Quiet' => Agrees')
  <2>1. ChangedInSync'
    BY <1>10 DEF ReconcileError, ChangedInSync, TypeOK
  <2>2. Quiet' => Quiet
    BY <1>10 DEF ReconcileError, Quiet
  <2>3. UNCHANGED <<disk, loaderVars, dirty>>
    BY <1>10 DEF ReconcileError
  <2> QED BY <2>1, <2>2, <2>3, LoaderUnmoved
<1> QED
  BY <1>1, <1>2, <1>3, <1>4, <1>5, <1>6, <1>7, <1>8, <1>9, <1>10 DEF WorkerStep

\* The steps of the loader: ReadDir starts from the files as they are, each
\* load copies one of them, and a reload that meets a missing file is not quiet.
LEMMA LoaderReload ==
    ASSUME ReloadInv, LoaderStep \/ RefreshError \/ Restart
    PROVE  ChangedInSync' /\ (Quiet' => Agrees')
<1> USE DEF ReloadInv
<1>1. ASSUME Receive PROVE ChangedInSync' /\ (Quiet' => Agrees')
  BY <1>1 DEF Receive, ChangedInSync, Agrees, LoadAgrees, ClearAgrees,
              IdleAgrees, workerVars
<1>2. ASSUME ReadDir PROVE ChangedInSync' /\ (Quiet' => Agrees')
  <2>1. ChangedInSync'
    BY <1>2 DEF ReadDir, ChangedInSync, workerVars
  <2>2. LoadAgrees'
    BY <1>2 DEF ReadDir, LoadAgrees, NoFiles
  <2>3. ClearAgrees' /\ IdleAgrees'
    BY <1>2 DEF ReadDir, ClearAgrees, IdleAgrees
  <2> QED BY <2>1, <2>2, <2>3 DEF Agrees
<1>3. ASSUME NEW n \in Names, LoadPolicy(n)
      PROVE  ChangedInSync' /\ (Quiet' => Agrees')
  <2>1. ChangedInSync' /\ (Quiet' => Quiet)
    BY <1>3 DEF LoadPolicy, ChangedInSync, Quiet, workerVars
  <2>2. LoadAgrees => LoadAgrees'
    BY <1>3 DEF LoadPolicy, LoadAgrees, TypeOK
  <2>3. ClearAgrees' /\ IdleAgrees'
    BY <1>3 DEF LoadPolicy, ClearAgrees, IdleAgrees
  <2> QED BY <2>1, <2>2, <2>3 DEF Agrees
<1>4. ASSUME NEW n \in Names, RefuseRefresh(n)
      PROVE  ChangedInSync' /\ (Quiet' => Agrees')
  <2>1. ChangedInSync' /\ (Quiet' => Quiet)
    BY <1>4 DEF RefuseRefresh, ChangedInSync, Quiet, workerVars
  <2>2. LoadAgrees' /\ ClearAgrees'
    BY <1>4 DEF RefuseRefresh, AfterFailedRefresh, LoadAgrees, ClearAgrees
  <2>3. Quiet => Blocked'
    BY <1>4 DEF RefuseRefresh, Agrees, LoadAgrees, Blocked
  <2> QED BY <2>1, <2>2, <2>3 DEF Agrees, IdleAgrees
<1>5. ASSUME SwapVerifiers PROVE ChangedInSync' /\ (Quiet' => Agrees')
  <2>1. ChangedInSync' /\ (Quiet' => Quiet)
    BY <1>5 DEF SwapVerifiers, ChangedInSync, Quiet, workerVars
  <2>2. LoadAgrees'
    BY <1>5 DEF SwapVerifiers, LoadAgrees
  <2>3. Quiet => verifiers' = disk'[TP]
    <3>1. Quiet => \A n \in Names : building[n] = disk[TP][n]
      BY <1>5 DEF SwapVerifiers, Agrees, LoadAgrees
    <3>2. building \in [Names -> MaybeDocs] /\ disk[TP] \in [Names -> MaybeDocs]
      BY DEF TypeOK, Kinds
    <3>3. Quiet => building = disk[TP]
      BY <3>1, <3>2
    <3> QED BY <1>5, <3>3 DEF SwapVerifiers
  <2>4. lpc' = "idle" => dirty' = {}
    BY <1>5 DEF SwapVerifiers
  <2> QED BY <2>1, <2>2, <2>3, <2>4 DEF Agrees, ClearAgrees, IdleAgrees, InForce
<1>6. ASSUME ClearCache PROVE ChangedInSync' /\ (Quiet' => Agrees')
  <2>1. ChangedInSync' /\ (Quiet' => Quiet)
    BY <1>6 DEF ClearCache, ChangedInSync, Quiet, workerVars
  <2>2. LoadAgrees' /\ ClearAgrees'
    BY <1>6 DEF ClearCache, LoadAgrees, ClearAgrees
  <2>3. Quiet => InForce'
    BY <1>6 DEF ClearCache, Agrees, ClearAgrees, InForce
  <2> QED BY <2>1, <2>2, <2>3 DEF Agrees, IdleAgrees
<1>7. ASSUME RefreshError PROVE ChangedInSync' /\ (Quiet' => Agrees')
  <2>1. ChangedInSync'
    BY <1>7 DEF RefreshError, ChangedInSync, workerVars
  <2>2. CASE serving
    <3>1. lost' # {}
      BY <1>7, <2>2 DEF RefreshError
    <3> QED BY <2>1, <3>1 DEF Quiet
  <2>3. CASE ~serving
    <3>1. lpc' = "read"
      BY <1>7, <2>3 DEF RefreshError, AfterFailedRefresh
    <3> QED BY <2>1, <3>1 DEF Agrees, LoadAgrees, ClearAgrees, IdleAgrees
  <2> QED BY <2>2, <2>3
<1>8. ASSUME Restart PROVE ChangedInSync' /\ (Quiet' => Agrees')
  <2>1. changed' = {} /\ lpc' = "read"
    BY <1>8 DEF Restart
  <2> QED
    BY <2>1 DEF ChangedInSync, Agrees, LoadAgrees, ClearAgrees, IdleAgrees
<1> QED
  BY <1>1, <1>2, <1>3, <1>4, <1>5, <1>6, <1>7, <1>8 DEF LoaderStep

\* ReloadInv is inductive.
LEMMA ReloadStep == ReloadInv /\ [Next]_vars => ReloadInv'
<1> SUFFICES ASSUME ReloadInv, [Next]_vars PROVE ReloadInv'
  OBVIOUS
<1>1. TypeOK'
  BY TypeStep DEF ReloadInv
<1>2. ASSUME UNCHANGED vars PROVE ChangedInSync' /\ (Quiet' => Agrees')
  <2>1. ChangedInSync' /\ (Quiet' => Quiet)
    BY <1>2 DEF vars, workerVars, ChangedInSync, Quiet, ReloadInv
  <2>2. UNCHANGED <<disk, loaderVars, dirty>>
    BY <1>2 DEF vars
  <2> QED BY <2>1, <2>2, LoaderUnmoved DEF ReloadInv
<1>3. CASE UNCHANGED vars \/ Wait
  BY <1>1, <1>2, <1>3 DEF Wait, ReloadInv
<1>4. CASE \E k \in Kinds : \/ \E n \in Names : Edit(k, n)
                            \/ Resync(k)
                            \/ WorkerStep(k)
                            \/ ReconcileError(k)
  BY <1>1, <1>4, WorkerReload DEF ReloadInv
<1>5. CASE LoaderStep \/ RefreshError \/ Restart
  BY <1>1, <1>5, LoaderReload DEF ReloadInv
<1> QED
  BY <1>3, <1>4, <1>5 DEF Next

\* Whatever the names, the contents and the number of events, errors and
\* restarts: a replica at rest has its files in force unless an error lost an
\* update or a malformed policy blocks reloading.  The channel of capacity one
\* and its non-blocking send are enough.
THEOREM NoLostReloadHolds == Spec => []NoLostReload
<1>1. Init => ReloadInv
  BY TypeInit DEF Init, ReloadInv, ChangedInSync, Agrees, LoadAgrees, ClearAgrees,
                  IdleAgrees
<1>2. ReloadInv => NoLostReload
  <2> SUFFICES ASSUME ReloadInv, Settled, lost = {}, ~Blocked PROVE InForce
    BY DEF NoLostReload
  <2>1. changed = {}
    BY DEF ReloadInv, TypeOK, ChangedInSync, Settled, WorkerIdle
  <2>2. Agrees
    BY <2>1 DEF ReloadInv, Quiet, Settled
  <2> QED BY <2>2 DEF Agrees, IdleAgrees, Settled
<1> QED
  BY <1>1, <1>2, ReloadStep, PTL DEF Spec

-----------------------------------------------------------------------------
(* The files follow the objects.                                           *)

Progress(k) == WriteProgress(k) /\ DeleteProgress(k) /\ RestProgress(k)

\* A step that leaves the objects and the files of controller k and its worker
\* alone, and does not take a request from its queue, keeps its progress.
LEMMA ProgressUnmoved ==
    ASSUME NEW k \in Kinds, k \notin queued => Progress(k),
           k \notin queued' => k \notin queued,
           claims'[k] = claims[k], disk'[k] = disk[k], rpc'[k] = rpc[k],
           desired'[k] = desired[k], todo'[k] = todo[k], restarts' = restarts
    PROVE  k \notin queued' => Progress(k)'
BY DEF Progress, WriteProgress, DeleteProgress, RestProgress, Listings, HasObjects

\* FilesInv is inductive: events queue a request, the worker works off the
\* list it took, and an error or a restart queues a request again.
LEMMA FilesStep == FilesInv /\ [Next]_vars => FilesInv'
<1> SUFFICES ASSUME FilesInv, [Next]_vars PROVE FilesInv'
  OBVIOUS
<1>1. TypeOK'
  BY TypeStep DEF FilesInv
<1> SUFFICES ASSUME NEW k \in Kinds, k \notin queued' PROVE Progress(k)'
  BY <1>1 DEF FilesInv, Progress
<1>2. TypeOK /\ (k \notin queued => Progress(k))
  BY DEF FilesInv, Progress
<1>3. ASSUME NEW c \in Kinds, NEW n \in Names, Edit(c, n) PROVE Progress(k)'
  <2>1. c # k
    BY <1>3 DEF Edit
  <2>2. claims'[k] = claims[k]
    BY <1>2, <1>3, <2>1 DEF Edit, TypeOK
  <2> QED BY <1>2, <1>3, <2>1, <2>2, ProgressUnmoved DEF Edit, workerVars
<1>4. ASSUME NEW c \in Kinds, Resync(c) PROVE Progress(k)'
  BY <1>2, <1>4, ProgressUnmoved DEF Resync, workerVars
<1>5. ASSUME NEW c \in Kinds, c # k, WorkerStep(c) \/ ReconcileError(c)
      PROVE  Progress(k)'
  <2>1. /\ claims' = claims /\ disk'[k] = disk[k] /\ rpc'[k] = rpc[k]
        /\ desired'[k] = desired[k] /\ todo'[k] = todo[k] /\ restarts' = restarts
    BY <1>2, <1>5
       DEF WorkerStep, Reconcile, List, WriteFile, ScanDir, RemoveFile, Notify,
           ReconcileDone, ReconcileError, TypeOK, apiVars, counters
  <2>2. k \notin queued
    BY <1>5
       DEF WorkerStep, Reconcile, List, WriteFile, ScanDir, RemoveFile, Notify,
           ReconcileDone, ReconcileError, apiVars
  <2> QED BY <1>2, <2>1, <2>2, ProgressUnmoved
<1>6. ASSUME Reconcile(k) PROVE Progress(k)'
  BY <1>2, <1>6
     DEF Reconcile, Progress, WriteProgress, DeleteProgress, RestProgress, TypeOK
<1>7. ASSUME List(k) PROVE Progress(k)'
  <2>1. PICK f \in Listings(k) :
          /\ desired' = [desired EXCEPT ![k] = f]
          /\ todo' = [todo EXCEPT ![k] = {n \in Names : f[n] # NoDoc}]
    BY <1>7 DEF List
  <2>2. /\ desired'[k] = f /\ todo'[k] = {n \in Names : f[n] # NoDoc}
        /\ rpc'[k] = "write"
    BY <1>2, <1>7, <2>1 DEF List, TypeOK
  <2>3. Listings(k)' = Listings(k)
    BY <1>7 DEF List, Listings, apiVars
  <2> QED
    BY <2>2, <2>3 DEF Progress, WriteProgress, DeleteProgress, RestProgress
<1>8. ASSUME NEW n \in Names, WriteFile(k, n) PROVE Progress(k)'
  <2>1. /\ rpc'[k] = "write" /\ rpc[k] = "write" /\ desired' = desired
        /\ k \notin queued /\ n \in todo[k] /\ todo'[k] = todo[k] \ {n}
    BY <1>2, <1>8 DEF WriteFile, TypeOK, apiVars
  <2>2. disk'[k][n] = desired[k][n]
    BY <1>2, <1>8 DEF WriteFile, TypeOK
  <2>3. \A m \in Names \ {n} : disk'[k][m] = disk[k][m]
    BY <1>2, <1>8 DEF WriteFile, TypeOK
  <2>4. Listings(k)' = Listings(k)
    BY <1>8 DEF WriteFile, Listings, apiVars
  <2> QED
    BY <1>2, <2>1, <2>2, <2>3, <2>4
       DEF Progress, WriteProgress, DeleteProgress, RestProgress
<1>9. ASSUME ScanDir(k) PROVE Progress(k)'
  <2>1. /\ rpc[k] = "write" /\ rpc'[k] = "delete" /\ todo[k] = {}
        /\ todo'[k] = {n \in Names : disk[k][n] # NoDoc /\ desired[k][n] = NoDoc}
        /\ desired' = desired /\ disk' = disk /\ k \notin queued
    BY <1>2, <1>9 DEF ScanDir, Stale, TypeOK, apiVars
  <2>2. Listings(k)' = Listings(k)
    BY <1>9 DEF ScanDir, Listings, apiVars
  <2> QED
    BY <1>2, <2>1, <2>2
       DEF Progress, WriteProgress, DeleteProgress, RestProgress
<1>10. ASSUME NEW n \in Names, RemoveFile(k, n) PROVE Progress(k)'
  <2>1. /\ rpc'[k] = "delete" /\ rpc[k] = "delete" /\ desired' = desired
        /\ k \notin queued /\ n \in todo[k] /\ todo'[k] = todo[k] \ {n}
    BY <1>2, <1>10 DEF RemoveFile, TypeOK, apiVars
  <2>2. disk'[k][n] = NoDoc
    BY <1>2, <1>10 DEF RemoveFile, TypeOK
  <2>3. \A m \in Names \ {n} : disk'[k][m] = disk[k][m]
    BY <1>2, <1>10 DEF RemoveFile, TypeOK
  <2>4. Listings(k)' = Listings(k)
    BY <1>10 DEF RemoveFile, Listings, apiVars
  <2> QED
    BY <1>2, <2>1, <2>2, <2>3, <2>4
       DEF Progress, WriteProgress, DeleteProgress, RestProgress
<1>11. ASSUME Notify(k) PROVE Progress(k)'
  <2>1. /\ rpc[k] = "delete" /\ rpc'[k] = "finalize" /\ todo[k] = {}
        /\ desired' = desired /\ disk' = disk /\ k \notin queued
    BY <1>2, <1>11 DEF Notify, TypeOK, apiVars
  <2>2. Listings(k)' = Listings(k)
    BY <1>11 DEF Notify, Listings, apiVars
  <2>3. \A n \in Names : disk[k][n] = desired[k][n]
    BY <1>2, <2>1 DEF Progress, DeleteProgress
  <2>4. disk[k] = desired[k]
    BY <1>2, <2>3 DEF TypeOK
  <2> QED
    BY <1>2, <2>1, <2>2, <2>4
       DEF Progress, WriteProgress, DeleteProgress, RestProgress
<1>12. ASSUME ReconcileDone(k) PROVE Progress(k)'
  <2>1. /\ rpc[k] = "finalize" /\ rpc'[k] = "idle" /\ disk' = disk
        /\ k \notin queued
    BY <1>2, <1>12 DEF ReconcileDone, TypeOK, apiVars
  <2>2. Listings(k)' = Listings(k)
    BY <1>12 DEF ReconcileDone, Listings, apiVars
  <2> QED
    BY <1>2, <2>1, <2>2
       DEF Progress, WriteProgress, DeleteProgress, RestProgress
<1>13. ~ReconcileError(k)
  BY DEF ReconcileError
<1>14. CASE LoaderStep \/ RefreshError
  <2>1. /\ claims' = claims /\ disk' = disk /\ rpc' = rpc /\ desired' = desired
        /\ todo' = todo /\ restarts' = restarts /\ queued' = queued
    BY <1>14
       DEF LoaderStep, Receive, ReadDir, LoadPolicy, RefuseRefresh, SwapVerifiers,
           ClearCache, RefreshError, apiVars, workerVars, counters
  <2> QED BY <1>2, <2>1, ProgressUnmoved
<1>15. CASE Restart
  <2>1. ~HasObjects(k)' /\ rpc'[k] = "idle" /\ restarts' # 0
    BY <1>2, <1>15 DEF Restart, Relisted, HasObjects, TypeOK
  <2> QED BY <2>1 DEF Progress, WriteProgress, DeleteProgress, RestProgress
<1>16. CASE UNCHANGED vars \/ Wait
  BY <1>2, <1>16, ProgressUnmoved DEF Wait, vars, apiVars, workerVars, counters
<1>17. ASSUME WorkerStep(k) PROVE Progress(k)'
  BY <1>6, <1>7, <1>8, <1>9, <1>10, <1>11, <1>12, <1>17 DEF WorkerStep
<1> QED
  BY <1>3, <1>4, <1>5, <1>13, <1>14, <1>15, <1>16, <1>17 DEF Next

\* Whatever errors and restarts interrupt the syncs: when a controller is at
\* rest the files of its kind are those of its live objects, provided that,
\* after a restart, there is an object left to reconcile.
THEOREM FilesFollowObjectsHolds == Spec => []FilesFollowObjects
<1>1. Init => FilesInv
  <2> SUFFICES ASSUME Init, NEW k \in Kinds PROVE Progress(k)
    BY TypeInit DEF FilesInv, Progress
  <2>1. rpc[k] = "idle" /\ disk[k] = NoFiles /\ \A n \in Names : claims[k][n] = {}
    BY DEF Init
  <2>2. disk[k] \in Listings(k)
    BY <2>1 DEF Listings, NoFiles, MaybeDocs
  <2> QED BY <2>1, <2>2 DEF Progress, WriteProgress, DeleteProgress, RestProgress
<1>2. FilesInv => FilesFollowObjects
  BY DEF FilesInv, RestProgress, FilesFollowObjects, WorkerIdle
<1> QED
  BY <1>1, <1>2, FilesStep, PTL DEF Spec
=============================================================================
