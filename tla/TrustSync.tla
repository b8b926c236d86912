----------------------------- MODULE TrustSync -----------------------------
(***************************************************************************)
(* How a TrustPolicy or TrustStore object reaches the verifier of one      *)
(* replica.  Two controller workers copy the objects of the informer cache *)
(* to files, a channel of capacity one tells the main loop that files have *)
(* changed, and the main loop rebuilds the notation verifiers from the     *)
(* files and clears the verification cache.  Nothing but that channel      *)
(* connects the files to the verifiers, so an update whose notification is *)
(* lost is not seen before the next one.                                   *)
(***************************************************************************)
EXTENDS Naturals

CONSTANTS
    Names,      \* trust policy names, and "<type>/<name>" of trust stores
    Docs,       \* contents of a policy or of a CA bundle
    NoDoc,      \* no such file, no such verifier
    Malformed,  \* the contents that RefreshVerifiers rejects
    MaxEvents,  \* bound on the API events
    MaxFaults,  \* bound on the API and I/O errors
    MaxRestarts \* bound on the container restarts

ASSUME DocsAssumption == NoDoc \notin Docs /\ Malformed \subseteq Docs

ASSUME BoundsAssumption ==
    MaxEvents \in Nat /\ MaxFaults \in Nat /\ MaxRestarts \in Nat

TP == "TrustPolicy"
TS == "TrustStore"
Kinds == {TP, TS}

VARIABLES
    \* The informer cache and the workqueues
    claims,     \* claims[k][n]: contents that the live objects give to n
    queued,     \* controllers with a reconcile request in the workqueue
    \* The worker of each controller
    rpc,        \* where Reconcile is
    desired,    \* the map that sync built from the list
    todo,       \* files still to write, or still to delete
    changed,    \* controllers whose sync has written or deleted a file
    \* The notation directory and CRDChangeInformer
    disk,       \* disk[k][n]: content of the file of n
    channel,    \* number of notifications in the channel
    \* The main loop and the verifier factory
    lpc,        \* where the (re)load is
    serving,    \* NewVerifier has returned
    pending,    \* files that RefreshVerifiers has still to load
    building,   \* the verifier map under construction
    verifiers,  \* the map that requests use
    \* History
    dirty,      \* kinds whose files changed since the cache was last cleared
    lost,       \* which errors dropped an update since the last ReadDir
    events, faults, restarts

apiVars    == <<claims, queued>>
workerVars == <<rpc, desired, todo, changed>>
loaderVars == <<lpc, serving, pending, building, verifiers>>
counters   == <<events, faults, restarts>>
vars == <<apiVars, workerVars, disk, channel, loaderVars, dirty, lost,
          counters>>

MaybeDocs == Docs \cup {NoDoc}
NoFiles == [n \in Names |-> NoDoc]

TypeOK ==
    /\ claims \in [Kinds -> [Names -> SUBSET Docs]]
    /\ queued \in SUBSET Kinds
    /\ rpc \in [Kinds -> {"idle", "list", "write", "delete", "finalize"}]
    /\ desired \in [Kinds -> [Names -> MaybeDocs]]
    /\ todo \in [Kinds -> SUBSET Names]
    /\ changed \in SUBSET Kinds
    /\ disk \in [Kinds -> [Names -> MaybeDocs]]
    /\ channel \in {0, 1}
    /\ lpc \in {"idle", "read", "load", "clear"}
    /\ serving \in BOOLEAN
    /\ pending \in SUBSET Names
    /\ building \in [Names -> MaybeDocs]
    /\ verifiers \in [Names -> MaybeDocs]
    /\ dirty \in SUBSET Kinds
    /\ lost \in SUBSET {"sync", "reload"}
    /\ events \in Nat /\ faults \in Nat /\ restarts \in Nat

(***************************************************************************)
(* The process starts with NewVerifier loading whatever the directory      *)
(* holds; an empty cluster has no objects and no files.                    *)
(***************************************************************************)
Init ==
    /\ claims = [k \in Kinds |-> [n \in Names |-> {}]]
    /\ queued = {}
    /\ rpc = [k \in Kinds |-> "idle"]
    /\ desired = [k \in Kinds |-> NoFiles]
    /\ todo = [k \in Kinds |-> {}]
    /\ changed = {}
    /\ disk = [k \in Kinds |-> NoFiles]
    /\ channel = 0
    /\ lpc = "read"
    /\ serving = FALSE
    /\ pending = {}
    /\ building = NoFiles
    /\ verifiers = NoFiles
    /\ dirty = {}
    /\ lost = {}
    /\ events = 0 /\ faults = 0 /\ restarts = 0

-----------------------------------------------------------------------------
(* API events.  Names are not unique across objects: claims[k][n] may hold *)
(* the contents of several.                                                *)

HasObjects(k) == \E n \in Names : claims[k][n] # {}

\* One object is created, deleted (or marked for deletion) or edited.
OneEdit(S) ==
    {S \cup {d} : d \in Docs} \cup {S \ {d} : d \in Docs} \cup
    {(S \ {d}) \cup {e} : d \in S, e \in Docs}

Edit(k, n) ==
    /\ events < MaxEvents
    /\ \E S \in OneEdit(claims[k][n]) :
         S # claims[k][n] /\ claims' = [claims EXCEPT ![k][n] = S]
    /\ queued' = queued \cup {k}
    /\ events' = events + 1
    /\ UNCHANGED <<workerVars, disk, channel, loaderVars, dirty, lost,
                   faults, restarts>>

\* The periodic resync, or an update that leaves the spec alone.
Resync(k) ==
    /\ events < MaxEvents
    /\ HasObjects(k)
    /\ k \notin queued
    /\ queued' = queued \cup {k}
    /\ events' = events + 1
    /\ UNCHANGED <<claims, workerVars, disk, channel, loaderVars, dirty,
                   lost, faults, restarts>>

-----------------------------------------------------------------------------
(* The worker of controller k.                                             *)

Reconcile(k) ==
    /\ rpc[k] = "idle"
    /\ k \in queued
    /\ queued' = queued \ {k}
    /\ rpc' = [rpc EXCEPT ![k] = "list"]
    /\ UNCHANGED <<claims, desired, todo, changed, disk, channel, loaderVars,
                   dirty, lost, counters>>

\* The maps that sync can build: when several live objects have the same
\* name, the last one in list order wins, and the informer lists in any order.
Listings(k) ==
    {f \in [Names -> MaybeDocs] :
        \A n \in Names : IF claims[k][n] = {} THEN f[n] = NoDoc
                                              ELSE f[n] \in claims[k][n]}

List(k) ==
    /\ rpc[k] = "list"
    /\ \E f \in Listings(k) :
         /\ desired' = [desired EXCEPT ![k] = f]
         /\ todo' = [todo EXCEPT ![k] = {n \in Names : f[n] # NoDoc}]
    /\ changed' = changed \ {k}
    /\ rpc' = [rpc EXCEPT ![k] = "write"]
    /\ UNCHANGED <<apiVars, disk, channel, loaderVars, dirty, lost,
                   counters>>

\* writeFileIfChanged replaces the file by a rename.
WriteFile(k, n) ==
    /\ rpc[k] = "write"
    /\ n \in todo[k]
    /\ todo' = [todo EXCEPT ![k] = @ \ {n}]
    /\ IF disk[k][n] = desired[k][n]
       THEN UNCHANGED <<disk, changed, dirty>>
       ELSE /\ disk' = [disk EXCEPT ![k][n] = desired[k][n]]
            /\ changed' = changed \cup {k}
            /\ dirty' = dirty \cup {k}
    /\ UNCHANGED <<apiVars, rpc, desired, channel, loaderVars, lost,
                   counters>>

\* Mutant of Stale: files of deleted objects stay.
StaleIgnored(k) == {}

Stale(k) == {n \in Names : disk[k][n] # NoDoc /\ desired[k][n] = NoDoc}

ScanDir(k) ==
    /\ rpc[k] = "write"
    /\ todo[k] = {}
    /\ todo' = [todo EXCEPT ![k] = Stale(k)]
    /\ rpc' = [rpc EXCEPT ![k] = "delete"]
    /\ UNCHANGED <<apiVars, desired, changed, disk, channel, loaderVars, dirty,
                   lost, counters>>

RemoveFile(k, n) ==
    /\ rpc[k] = "delete"
    /\ n \in todo[k]
    /\ todo' = [todo EXCEPT ![k] = @ \ {n}]
    /\ disk' = [disk EXCEPT ![k][n] = NoDoc]
    /\ changed' = changed \cup {k}
    /\ dirty' = dirty \cup {k}
    /\ UNCHANGED <<apiVars, rpc, desired, channel, loaderVars, lost,
                   counters>>

\* Mutants of Notified: the channel has no capacity, so that a notification gets
\* through only when the main loop waits for it; notifications pile up.
NotifiedUnbuffered(k) ==
    IF k \in changed /\ serving /\ lpc = "idle" THEN 1 ELSE channel

NotifiedUnbounded(k) == IF k \in changed THEN channel + 1 ELSE channel

\* notify does not block when the channel is full.
Notified(k) == IF k \in changed THEN 1 ELSE channel

\* sync returns without an error.
Notify(k) ==
    /\ rpc[k] = "delete"
    /\ todo[k] = {}
    /\ channel' = Notified(k)
    /\ changed' = changed \ {k}
    /\ rpc' = [rpc EXCEPT ![k] = "finalize"]
    /\ UNCHANGED <<apiVars, desired, todo, disk, loaderVars, dirty, lost,
                   counters>>

\* The finalizer update, if any, succeeds and Reconcile returns.
ReconcileDone(k) ==
    /\ rpc[k] = "finalize"
    /\ rpc' = [rpc EXCEPT ![k] = "idle"]
    /\ UNCHANGED <<apiVars, desired, todo, changed, disk, channel, loaderVars,
                   dirty, lost, counters>>

\* An API call or a file operation fails: Reconcile returns the error, the
\* request is put back, and what sync knew of its changes is forgotten.
ReconcileError(k) ==
    /\ faults < MaxFaults
    /\ \/ rpc[k] \in {"list", "write", "finalize"}
       \/ rpc[k] = "delete" /\ (todo[k] # {} \/ k = TS)
    /\ rpc' = [rpc EXCEPT ![k] = "idle"]
    /\ queued' = queued \cup {k}
    /\ todo' = [todo EXCEPT ![k] = {}]
    /\ lost' = IF k \in changed THEN lost \cup {"sync"} ELSE lost
    /\ changed' = changed \ {k}
    /\ faults' = faults + 1
    /\ UNCHANGED <<claims, desired, disk, channel, loaderVars, dirty, events,
                   restarts>>

-----------------------------------------------------------------------------
(* The verifier: NewVerifier before serving, the main loop afterwards.     *)

\* Mutant of Receive: the notification stays in the channel.
ReceiveKeeps ==
    /\ serving
    /\ lpc = "idle"
    /\ channel = 1
    /\ lpc' = "read"
    /\ UNCHANGED <<apiVars, workerVars, disk, channel, serving, pending, building,
                   verifiers, dirty, lost, counters>>

Receive ==
    /\ serving
    /\ lpc = "idle"
    /\ channel = 1
    /\ channel' = 0
    /\ lpc' = "read"
    /\ UNCHANGED <<apiVars, workerVars, disk, serving, pending, building,
                   verifiers, dirty, lost, counters>>

\* RefreshVerifiers lists the directory; every earlier change is seen.
ReadDir ==
    /\ lpc = "read"
    /\ lpc' = "load"
    /\ pending' = {n \in Names : disk[TP][n] # NoDoc}
    /\ building' = NoFiles
    /\ lost' = {}
    /\ UNCHANGED <<apiVars, workerVars, disk, channel, serving, verifiers, dirty,
                   counters>>

LoadPolicy(n) ==
    /\ lpc = "load"
    /\ n \in pending
    /\ disk[TP][n] \in Docs \ Malformed
    /\ building' = [building EXCEPT ![n] = disk[TP][n]]
    /\ pending' = pending \ {n}
    /\ UNCHANGED <<apiVars, workerVars, disk, channel, lpc, serving, verifiers,
                   dirty, lost, counters>>

\* A failed refresh keeps the verifiers and does not clear the cache.  While
\* serving it is only logged; before that NewVerifier tries again.
AfterFailedRefresh == IF serving THEN "idle" ELSE "read"

\* The file is not acceptable, or is gone since the directory was listed.
RefuseRefresh(n) ==
    /\ lpc = "load"
    /\ n \in pending
    /\ disk[TP][n] \in Malformed \cup {NoDoc}
    /\ lpc' = AfterFailedRefresh
    /\ pending' = {}
    /\ UNCHANGED <<apiVars, workerVars, disk, channel, serving, building,
                   verifiers, dirty, lost, counters>>

\* Reading the directory or a file fails, or another step of NewVerifier does.
RefreshError ==
    /\ faults < MaxFaults
    /\ \/ lpc = "read"
       \/ lpc = "load" /\ (pending # {} \/ ~serving)
    /\ lpc' = AfterFailedRefresh
    /\ pending' = {}
    /\ lost' = IF serving THEN lost \cup {"reload"} ELSE lost
    /\ faults' = faults + 1
    /\ UNCHANGED <<apiVars, workerVars, disk, channel, serving, building,
                   verifiers, dirty, events, restarts>>

\* The new map replaces the old one; the first cache is created empty.
SwapVerifiers ==
    /\ lpc = "load"
    /\ pending = {}
    /\ verifiers' = building
    /\ serving' = TRUE
    /\ IF serving THEN lpc' = "clear" /\ UNCHANGED dirty
                  ELSE lpc' = "idle" /\ dirty' = {}
    /\ UNCHANGED <<apiVars, workerVars, disk, channel, pending, building,
                   lost, counters>>

ClearCache ==
    /\ lpc = "clear"
    /\ lpc' = "idle"
    /\ dirty' = {}
    /\ UNCHANGED <<apiVars, workerVars, disk, channel, serving, pending, building,
                   verifiers, lost, counters>>

\* The informer's first list queues the objects there are, among them those
\* without a live, well-named claim.
Relisted == {q \in SUBSET Kinds : \A k \in Kinds : HasObjects(k) => k \in q}

\* The container restarts.  The notation directory is a volume of the pod and
\* survives.
Restart ==
    /\ restarts < MaxRestarts
    /\ restarts' = restarts + 1
    /\ queued' \in Relisted
    /\ rpc' = [k \in Kinds |-> "idle"]
    /\ todo' = [k \in Kinds |-> {}]
    /\ changed' = {}
    /\ channel' = 0
    /\ lpc' = "read"
    /\ serving' = FALSE
    /\ pending' = {}
    /\ building' = NoFiles
    /\ verifiers' = NoFiles
    /\ dirty' = {}
    /\ lost' = {}
    /\ UNCHANGED <<claims, desired, disk, events, faults>>

-----------------------------------------------------------------------------

WorkerIdle(k) == rpc[k] = "idle" /\ k \notin queued
Settled ==
    /\ \A k \in Kinds : WorkerIdle(k)
    /\ channel = 0
    /\ serving /\ lpc = "idle"

\* With nothing left to do the replica waits for the next API event.
Wait == Settled /\ UNCHANGED vars

WorkerStep(k) ==
    \/ Reconcile(k)
    \/ List(k)
    \/ \E n \in Names : WriteFile(k, n)
    \/ ScanDir(k)
    \/ \E n \in Names : RemoveFile(k, n)
    \/ Notify(k)
    \/ ReconcileDone(k)

LoaderStep ==
    \/ Receive
    \/ ReadDir
    \/ \E n \in Names : LoadPolicy(n)
    \/ \E n \in Names : RefuseRefresh(n)
    \/ SwapVerifiers
    \/ ClearCache

Next ==
    \/ \E k \in Kinds, n \in Names : Edit(k, n)
    \/ \E k \in Kinds : Resync(k)
    \/ \E k \in Kinds : WorkerStep(k)
    \/ \E k \in Kinds : ReconcileError(k)
    \/ LoaderStep
    \/ RefreshError
    \/ Restart
    \/ Wait

Spec == Init /\ [][Next]_vars

\* Each worker and the main loop are goroutines that keep running; events,
\* errors and restarts need not happen.
FairSpec ==
    /\ Spec
    /\ \A k \in Kinds : WF_vars(WorkerStep(k))
    /\ WF_vars(LoaderStep)

-----------------------------------------------------------------------------
(* Properties.                                                             *)

\* A file that RefreshVerifiers rejects makes every reload fail.
Blocked == \E n \in Names : disk[TP][n] \in Malformed

\* The verifiers are those of the files, and no cached verdict predates the
\* files it was reached with.
InForce == verifiers = disk[TP] /\ dirty = {}

\* No update is lost: when workers, channel and main loop are at rest, the
\* verifiers are those of the files and the cache was cleared after the last
\* change, unless an error cut a sync short after it had changed a file or cut
\* a reload short (lost), or a malformed policy keeps all reloads from
\* succeeding.  It is about notify (files.go) dropping a notification when one
\* is pending, about reloads that overlap the next sync, and about a reload
\* that fails because a file disappears under it.
NoLostReload == Settled /\ lost = {} /\ ~Blocked => InForce

\* What the comment on CRDChangeInformer says, "receives a notification
\* whenever the files on disk change": a replica at rest whose reloads met no
\* I/O error has the files in force.  It fails: sync drops the changed flag of
\* syncTrustPolicyFiles and syncTrustStores when they also return an error.
EveryChangeNotified == Settled /\ "reload" \notin lost /\ ~Blocked => InForce

\* The files follow the objects: when controller k is at rest, each file holds
\* the content of a live object of its name and there is a file for each name,
\* whatever errors and restarts interrupted earlier syncs.  After a restart
\* this needs an object whose reconcile repeats the sync.
FilesFollowObjects ==
    \A k \in Kinds :
        WorkerIdle(k) /\ (restarts = 0 \/ HasObjects(k)) => disk[k] \in Listings(k)

\* Once events, errors and restarts stop, the replica comes to rest with the
\* files in force, or is kept from it by a lost update or a malformed file.
EventuallyInForce == <>[](lost # {} \/ Blocked \/ (Settled /\ InForce))
=============================================================================
