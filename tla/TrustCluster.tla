---------------------------- MODULE TrustCluster ----------------------------
(***************************************************************************)
(* The controller of one kind (TrustPolicy or TrustStore) in several       *)
(* replicas.  The replicas share the objects of the API server, with       *)
(* their finalizer and resource version, and each has an informer cache    *)
(* that lags behind, a work queue with one worker, and a directory that    *)
(* survives the restart of its container.  TrustSync refines one sync of   *)
(* one replica; here a sync is one step.                                   *)
(***************************************************************************)
EXTENDS Naturals

CONSTANTS
    Replicas,   \* the pods
    Objects,    \* names of objects, each with a file of its own
    None,       \* no object at hand
    MaxEvents, MaxFaults

ASSUME BoundsAssumption ==
    MaxEvents \in Nat /\ MaxFaults \in Nat

VARIABLES
    api,     \* api[o]: phase, finalizer, resource version, generation of the spec
    view,    \* view[r][o]: what the informer of r last saw of o
    queue,   \* objects that wait for the worker of r
    pc,      \* the worker: "down", "idle", "add", "sync", "remove"
    cur,     \* the object at hand
    got,     \* what Get returned for it, updated by Update
    disk,    \* disk[r][o]: generation in the file of o, 0 without one
    synced,  \* a sync has succeeded since r started (history)
    events, faults

vars == <<api, view, queue, pc, cur, got, disk, synced, events, faults>>

cluster == <<api, events>>
worker == <<queue, pc, cur, got>>

Absent(rv) == [phase |-> "absent", fin |-> FALSE, rv |-> rv, gen |-> 0]

-----------------------------------------------------------------------------
(* The API server and its clients.                                         *)

Write(o, phase, fin, gen) ==
    api' = [api EXCEPT ![o] =
              [phase |-> phase, fin |-> fin, rv |-> @.rv + 1, gen |-> gen]]

ByUser == events < MaxEvents /\ events' = events + 1

Create(o) ==
    /\ ByUser
    /\ api[o].phase = "absent"
    /\ Write(o, "live", FALSE, api[o].rv + 1)
    /\ UNCHANGED <<view, worker, disk, synced, faults>>

\* The spec of the object is edited.
Edit(o) ==
    /\ ByUser
    /\ api[o].phase = "live"
    /\ Write(o, "live", api[o].fin, api[o].rv + 1)
    /\ UNCHANGED <<view, worker, disk, synced, faults>>

\* An object with a finalizer stays until the finalizer is removed.
Delete(o) ==
    /\ ByUser
    /\ api[o].phase = "live"
    /\ IF api[o].fin THEN Write(o, "terminating", TRUE, api[o].gen)
                     ELSE Write(o, "absent", FALSE, 0)
    /\ UNCHANGED <<view, worker, disk, synced, faults>>

\* Mutant of Accepted: Update does not look at the resource version.
AcceptedAny(r) == api[cur[r]].phase # "absent"

\* The API server accepts an Update of the version that r read.
Accepted(r) == api[cur[r]].phase # "absent" /\ api[cur[r]].rv = got[r].rv

\* Update writes the object that r read, with or without the finalizer; the
\* object goes with its last finalizer once it is under deletion.
Update(r, fin) ==
    IF ~fin /\ api[cur[r]].phase = "terminating"
    THEN Write(cur[r], "absent", FALSE, 0)
    ELSE Write(cur[r], api[cur[r]].phase, fin, got[r].gen)

-----------------------------------------------------------------------------
(* A replica.                                                              *)

Fault == faults < MaxFaults /\ faults' = faults + 1

\* The informer of r learns the state of o and queues it.
Watch(r, o) ==
    /\ pc[r] # "down"
    /\ view[r][o] # api[o]
    /\ view' = [view EXCEPT ![r][o] = api[o]]
    /\ queue' = [queue EXCEPT ![r] = @ \cup {o}]
    /\ UNCHANGED <<cluster, pc, cur, got, disk, synced, faults>>

\* Mutant of AfterGet: an object that is gone needs no sync.
AfterGetUnsynced(v) ==
    CASE v.phase = "absent" -> "idle"
      [] v.phase = "live" /\ ~v.fin -> "add"
      [] OTHER -> "sync"

\* A live object without the finalizer gets it first.
AfterGet(v) == IF v.phase = "live" /\ ~v.fin THEN "add" ELSE "sync"

\* Reconcile begins; Get reads the informer cache.
Get(r, o) ==
    /\ pc[r] = "idle"
    /\ o \in queue[r]
    /\ queue' = [queue EXCEPT ![r] = @ \ {o}]
    /\ cur' = [cur EXCEPT ![r] = o]
    /\ got' = [got EXCEPT ![r] = view[r][o]]
    /\ pc' = [pc EXCEPT ![r] = AfterGet(view[r][o])]
    /\ UNCHANGED <<cluster, view, disk, synced, faults>>

Finish(r) ==
    /\ pc' = [pc EXCEPT ![r] = "idle"]
    /\ cur' = [cur EXCEPT ![r] = None]
    /\ got' = [got EXCEPT ![r] = Absent(0)]

\* Mutant of Requeue: the name is cleared before it is queued.
RequeueCleared(r) == Finish(r) /\ queue' = [queue EXCEPT ![r] = @ \cup {cur'[r]}]

\* Reconcile returns an error and the object is queued again.
Requeue(r) == Finish(r) /\ queue' = [queue EXCEPT ![r] = @ \cup {cur[r]}]

\* AddFinalizer and Update, which fails on a conflict.
AddFinalizer(r) ==
    /\ pc[r] = "add"
    /\ \/ /\ Accepted(r)
          /\ Update(r, TRUE)
          /\ got' = [got EXCEPT ![r] = api'[cur[r]]]
          /\ pc' = [pc EXCEPT ![r] = "sync"]
          /\ UNCHANGED <<queue, cur>>
       \/ ~Accepted(r) /\ Requeue(r) /\ UNCHANGED api
    /\ UNCHANGED <<view, disk, synced, events, faults>>

\* Mutant of Wanted: objects under deletion keep their files.
WantedAll(v) == [o \in Objects |-> v[o].gen]

\* The files that sync wants, given what List returns.
Wanted(v) == [o \in Objects |-> IF v[o].phase = "live" THEN v[o].gen ELSE 0]

\* Mutant of Releases: the result of RemoveFinalizer is inverted.
ReleasesBare(v) == v.phase = "terminating" /\ ~v.fin

\* Reconcile removes the finalizer after the sync.
Releases(v) == v.phase = "terminating" /\ v.fin

Sync(r) ==
    /\ pc[r] = "sync"
    /\ disk' = [disk EXCEPT ![r] = Wanted(view[r])]
    /\ synced' = [synced EXCEPT ![r] = TRUE]
    /\ IF Releases(got[r])
       THEN pc' = [pc EXCEPT ![r] = "remove"] /\ UNCHANGED <<queue, cur, got>>
       ELSE Finish(r) /\ UNCHANGED queue
    /\ UNCHANGED <<cluster, view, faults>>

\* What a sync that stops half-way leaves: some files are written, and some
\* others removed once all of them are.
HalfSynced(r, d) ==
    LET want == Wanted(view[r])
        writes == {o \in Objects : want[o] # 0} IN
      /\ \A o \in Objects : d[o] \in {disk[r][o], want[o]}
      /\ (\E o \in Objects \ writes : d[o] # disk[r][o])
           => \A o \in writes : d[o] = want[o]

Contents(r) ==
    {d \in [Objects -> {disk[r][o] : o \in Objects} \cup
                       {view[r][o].gen : o \in Objects} \cup {0}] : HalfSynced(r, d)}

SyncFails(r) ==
    /\ Fault
    /\ pc[r] = "sync"
    /\ \E d \in Contents(r) : disk' = [disk EXCEPT ![r] = d]
    /\ Requeue(r)
    /\ UNCHANGED <<cluster, view, synced>>

\* RemoveFinalizer and Update.
RemoveFinalizer(r) ==
    /\ pc[r] = "remove"
    /\ \/ /\ Accepted(r)
          /\ Update(r, FALSE)
          /\ Finish(r)
          /\ UNCHANGED queue
       \/ ~Accepted(r) /\ Requeue(r) /\ UNCHANGED api
    /\ UNCHANGED <<view, disk, synced, events, faults>>

\* An Update fails for another reason; the server may have carried it out.
UpdateFails(r) ==
    /\ Fault
    /\ pc[r] \in {"add", "remove"}
    /\ \/ UNCHANGED api
       \/ Accepted(r) /\ Update(r, pc[r] = "add")
    /\ Requeue(r)
    /\ UNCHANGED <<view, disk, synced, events>>

\* The container dies, in the middle of a sync perhaps.  Its directory stays,
\* unless the pod is replaced.
Crash(r) ==
    /\ Fault
    /\ pc[r] # "down"
    /\ pc' = [pc EXCEPT ![r] = "down"]
    /\ cur' = [cur EXCEPT ![r] = None]
    /\ got' = [got EXCEPT ![r] = Absent(0)]
    /\ queue' = [queue EXCEPT ![r] = {}]
    /\ view' = [view EXCEPT ![r] = [o \in Objects |-> Absent(0)]]
    /\ synced' = [synced EXCEPT ![r] = FALSE]
    /\ \E d \in {disk[r], [o \in Objects |-> 0]} \cup
                (IF pc[r] = "sync" THEN Contents(r) ELSE {}) :
         disk' = [disk EXCEPT ![r] = d]
    /\ UNCHANGED cluster

Present == {o \in Objects : api[o].phase # "absent"}

\* The container starts: the informer lists all objects before the worker runs,
\* and queues each of them.
Start(r) ==
    /\ pc[r] = "down"
    /\ pc' = [pc EXCEPT ![r] = "idle"]
    /\ view' = [view EXCEPT ![r] = api]
    /\ queue' = [queue EXCEPT ![r] = Present]
    /\ UNCHANGED <<cluster, cur, got, disk, synced, faults>>

-----------------------------------------------------------------------------

\* Some objects are there and all replicas have settled on them.
Settled(o, live) ==
    IF o \in live THEN [phase |-> "live", fin |-> TRUE, rv |-> 2, gen |-> 1] ELSE Absent(0)

Init ==
    /\ \E live \in SUBSET Objects : api = [o \in Objects |-> Settled(o, live)]
    /\ view = [r \in Replicas |-> api]
    /\ queue = [r \in Replicas |-> {}]
    /\ pc = [r \in Replicas |-> "idle"]
    /\ cur = [r \in Replicas |-> None]
    /\ got = [r \in Replicas |-> Absent(0)]
    /\ disk = [r \in Replicas |-> Wanted(api)]
    /\ synced = [r \in Replicas |-> TRUE]
    /\ events = 0 /\ faults = 0

Reconcile(r) ==
    \/ \E o \in Objects : Get(r, o)
    \/ AddFinalizer(r)
    \/ Sync(r)
    \/ RemoveFinalizer(r)

\* Nothing is left to do until an object changes.
AtRest(r) == pc[r] = "idle" /\ queue[r] = {} /\ view[r] = api

Wait == (\A r \in Replicas : AtRest(r)) /\ UNCHANGED vars

Next ==
    \/ \E o \in Objects : Create(o) \/ Edit(o) \/ Delete(o)
    \/ \E r \in Replicas :
         \/ \E o \in Objects : Watch(r, o)
         \/ Reconcile(r)
         \/ SyncFails(r)
         \/ UpdateFails(r)
         \/ Crash(r)
         \/ Start(r)
    \/ Wait

Spec == Init /\ [][Next]_vars

\* The kubelet restarts containers, informers catch up and workers run.
FairSpec ==
    /\ Spec
    /\ \A r \in Replicas :
         /\ WF_vars(Start(r))
         /\ WF_vars(\E o \in Objects : Watch(r, o))
         /\ WF_vars(Reconcile(r))

-----------------------------------------------------------------------------
(* Properties.                                                             *)

States == [phase : {"absent", "live", "terminating"}, fin : BOOLEAN, rv : Nat, gen : Nat]

TypeOK ==
    /\ api \in [Objects -> States]
    /\ view \in [Replicas -> [Objects -> States]]
    /\ queue \in [Replicas -> SUBSET Objects]
    /\ pc \in [Replicas -> {"down", "idle", "add", "sync", "remove"}]
    /\ cur \in [Replicas -> Objects \cup {None}]
    /\ got \in [Replicas -> States]
    /\ disk \in [Replicas -> [Objects -> Nat]]
    /\ synced \in [Replicas -> BOOLEAN]
    /\ events \in Nat /\ faults \in Nat

LiveFiles == [o \in Objects |-> IF api[o].phase = "live" THEN api[o].gen ELSE 0]

\* A replica at rest that has synced since it started has exactly the files of
\* the live objects, with their last contents, whichever replica removed the
\* finalizer of a deleted one, and after any conflict, failure or restart.
FilesFollow ==
    \A r \in Replicas : AtRest(r) /\ synced[r] => disk[r] = LiveFiles

\* What the header of the controller says: "replicas that did not remove the
\* finalizer also delete stale files", and the CHANGELOG repeats.  It fails after
\* a restart: a replica that was down when the last object went away has nothing
\* to reconcile, and keeps the file.
StaleFilesDeleted ==
    \A r \in Replicas : AtRest(r) => disk[r] = LiveFiles

\* The finalizer of an object goes only when the replica that removes it, the one
\* whose reconciliation ends with that step, has no file of the object, even if the
\* object was created again meanwhile.
ReleasedClean ==
    [][\A o \in Objects :
         api[o].phase = "terminating" /\ api'[o].phase = "absent" =>
             \E r \in Replicas : /\ pc[r] = "remove" /\ pc'[r] # "remove"
                                 /\ cur[r] = o /\ disk[r][o] = 0]_vars

\* No Update of a replica undoes what a user did: only Delete begins a deletion,
\* and only Create, Edit and Delete change the spec of a live object.
UpdatesKeepSpec ==
    [][\A o \in Objects :
         events' = events /\ api[o].phase = "live" =>
             api'[o].phase = "live" /\ api'[o].gen = api[o].gen]_vars

\* In the end every deleted object is gone, since conflicting Updates do not keep
\* its finalizer for ever, and all replicas that have synced agree with the API
\* server for good.
ReplicasConverge ==
    <>[](/\ \A o \in Objects : api[o].phase # "terminating"
         /\ \A r \in Replicas : AtRest(r) /\ (synced[r] => disk[r] = LiveFiles))
=============================================================================
