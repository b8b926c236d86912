------------------------ MODULE TrustCluster_proofs ------------------------
(***************************************************************************)
(* Safety of TrustCluster for any replicas, objects, events and faults.    *)
(***************************************************************************)
EXTENDS TrustCluster, TLAPS

\* v is a version of the object whose current version is a.
Version(v, a) == v.rv <= a.rv /\ (v.rv = a.rv => v = a)

\* Every object is as it was or has a new version.
ApiAdvances ==
    \A o \in Objects : api'[o] = api[o] \/ api'[o].rv = api[o].rv + 1

Busy == {"add", "sync", "remove"}

\* The informer and the worker of r hold versions that the objects have or had.
\* An object that the worker found under deletion is no newer than the informer's.
CacheOf(r) ==
    /\ pc[r] # "down" => \A o \in Objects : Version(view[r][o], api[o])
    /\ pc[r] \in Busy =>
         /\ cur[r] \in Objects
         /\ Version(got[r], api[cur[r]])
         /\ got[r].phase = "terminating" => got[r].rv <= view[r][cur[r]].rv
    /\ pc[r] = "add" => got[r].phase = "live"

CacheInv == \A r \in Replicas : CacheOf(r)

\* A worker that may still remove a finalizer has removed the file.
CleanInv ==
    \A r \in Replicas :
        pc[r] = "remove" /\ api[cur[r]].rv = got[r].rv => disk[r][cur[r]] = 0

\* After a sync the files are those of the informer until it learns something.
FreshInv ==
    \A r \in Replicas :
        synced[r] /\ queue[r] = {} /\ pc[r] \in {"idle", "remove"}
            => disk[r] = Wanted(view[r])

\* A replica that is down has not synced since its last start.
DownInv == \A r \in Replicas : pc[r] = "down" => ~synced[r]

Inv == TypeOK /\ CacheInv /\ CleanInv /\ FreshInv /\ DownInv

-----------------------------------------------------------------------------
(* Types.                                                                  *)

\* A write gives one object a new version.
LEMMA WriteAdvances ==
    ASSUME TypeOK, NEW o \in Objects, NEW phase \in {"absent", "live", "terminating"},
           NEW fin \in BOOLEAN, NEW gen \in Nat, Write(o, phase, fin, gen)
    PROVE  api' \in [Objects -> States] /\ ApiAdvances
  BY DEF TypeOK, Write, ApiAdvances, States

\* So does an Update of a worker.
LEMMA UpdateAdvances ==
    ASSUME TypeOK, NEW r \in Replicas, cur[r] \in Objects, NEW fin \in BOOLEAN,
           Update(r, fin)
    PROVE  api' \in [Objects -> States] /\ ApiAdvances
<1>1. api[cur[r]] \in States /\ got[r] \in States
  BY DEF TypeOK
<1>2. CASE ~fin /\ api[cur[r]].phase = "terminating"
  BY <1>2, WriteAdvances DEF Update
<1>3. CASE ~(~fin /\ api[cur[r]].phase = "terminating")
  <2>1. Write(cur[r], api[cur[r]].phase, fin, got[r].gen)
    BY <1>3 DEF Update
  <2>2. api[cur[r]].phase \in {"absent", "live", "terminating"} /\ got[r].gen \in Nat
    BY <1>1 DEF States
  <2> QED
    BY <2>1, <2>2, WriteAdvances
<1> QED
  BY <1>2, <1>3

\* Half a sync leaves a directory.
LEMMA ContentsType ==
    ASSUME TypeOK, NEW r \in Replicas, NEW d \in Contents(r)
    PROVE  d \in [Objects -> Nat]
<1>1. \A o \in Objects : disk[r][o] \in Nat /\ view[r][o].gen \in Nat
  BY DEF TypeOK, States
<1>2. d \in [Objects -> {disk[r][o] : o \in Objects} \cup
                       {view[r][o].gen : o \in Objects} \cup {0}]
  BY DEF Contents
<1> HIDE DEF Contents
<1>3. \A x \in {disk[r][o] : o \in Objects} \cup
              {view[r][o].gen : o \in Objects} \cup {0} : x \in Nat
  BY <1>1
<1> QED
  BY <1>2, <1>3

\* An informer's objects give a directory.
LEMMA WantedType ==
    ASSUME NEW v \in [Objects -> States] PROVE Wanted(v) \in [Objects -> Nat]
  BY DEF Wanted, States

\* Events and Updates are the only writes.
LEMMA ApiStep ==
    TypeOK /\ CacheInv /\ [Next]_vars => api' \in [Objects -> States] /\ ApiAdvances
<1> SUFFICES ASSUME TypeOK, CacheInv, [Next]_vars
             PROVE  api' \in [Objects -> States] /\ ApiAdvances
  OBVIOUS
<1>0. CASE UNCHANGED api
  BY <1>0 DEF TypeOK, ApiAdvances
<1>1. ASSUME NEW o \in Objects, Create(o) \/ Edit(o) \/ Delete(o)
      PROVE  api' \in [Objects -> States] /\ ApiAdvances
  <2>1. api[o].rv + 1 \in Nat /\ api[o].gen \in Nat /\ api[o].fin \in BOOLEAN
    BY DEF TypeOK, States
  <2>2. CASE Create(o)
    BY <2>1, <2>2, WriteAdvances DEF Create
  <2>3. CASE Edit(o)
    BY <2>1, <2>3, WriteAdvances DEF Edit
  <2>4. CASE Delete(o)
    BY <2>1, <2>4, WriteAdvances DEF Delete
  <2> QED
    BY <1>1, <2>2, <2>3, <2>4
<1>2. ASSUME NEW r \in Replicas, AddFinalizer(r) \/ RemoveFinalizer(r) \/ UpdateFails(r)
      PROVE  api' \in [Objects -> States] /\ ApiAdvances
  <2>1. cur[r] \in Objects
    BY <1>2 DEF AddFinalizer, RemoveFinalizer, UpdateFails, CacheInv, CacheOf, Busy
  <2>2. UNCHANGED api \/ \E fin \in BOOLEAN : Update(r, fin)
    BY <1>2 DEF AddFinalizer, RemoveFinalizer, UpdateFails
  <2> QED
    BY <1>0, <2>1, <2>2, UpdateAdvances
<1>3. ASSUME NEW r \in Replicas, NEW o \in Objects, Watch(r, o) \/ Get(r, o)
      PROVE  UNCHANGED api
  BY <1>3 DEF Watch, Get, cluster
<1>4. ASSUME NEW r \in Replicas, Sync(r) \/ SyncFails(r) \/ Crash(r) \/ Start(r)
      PROVE  UNCHANGED api
  BY <1>4 DEF Sync, SyncFails, Crash, Start, cluster
<1> QED
  BY <1>0, <1>1, <1>2, <1>3, <1>4 DEF Next, Reconcile, Wait, vars

-----------------------------------------------------------------------------
(* The invariant.                                                          *)

\* All replicas begin settled.
LEMMA InvInit == Init => Inv
<1> SUFFICES ASSUME Init PROVE Inv
  OBVIOUS
<1>1. api \in [Objects -> States]
  BY DEF Init, Settled, Absent, States
<1>2. Wanted(api) \in [Objects -> Nat]
  BY <1>1, WantedType
<1>3. Absent(0) \in States
  BY DEF Absent, States
<1>4. TypeOK
  BY <1>1, <1>2, <1>3 DEF Init, TypeOK
<1>5. CacheInv
  <2>1. \A o \in Objects : api[o].rv <= api[o].rv
    BY <1>1 DEF States
  <2>2. \A r \in Replicas : view[r] = api /\ pc[r] = "idle"
    BY DEF Init
  <2> QED
    BY <2>1, <2>2 DEF CacheInv, CacheOf, Version, Busy
<1>6. CleanInv /\ FreshInv /\ DownInv
  BY DEF Init, CleanInv, FreshInv, DownInv
<1> QED
  BY <1>4, <1>5, <1>6 DEF Inv

\* A version of an object is one of its later versions too.
LEMMA VersionKept ==
    ASSUME NEW v \in States, NEW a \in States, NEW b \in States,
           Version(v, a), b = a \/ b.rv = a.rv + 1
    PROVE  Version(v, b)
  BY DEF Version, States

\* Every action keeps the types.
LEMMA TypeStep == TypeOK /\ CacheInv /\ [Next]_vars => TypeOK'
<1> SUFFICES ASSUME TypeOK, CacheInv, [Next]_vars PROVE TypeOK'
  OBVIOUS
<1> USE DEF cluster, worker
<1>a. api' \in [Objects -> States]
  BY ApiStep
<1>b. Absent(0) \in States
  BY DEF Absent, States
<1>c. Fault => faults' \in Nat
  BY DEF TypeOK, Fault
<1>1. ASSUME NEW o \in Objects, Create(o) \/ Edit(o) \/ Delete(o)
      PROVE  TypeOK'
  <2>0. ByUser
    BY <1>1 DEF Create, Edit, Delete
  <2>1. events' \in Nat
    BY <2>0 DEF TypeOK, ByUser
  <2>2. UNCHANGED <<view, worker, disk, synced, faults>>
    BY <1>1 DEF Create, Edit, Delete
  <2> QED
    BY <1>a, <2>1, <2>2 DEF TypeOK
<1>2. ASSUME NEW r \in Replicas, NEW o \in Objects, Watch(r, o) PROVE TypeOK'
  BY <1>2, <1>a DEF TypeOK, Watch
<1>3. ASSUME NEW r \in Replicas, NEW o \in Objects, Get(r, o) PROVE TypeOK'
  BY <1>3, <1>a DEF TypeOK, Get, AfterGet
<1>4. ASSUME NEW r \in Replicas, Finish(r)
      PROVE  /\ pc' \in [Replicas -> {"down", "idle", "add", "sync", "remove"}]
             /\ cur' \in [Replicas -> Objects \cup {None}]
             /\ got' \in [Replicas -> States]
  BY <1>4, <1>b DEF TypeOK, Finish
<1>5. ASSUME NEW r \in Replicas, Requeue(r), pc[r] \in Busy
      PROVE  queue' \in [Replicas -> SUBSET Objects]
  BY <1>5 DEF TypeOK, Requeue, CacheInv, CacheOf
<1>6. ASSUME NEW r \in Replicas, AddFinalizer(r) PROVE TypeOK'
  <2>1. pc[r] \in Busy /\ cur[r] \in Objects
    BY <1>6 DEF AddFinalizer, Busy, CacheInv, CacheOf
  <2>2. CASE Requeue(r)
    BY <1>6, <1>a, <1>4, <1>5, <2>1, <2>2 DEF TypeOK, AddFinalizer, Requeue
  <2>3. CASE /\ got' = [got EXCEPT ![r] = api'[cur[r]]]
             /\ pc' = [pc EXCEPT ![r] = "sync"]
             /\ UNCHANGED <<queue, cur>>
    BY <1>6, <1>a, <2>1, <2>3 DEF TypeOK, AddFinalizer
  <2> QED
    BY <1>6, <2>2, <2>3 DEF AddFinalizer
<1>7. ASSUME NEW r \in Replicas, Sync(r) PROVE TypeOK'
  <2>1. Wanted(view[r]) \in [Objects -> Nat]
    BY WantedType DEF TypeOK
  <2>2. CASE Finish(r) /\ UNCHANGED queue
    BY <1>7, <1>a, <1>4, <2>1, <2>2 DEF TypeOK, Sync
  <2>3. CASE pc' = [pc EXCEPT ![r] = "remove"] /\ UNCHANGED <<queue, cur, got>>
    BY <1>7, <1>a, <2>1, <2>3 DEF TypeOK, Sync
  <2> QED
    BY <1>7, <2>2, <2>3 DEF Sync
<1>8. ASSUME NEW r \in Replicas, SyncFails(r) PROVE TypeOK'
  <2>1. PICK d \in Contents(r) : disk' = [disk EXCEPT ![r] = d]
    BY <1>8 DEF SyncFails
  <2>2. disk' \in [Replicas -> [Objects -> Nat]]
    BY <2>1, ContentsType DEF TypeOK
  <2>3. Requeue(r) /\ pc[r] \in Busy
    BY <1>8 DEF SyncFails, Busy
  <2> QED
    BY <1>8, <1>a, <1>4, <1>5, <1>c, <2>2, <2>3 DEF TypeOK, SyncFails, Requeue
<1>9. ASSUME NEW r \in Replicas, RemoveFinalizer(r) PROVE TypeOK'
  <2>1. pc[r] \in Busy
    BY <1>9 DEF RemoveFinalizer, Busy
  <2>2. CASE Requeue(r)
    BY <1>9, <1>a, <1>4, <1>5, <2>1, <2>2 DEF TypeOK, RemoveFinalizer, Requeue
  <2>3. CASE Finish(r) /\ UNCHANGED queue
    BY <1>9, <1>a, <1>4, <2>3 DEF TypeOK, RemoveFinalizer
  <2> QED
    BY <1>9, <2>2, <2>3 DEF RemoveFinalizer
<1>10. ASSUME NEW r \in Replicas, UpdateFails(r) PROVE TypeOK'
  <2>1. pc[r] \in Busy /\ Requeue(r)
    BY <1>10 DEF UpdateFails, Busy
  <2> QED
    BY <1>10, <1>a, <1>4, <1>5, <1>c, <2>1 DEF TypeOK, UpdateFails, Requeue
<1>11. ASSUME NEW r \in Replicas, Crash(r) PROVE TypeOK'
  <2>1. PICK d : /\ d \in {disk[r], [o \in Objects |-> 0]} \cup Contents(r)
                 /\ disk' = [disk EXCEPT ![r] = d]
    BY <1>11 DEF Crash
  <2>2. d \in [Objects -> Nat]
    BY <2>1, ContentsType DEF TypeOK
  <2>3. disk' \in [Replicas -> [Objects -> Nat]]
    BY <2>1, <2>2 DEF TypeOK
  <2>4. [o \in Objects |-> Absent(0)] \in [Objects -> States]
    BY <1>b
  <2> QED
    BY <1>11, <1>a, <1>b, <2>3, <2>4 DEF TypeOK, Crash, Fault
<1>12. ASSUME NEW r \in Replicas, Start(r) PROVE TypeOK'
  BY <1>12, <1>a DEF TypeOK, Start, Present
<1>13. CASE UNCHANGED vars
  BY <1>13 DEF TypeOK, vars
<1> QED
  BY <1>1, <1>2, <1>3, <1>6, <1>7, <1>8, <1>9, <1>10, <1>11, <1>12, <1>13
     DEF Next, Reconcile, Wait

\* Steps that leave alone what a replica holds keep CacheOf for it.
LEMMA CacheFrame ==
    ASSUME TypeOK, TypeOK', ApiAdvances, NEW r \in Replicas, CacheOf(r),
           view'[r] = view[r], pc'[r] # "down" => pc[r] # "down",
           pc'[r] \in Busy =>
               /\ pc[r] \in Busy
               /\ cur'[r] = cur[r] /\ got'[r] = got[r]
               /\ pc'[r] = "add" => pc[r] = "add"
    PROVE  CacheOf(r)'
<1>1. \A v \in States, o \in Objects : Version(v, api[o]) => Version(v, api'[o])
  BY VersionKept DEF TypeOK, ApiAdvances
<1>2. /\ \A o \in Objects : view[r][o] \in States
      /\ got[r] \in States
  BY DEF TypeOK
<1>3. (pc[r] # "down" => \A o \in Objects : Version(view[r][o], api[o]))'
  BY <1>1, <1>2 DEF CacheOf, Version
<1>4. (pc[r] \in Busy =>
         /\ cur[r] \in Objects
         /\ Version(got[r], api[cur[r]])
         /\ got[r].phase = "terminating" => got[r].rv <= view[r][cur[r]].rv)'
  BY <1>1, <1>2 DEF CacheOf, Version, Busy
<1>5. (pc[r] = "add" => got[r].phase = "live")'
  BY DEF CacheOf, Busy
<1> QED
  BY <1>3, <1>4, <1>5 DEF CacheOf

\* A step of a worker other than Get and AddFinalizer holds nothing new.
LEMMA WorkerHolds ==
    ASSUME TypeOK, NEW r \in Replicas, NEW q \in Replicas, Finish(r)
    PROVE  /\ q = r => pc'[q] = "idle"
           /\ q # r => pc'[q] = pc[q] /\ cur'[q] = cur[q] /\ got'[q] = got[q]
  BY DEF TypeOK, Finish

\* Every action keeps the versions.
LEMMA CacheStep == TypeOK /\ CacheInv /\ [Next]_vars => CacheInv'
<1> SUFFICES ASSUME TypeOK, CacheInv, [Next]_vars, NEW q \in Replicas PROVE CacheOf(q)'
  BY DEF CacheInv
<1> USE DEF cluster, worker
<1>a. TypeOK' /\ ApiAdvances /\ CacheOf(q)
  BY TypeStep, ApiStep DEF CacheInv
<1>b. ASSUME view'[q] = view[q], pc'[q] = pc[q], cur'[q] = cur[q], got'[q] = got[q]
      PROVE  CacheOf(q)'
  BY <1>a, <1>b, CacheFrame
<1>1. ASSUME NEW o \in Objects, Create(o) \/ Edit(o) \/ Delete(o)
      PROVE  CacheOf(q)'
  BY <1>1, <1>b DEF Create, Edit, Delete
<1>2. ASSUME NEW r \in Replicas, NEW o \in Objects, Watch(r, o) PROVE CacheOf(q)'
  <2>1. CASE q # r
    BY <1>2, <1>b, <2>1 DEF Watch, TypeOK
  <2>2. CASE q = r
    <3>1. /\ view'[q][o] = api[o]
          /\ \A p \in Objects \ {o} : view'[q][p] = view[q][p]
          /\ UNCHANGED <<api, pc, cur, got>> /\ pc[q] # "down"
      BY <1>2, <2>2 DEF Watch, TypeOK
    <3>2. \A p \in Objects :
              /\ Version(view[q][p], api[p])
              /\ api[p].rv \in Nat /\ view[q][p].rv \in Nat
      BY <1>a, <3>1 DEF CacheOf, TypeOK, States
    <3>3. got[q].rv \in Nat
      BY DEF TypeOK, States
    <3> QED
      BY <1>a, <3>1, <3>2, <3>3 DEF CacheOf, Version
  <2> QED
    BY <2>1, <2>2
<1>3. ASSUME NEW r \in Replicas, NEW o \in Objects, Get(r, o) PROVE CacheOf(q)'
  <2>1. CASE q # r
    BY <1>3, <1>b, <2>1 DEF Get, TypeOK
  <2>2. CASE q = r
    <3>1. /\ cur'[q] = o /\ got'[q] = view[q][o] /\ pc'[q] = AfterGet(view[q][o])
          /\ UNCHANGED <<api, view>> /\ pc[q] = "idle"
      BY <1>3, <2>2 DEF Get, TypeOK
    <3>2. Version(view[q][o], api[o]) /\ view[q][o].rv \in Nat
      BY <1>a, <3>1 DEF CacheOf, TypeOK, States
    <3> QED
      BY <1>a, <3>1, <3>2 DEF CacheOf, AfterGet, Version
  <2> QED
    BY <2>1, <2>2
<1>4. ASSUME NEW r \in Replicas, Finish(r), UNCHANGED view, pc[r] \in Busy
      PROVE  CacheOf(q)'
  <2>1. /\ q = r => pc'[q] = "idle" /\ pc[q] # "down"
        /\ q # r => pc'[q] = pc[q] /\ cur'[q] = cur[q] /\ got'[q] = got[q]
    BY <1>4, WorkerHolds DEF Busy
  <2> QED
    BY <1>4, <1>a, <2>1, CacheFrame DEF Busy
<1>5. ASSUME NEW r \in Replicas, AddFinalizer(r) PROVE CacheOf(q)'
  <2>1. CASE Requeue(r)
    BY <1>5, <1>4, <2>1 DEF AddFinalizer, Requeue, Busy
  <2>2. CASE /\ Accepted(r) /\ Update(r, TRUE)
             /\ got' = [got EXCEPT ![r] = api'[cur[r]]]
             /\ pc' = [pc EXCEPT ![r] = "sync"]
             /\ UNCHANGED cur
    <3>1. CASE q # r
      BY <1>5, <1>b, <2>2, <3>1 DEF AddFinalizer, TypeOK
    <3>2. CASE q = r
      <4>1. pc[q] = "add" /\ UNCHANGED <<view, cur>>
        BY <1>5, <2>2, <3>2 DEF AddFinalizer
      <4>2. cur[q] \in Objects /\ got[q].phase = "live" /\ Version(got[q], api[cur[q]])
        BY <1>a, <4>1 DEF CacheOf, Busy
      <4>3. api[cur[q]].phase = "live"
        BY <2>2, <3>2, <4>2 DEF Accepted, Version
      <4>4. got'[q] = api'[cur[q]] /\ pc'[q] = "sync"
        BY <2>2, <3>2 DEF TypeOK
      <4>5. api'[cur[q]].phase = "live"
        BY <2>2, <3>2, <4>2, <4>3 DEF Update, Write, TypeOK
      <4>6. api'[cur[q]].rv \in Nat
        BY <1>a, <4>2 DEF TypeOK, States
      <4>7. \A o \in Objects : Version(view[q][o], api'[o])
        BY <1>a, <4>1, VersionKept DEF CacheOf, TypeOK, ApiAdvances
      <4> QED
        BY <4>1, <4>2, <4>4, <4>5, <4>6, <4>7 DEF CacheOf, Version
    <3> QED
      BY <3>1, <3>2
  <2> QED
    BY <1>5, <2>1, <2>2 DEF AddFinalizer
<1>6. ASSUME NEW r \in Replicas, Sync(r) PROVE CacheOf(q)'
  <2>1. CASE Finish(r)
    BY <1>6, <1>4, <2>1 DEF Sync, Busy
  <2>2. CASE pc' = [pc EXCEPT ![r] = "remove"] /\ UNCHANGED <<cur, got>>
    <3>1. /\ q = r => pc[q] = "sync" /\ pc'[q] = "remove"
          /\ q # r => pc'[q] = pc[q]
          /\ UNCHANGED <<view, cur, got>>
      BY <1>6, <2>2 DEF Sync, TypeOK
    <3> QED
      BY <1>a, <3>1, CacheFrame DEF Busy
  <2> QED
    BY <1>6, <2>1, <2>2 DEF Sync
<1>7. ASSUME NEW r \in Replicas, SyncFails(r) \/ RemoveFinalizer(r) \/ UpdateFails(r)
      PROVE  CacheOf(q)'
  <2>1. Finish(r) /\ UNCHANGED view /\ pc[r] \in Busy
    BY <1>7 DEF SyncFails, RemoveFinalizer, UpdateFails, Requeue, Busy
  <2> QED
    BY <1>4, <2>1
<1>8. ASSUME NEW r \in Replicas, Crash(r) PROVE CacheOf(q)'
  <2>1. CASE q # r
    BY <1>8, <1>b, <2>1 DEF Crash, TypeOK
  <2>2. CASE q = r
    BY <1>8, <2>2 DEF Crash, TypeOK, CacheOf, Busy
  <2> QED
    BY <2>1, <2>2
<1>9. ASSUME NEW r \in Replicas, Start(r) PROVE CacheOf(q)'
  <2>1. CASE q # r
    BY <1>9, <1>b, <2>1 DEF Start, TypeOK
  <2>2. CASE q = r
    <3>1. view'[q] = api /\ UNCHANGED api /\ pc'[q] = "idle"
      BY <1>9, <2>2 DEF Start, TypeOK
    <3>2. \A o \in Objects : api[o].rv <= api[o].rv
      BY DEF TypeOK, States
    <3> QED
      BY <3>1, <3>2 DEF CacheOf, Busy, Version
  <2> QED
    BY <2>1, <2>2
<1>10. CASE UNCHANGED vars
  BY <1>b, <1>10 DEF vars
<1> QED
  BY <1>1, <1>2, <1>3, <1>5, <1>6, <1>7, <1>8, <1>9, <1>10 DEF Next, Reconcile, Wait

\* Whoever may still remove a finalizer has removed the file.
LEMMA CleanStep == Inv /\ [Next]_vars => CleanInv'
<1> SUFFICES ASSUME Inv, [Next]_vars, NEW q \in Replicas,
                    pc'[q] = "remove", api'[cur'[q]].rv = got'[q].rv
             PROVE  disk'[q][cur'[q]] = 0
  BY DEF CleanInv
<1> USE DEF cluster, worker
<1>a. TypeOK /\ CacheInv /\ CleanInv /\ CacheOf(q) /\ ApiAdvances
  BY ApiStep DEF Inv, CacheInv
<1>b. ASSUME pc'[q] = pc[q], cur'[q] = cur[q], got'[q] = got[q], disk'[q] = disk[q]
      PROVE  disk'[q][cur'[q]] = 0
  <2>1. cur[q] \in Objects /\ got[q].rv <= api[cur[q]].rv
    BY <1>a, <1>b DEF CacheOf, Version, Busy
  <2>2. api[cur[q]].rv \in Nat /\ got[q].rv \in Nat
    BY <1>a, <2>1 DEF TypeOK, States
  <2>3. api'[cur[q]] = api[cur[q]] \/ api'[cur[q]].rv = api[cur[q]].rv + 1
    BY <1>a, <2>1 DEF ApiAdvances
  <2>4. api[cur[q]].rv = got[q].rv
    BY <1>b, <2>1, <2>2, <2>3
  <2> QED
    BY <1>a, <1>b, <2>4 DEF CleanInv
<1>1. ASSUME NEW o \in Objects, Create(o) \/ Edit(o) \/ Delete(o)
      PROVE  disk'[q][cur'[q]] = 0
  BY <1>1, <1>b DEF Create, Edit, Delete
<1>2. ASSUME NEW r \in Replicas, NEW o \in Objects, Watch(r, o)
      PROVE  disk'[q][cur'[q]] = 0
  BY <1>2, <1>b DEF Watch
<1>3. ASSUME NEW r \in Replicas, NEW o \in Objects, Get(r, o)
      PROVE  disk'[q][cur'[q]] = 0
  BY <1>3, <1>a, <1>b DEF Get, AfterGet, TypeOK
<1>4. ASSUME NEW r \in Replicas, Finish(r), \A p \in Replicas \ {r} : disk'[p] = disk[p]
      PROVE  disk'[q][cur'[q]] = 0
  BY <1>4, <1>a, <1>b, WorkerHolds
<1>5. ASSUME NEW r \in Replicas, AddFinalizer(r) PROVE disk'[q][cur'[q]] = 0
  <2>1. CASE Requeue(r)
    BY <1>5, <1>4, <2>1 DEF AddFinalizer, Requeue
  <2>2. CASE /\ got' = [got EXCEPT ![r] = api'[cur[r]]]
             /\ pc' = [pc EXCEPT ![r] = "sync"]
             /\ UNCHANGED cur
    BY <1>5, <1>a, <1>b, <2>2 DEF AddFinalizer, TypeOK
  <2> QED
    BY <1>5, <2>1, <2>2 DEF AddFinalizer
<1>6. ASSUME NEW r \in Replicas, Sync(r) PROVE disk'[q][cur'[q]] = 0
  <2>1. \A p \in Replicas \ {r} : disk'[p] = disk[p]
    BY <1>6, <1>a DEF Sync, TypeOK
  <2>2. CASE Finish(r)
    BY <1>4, <2>1, <2>2
  <2>3. CASE /\ pc' = [pc EXCEPT ![r] = "remove"] /\ UNCHANGED <<cur, got>>
             /\ Releases(got[r]) /\ q = r
    <3>1. cur[q] \in Objects /\ got[q].phase = "terminating" /\ UNCHANGED <<api, cur, got>>
      BY <1>6, <1>a, <2>3 DEF Sync, CacheOf, Busy, Releases
    <3>2. /\ got[q].rv <= view[q][cur[q]].rv
          /\ Version(view[q][cur[q]], api[cur[q]]) /\ Version(got[q], api[cur[q]])
      BY <1>6, <1>a, <2>3, <3>1 DEF Sync, CacheOf, Busy
    <3>3. view[q][cur[q]].rv \in Nat /\ api[cur[q]].rv \in Nat
      BY <1>a, <3>1 DEF TypeOK, States
    <3>4. view[q][cur[q]].phase = "terminating"
      BY <3>1, <3>2, <3>3 DEF Version
    <3>5. disk'[q] = Wanted(view[q])
      BY <1>6, <1>a, <2>3 DEF Sync, TypeOK
    <3> QED
      BY <3>1, <3>4, <3>5 DEF Wanted
  <2>4. CASE pc' = [pc EXCEPT ![r] = "remove"] /\ UNCHANGED <<cur, got>> /\ q # r
    BY <1>a, <1>b, <2>1, <2>4 DEF TypeOK
  <2> QED
    BY <1>6, <2>2, <2>3, <2>4 DEF Sync
<1>7. ASSUME NEW r \in Replicas, SyncFails(r) \/ RemoveFinalizer(r) \/ UpdateFails(r)
      PROVE  disk'[q][cur'[q]] = 0
  <2>1. Finish(r)
    BY <1>7 DEF SyncFails, RemoveFinalizer, UpdateFails, Requeue
  <2>2. \A p \in Replicas \ {r} : disk'[p] = disk[p]
    BY <1>7, <1>a DEF SyncFails, RemoveFinalizer, UpdateFails, TypeOK
  <2> QED
    BY <1>4, <2>1, <2>2
<1>8. ASSUME NEW r \in Replicas, Crash(r) PROVE disk'[q][cur'[q]] = 0
  BY <1>8, <1>a, <1>b DEF Crash, TypeOK
<1>9. ASSUME NEW r \in Replicas, Start(r) PROVE disk'[q][cur'[q]] = 0
  BY <1>9, <1>a, <1>b DEF Start, TypeOK
<1>10. CASE UNCHANGED vars
  BY <1>b, <1>10 DEF vars
<1> QED
  BY <1>1, <1>2, <1>3, <1>5, <1>6, <1>7, <1>8, <1>9, <1>10 DEF Next, Reconcile, Wait

\* What the informer learns after a sync is queued for the next one.
LEMMA FreshStep == Inv /\ [Next]_vars => FreshInv'
<1> SUFFICES ASSUME Inv, [Next]_vars, NEW q \in Replicas,
                    synced'[q], queue'[q] = {}, pc'[q] \in {"idle", "remove"}
             PROVE  disk'[q] = Wanted(view'[q])
  BY DEF FreshInv, Wanted
<1> USE DEF cluster, worker
<1>a. TypeOK /\ CacheInv /\ FreshInv /\ DownInv
  BY DEF Inv
<1>b. ASSUME synced[q], queue[q] = {}, pc[q] \in {"idle", "remove"},
             disk'[q] = disk[q], view'[q] = view[q]
      PROVE  disk'[q] = Wanted(view'[q])
  BY <1>a, <1>b DEF FreshInv
<1>1. ASSUME NEW o \in Objects, Create(o) \/ Edit(o) \/ Delete(o)
      PROVE  disk'[q] = Wanted(view'[q])
  BY <1>1, <1>b DEF Create, Edit, Delete
<1>2. ASSUME NEW r \in Replicas, NEW o \in Objects, Watch(r, o)
      PROVE  disk'[q] = Wanted(view'[q])
  BY <1>2, <1>a, <1>b DEF Watch, TypeOK
<1>3. ASSUME NEW r \in Replicas, NEW o \in Objects, Get(r, o)
      PROVE  disk'[q] = Wanted(view'[q])
  BY <1>3, <1>a, <1>b DEF Get, AfterGet, TypeOK
<1>4. ASSUME NEW r \in Replicas, Requeue(r), UNCHANGED <<view, synced>>,
             \A p \in Replicas \ {r} : disk'[p] = disk[p]
      PROVE  disk'[q] = Wanted(view'[q])
  <2>1. queue' = [queue EXCEPT ![r] = @ \cup {cur[r]}] /\ Finish(r)
    BY <1>4 DEF Requeue
  <2>2. q # r
    BY <1>a, <2>1 DEF TypeOK
  <2>3. queue'[q] = queue[q] /\ pc'[q] = pc[q]
    BY <1>a, <2>1, <2>2, WorkerHolds DEF TypeOK
  <2> QED
    BY <1>4, <1>b, <2>2, <2>3
<1>5. ASSUME NEW r \in Replicas, AddFinalizer(r) PROVE disk'[q] = Wanted(view'[q])
  <2>1. CASE Requeue(r)
    BY <1>5, <1>4, <2>1 DEF AddFinalizer
  <2>2. CASE pc' = [pc EXCEPT ![r] = "sync"] /\ UNCHANGED queue
    BY <1>5, <1>a, <1>b, <2>2 DEF AddFinalizer, TypeOK
  <2> QED
    BY <1>5, <2>1, <2>2 DEF AddFinalizer
<1>6. ASSUME NEW r \in Replicas, Sync(r) PROVE disk'[q] = Wanted(view'[q])
  <2>1. CASE q = r
    BY <1>6, <1>a, <2>1 DEF Sync, TypeOK
  <2>2. CASE q # r
    <3>1. pc'[q] = pc[q] /\ queue'[q] = queue[q]
      BY <1>6, <1>a, <2>2, WorkerHolds DEF Sync, TypeOK
    <3>2. synced'[q] = synced[q] /\ disk'[q] = disk[q] /\ view'[q] = view[q]
      BY <1>6, <1>a, <2>2 DEF Sync, TypeOK
    <3> QED
      BY <1>b, <3>1, <3>2
  <2> QED
    BY <2>1, <2>2
<1>7. ASSUME NEW r \in Replicas, SyncFails(r) \/ UpdateFails(r)
      PROVE  disk'[q] = Wanted(view'[q])
  <2>1. Requeue(r) /\ UNCHANGED <<view, synced>>
    BY <1>7 DEF SyncFails, UpdateFails
  <2>2. \A p \in Replicas \ {r} : disk'[p] = disk[p]
    BY <1>7, <1>a DEF SyncFails, UpdateFails, TypeOK
  <2> QED
    BY <1>4, <2>1, <2>2
<1>8. ASSUME NEW r \in Replicas, RemoveFinalizer(r) PROVE disk'[q] = Wanted(view'[q])
  <2>1. CASE Requeue(r)
    BY <1>8, <1>4, <2>1 DEF RemoveFinalizer
  <2>2. CASE Finish(r) /\ UNCHANGED queue
    BY <1>8, <1>a, <1>b, <2>2, WorkerHolds DEF RemoveFinalizer
  <2> QED
    BY <1>8, <2>1, <2>2 DEF RemoveFinalizer
<1>9. ASSUME NEW r \in Replicas, Crash(r) PROVE disk'[q] = Wanted(view'[q])
  BY <1>9, <1>a, <1>b DEF Crash, TypeOK
<1>10. ASSUME NEW r \in Replicas, Start(r) PROVE disk'[q] = Wanted(view'[q])
  BY <1>10, <1>a, <1>b DEF Start, TypeOK, DownInv
<1>11. CASE UNCHANGED vars
  BY <1>b, <1>11 DEF vars
<1> QED
  BY <1>1, <1>2, <1>3, <1>5, <1>6, <1>7, <1>8, <1>9, <1>10, <1>11
     DEF Next, Reconcile, Wait

\* Only Crash stops a replica.
LEMMA DownStep == Inv /\ [Next]_vars => DownInv'
<1> SUFFICES ASSUME TypeOK, DownInv, [Next]_vars, NEW q \in Replicas, pc'[q] = "down"
             PROVE  ~synced'[q]
  BY DEF Inv, DownInv
<1> USE DEF cluster, worker
<1>1. ASSUME NEW o \in Objects, Create(o) \/ Edit(o) \/ Delete(o) PROVE ~synced'[q]
  BY <1>1 DEF Create, Edit, Delete, DownInv
<1>2. ASSUME NEW r \in Replicas, NEW o \in Objects, Watch(r, o) \/ Get(r, o)
      PROVE  ~synced'[q]
  BY <1>2 DEF Watch, Get, AfterGet, DownInv, TypeOK
<1>3. ASSUME NEW r \in Replicas, Finish(r), \A p \in Replicas \ {r} : synced'[p] = synced[p]
      PROVE  ~synced'[q]
  BY <1>3, WorkerHolds DEF DownInv
<1>4. ASSUME NEW r \in Replicas,
             SyncFails(r) \/ UpdateFails(r) \/ RemoveFinalizer(r)
      PROVE  ~synced'[q]
  BY <1>3, <1>4 DEF SyncFails, UpdateFails, RemoveFinalizer, Requeue
<1>5. ASSUME NEW r \in Replicas, AddFinalizer(r) PROVE ~synced'[q]
  <2>1. CASE Finish(r)
    BY <1>3, <1>5, <2>1 DEF AddFinalizer
  <2>2. CASE pc' = [pc EXCEPT ![r] = "sync"]
    BY <1>5, <2>2 DEF AddFinalizer, DownInv, TypeOK
  <2> QED
    BY <1>5, <2>1, <2>2 DEF AddFinalizer, Requeue
<1>6. ASSUME NEW r \in Replicas, Sync(r) PROVE ~synced'[q]
  <2>1. \A p \in Replicas \ {r} : synced'[p] = synced[p]
    BY <1>6 DEF Sync, TypeOK
  <2>2. CASE Finish(r)
    BY <1>3, <2>1, <2>2
  <2>3. CASE pc' = [pc EXCEPT ![r] = "remove"]
    BY <2>1, <2>3 DEF DownInv, TypeOK
  <2> QED
    BY <1>6, <2>2, <2>3 DEF Sync
<1>7. ASSUME NEW r \in Replicas, Crash(r) \/ Start(r) PROVE ~synced'[q]
  BY <1>7 DEF Crash, Start, DownInv, TypeOK
<1>8. CASE UNCHANGED vars
  BY <1>8 DEF vars, DownInv
<1> QED
  BY <1>1, <1>2, <1>4, <1>5, <1>6, <1>7, <1>8 DEF Next, Reconcile, Wait

\* The invariant holds in every run.
LEMMA ClusterInvariant == Spec => []Inv
<1>1. Inv /\ [Next]_vars => Inv'
  BY TypeStep, CacheStep, CleanStep, FreshStep, DownStep DEF Inv
<1> QED
  BY InvInit, <1>1, PTL DEF Spec

-----------------------------------------------------------------------------
(* The properties.                                                         *)

\* Each variable keeps its type: files only ever hold the contents of objects.
THEOREM TypeCorrect == Spec => []TypeOK
<1>1. Inv => TypeOK
  BY DEF Inv
<1> QED
  BY ClusterInvariant, <1>1, PTL

\* A replica at rest that has synced since it started has exactly the files of
\* the live objects, with any number of replicas, objects, edits and faults.
THEOREM FilesFollowHolds == Spec => []FilesFollow
<1>1. Inv => FilesFollow
  BY DEF Inv, FreshInv, FilesFollow, AtRest, Wanted, LiveFiles
<1> QED
  BY ClusterInvariant, <1>1, PTL

\* An accepted Update writes the object that the API server has.
LEMMA AcceptedCurrent ==
    ASSUME Inv, NEW r \in Replicas, pc[r] \in Busy, Accepted(r)
    PROVE  cur[r] \in Objects /\ got[r] = api[cur[r]]
  BY DEF Inv, CacheInv, CacheOf, Version, Accepted

\* Reconcilers change an object by an accepted Update alone.
LEMMA WorkerWrites ==
    ASSUME Inv, [Next]_vars, events' = events, api' # api
    PROVE  \E r \in Replicas :
               /\ Accepted(r)
               /\ \/ pc[r] = "add" /\ Update(r, TRUE)
                  \/ pc[r] = "remove" /\ Update(r, FALSE) /\ pc'[r] # "remove"
<1> USE DEF cluster
<1>1. ASSUME NEW o \in Objects, Create(o) \/ Edit(o) \/ Delete(o) PROVE FALSE
  <2>1. ByUser /\ events \in Nat
    BY <1>1 DEF Create, Edit, Delete, Inv, TypeOK
  <2> QED
    BY <2>1 DEF ByUser
<1>2. ASSUME NEW r \in Replicas, NEW o \in Objects, Watch(r, o) \/ Get(r, o) PROVE FALSE
  BY <1>2 DEF Watch, Get
<1>3. ASSUME NEW r \in Replicas, Sync(r) \/ SyncFails(r) \/ Crash(r) \/ Start(r)
      PROVE  FALSE
  BY <1>3 DEF Sync, SyncFails, Crash, Start
<1>4. ASSUME NEW r \in Replicas, AddFinalizer(r) \/ RemoveFinalizer(r) \/ UpdateFails(r)
      PROVE  /\ Accepted(r)
             /\ \/ pc[r] = "add" /\ Update(r, TRUE)
                \/ pc[r] = "remove" /\ Update(r, FALSE) /\ pc'[r] # "remove"
  <2>0. Finish(r) => pc'[r] # "remove"
    BY DEF Finish, Inv, TypeOK
  <2>1. CASE AddFinalizer(r)
    BY <2>1 DEF AddFinalizer
  <2>2. CASE RemoveFinalizer(r)
    BY <2>0, <2>2 DEF RemoveFinalizer
  <2>3. CASE UpdateFails(r) /\ pc[r] = "add"
    BY <2>3 DEF UpdateFails
  <2>4. CASE UpdateFails(r) /\ pc[r] = "remove"
    <3>1. (pc[r] = "add") = FALSE
      BY <2>4
    <3> QED
      BY <2>0, <2>4, <3>1 DEF UpdateFails, Requeue
  <2> QED
    BY <1>4, <2>1, <2>2, <2>3, <2>4 DEF UpdateFails
<1> QED
  BY <1>1, <1>2, <1>3, <1>4 DEF Next, Reconcile, Wait, vars

\* No Update of any replica undoes an edit or begins a deletion, because an
\* accepted Update writes back the spec of the current version.
THEOREM UpdatesKeepSpecHolds == Spec => UpdatesKeepSpec
<1>1. ASSUME Inv, [Next]_vars, NEW o \in Objects, events' = events, api[o].phase = "live"
      PROVE  api'[o].phase = "live" /\ api'[o].gen = api[o].gen
  <2>1. CASE api' = api
    BY <1>1, <2>1
  <2>2. CASE api' # api
    <3>1. PICK r \in Replicas :
                 /\ Accepted(r)
                 /\ \/ pc[r] = "add" /\ Update(r, TRUE)
                    \/ pc[r] = "remove" /\ Update(r, FALSE)
      BY <1>1, <2>2, WorkerWrites
    <3>2. cur[r] \in Objects /\ got[r] = api[cur[r]]
      BY <1>1, <3>1, AcceptedCurrent DEF Busy
    <3>3. api \in [Objects -> States]
      BY <1>1 DEF Inv, TypeOK
    <3>4. CASE o = cur[r]
      BY <1>1, <3>1, <3>2, <3>3, <3>4 DEF Update, Write
    <3>5. CASE o # cur[r]
      BY <1>1, <3>1, <3>2, <3>3, <3>5 DEF Update, Write
    <3> QED
      BY <3>4, <3>5
  <2> QED
    BY <2>1, <2>2
<1>2. Inv /\ [Next]_vars => [\A o \in Objects :
         events' = events /\ api[o].phase = "live" =>
             api'[o].phase = "live" /\ api'[o].gen = api[o].gen]_vars
  BY <1>1
<1> QED
  BY ClusterInvariant, <1>2, PTL DEF Spec, UpdatesKeepSpec

\* The last finalizer of an object goes only by the step of a replica without its
\* file.
THEOREM ReleasedCleanHolds == Spec => ReleasedClean
<1>1. ASSUME Inv, [Next]_vars, NEW o \in Objects,
             api[o].phase = "terminating", api'[o].phase = "absent"
      PROVE  \E r \in Replicas : /\ pc[r] = "remove" /\ pc'[r] # "remove"
                                 /\ cur[r] = o /\ disk[r][o] = 0
  <2>0. api \in [Objects -> States] /\ events \in Nat
    BY <1>1 DEF Inv, TypeOK
  <2>1. ASSUME NEW p \in Objects, Create(p) \/ Edit(p) \/ Delete(p) PROVE FALSE
    <3>1. p # o
      BY <1>1, <2>1 DEF Create, Edit, Delete
    <3>2. api'[o] = api[o]
      BY <2>0, <2>1, <3>1 DEF Create, Edit, Delete, Write
    <3> QED
      BY <1>1, <3>2
  <2>2. events' = events
    BY <1>1, <2>1 DEF Next, Reconcile, Wait, vars, Watch, Get, AddFinalizer, Sync,
       RemoveFinalizer, SyncFails, UpdateFails, Crash, Start, cluster
  <2>3. PICK r \in Replicas :
               /\ Accepted(r)
               /\ \/ pc[r] = "add" /\ Update(r, TRUE)
                  \/ pc[r] = "remove" /\ Update(r, FALSE) /\ pc'[r] # "remove"
    BY <1>1, <2>2, WorkerWrites
  <2>4. cur[r] \in Objects /\ got[r] = api[cur[r]]
    BY <1>1, <2>3, AcceptedCurrent DEF Busy
  <2>5. cur[r] = o
    BY <1>1, <2>0, <2>3, <2>4 DEF Update, Write
  <2>6. pc[r] = "remove" /\ pc'[r] # "remove"
    BY <1>1, <2>0, <2>3, <2>5 DEF Update, Write
  <2>7. disk[r][o] = 0
    BY <1>1, <2>4, <2>5, <2>6 DEF Inv, CleanInv
  <2> QED
    BY <2>5, <2>6, <2>7
<1>2. Inv /\ [Next]_vars => [\A o \in Objects :
         api[o].phase = "terminating" /\ api'[o].phase = "absent" =>
             \E r \in Replicas : /\ pc[r] = "remove" /\ pc'[r] # "remove"
                                 /\ cur[r] = o /\ disk[r][o] = 0]_vars
  BY <1>1
<1> QED
  BY ClusterInvariant, <1>2, PTL DEF Spec, ReleasedClean
=============================================================================
