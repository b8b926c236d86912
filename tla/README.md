# Verification of notation-aws-verifier in TLA+

The verifier is an admission helper for Kyverno. A replica keeps the TrustPolicy
and TrustStore objects of the cluster as files in its notation directory, builds
a notation verifier per policy file, and answers `/checkimages`: it verifies the
signatures of a Pod's images and their attestations and returns patches that pin
the images to digests. The specifications here model the concurrent parts of
that program, TLC checks them on small instances, and TLAPS proves the safety
properties for every instance.

## The system

| Part | State | Operations | Module |
| --- | --- | --- | --- |
| TrustPolicy and TrustStore controllers (`internal/kubenotation`) | objects with finalizers, informer caches, workqueues, files on disk | Reconcile: finalizer, list, write, delete, notify; requeue on error | `TrustSync` (one replica, step by step), `TrustCluster` (several replicas and the API server) |
| Change notification and reload (`main.go`, `verifier/client.go`, `notationfactory`) | channel of capacity one, verifier map, cache | receive, RefreshVerifiers, swap, Clear; retry at startup | `TrustSync`; with the requests it races with in `CheckImages` |
| Requests (`verifier/client.go`, `request.go`, `verify.go`, `response.go`) | verifier obtained, images to do, results | token review, validation, verifyImagesAndAttestations and what it calls | `CheckImages` |
| Verification cache (`internal/cache`) | entries by policy, image, attestation type and conditions; ristretto's set buffer | Get, Add, Clear, eviction, expiry | `CheckImages` |
| Provider credentials (`verifier/keychain.go`) | entries by registry, with expiry | Resolve | `CachingKeychain` |
| Process life cycle (`main.go`) | flags, readiness, servers, manager, context, exit status | run, Shutdown, Stop, signals, restarts | `Server` |
| Plugin installation (`internal/setup`) | plugin files on a volume that survives restarts | copyTree | `Server` |
| Serving certificate (`main.go`) | secret informer, parsed certificate | GetCertificate | `ServingCert`, which implements `CertSource`; composed in `Server` |
| Keychain composition (`verifier/auth.go`) | none | getKeychain | not modelled: a list per request |
| Leader election, certificate renewal | in libraries | started by `run` | not modelled: library code |
| Flags, logging, API types, generated code | none | parsing, wording | not modelled: no behaviour over time |

Two controller workers, the main loop and the request handlers of a replica run
concurrently. The workers and the main loop share the notation directory without
a lock and are connected only by the channel; the main loop and the handlers
share the verifier map (under a read-write lock) and the cache; notation reads
the trust stores from the directory whenever it verifies. The hard behaviours
are therefore lost or late notifications, reloads that overlap with syncs,
results that outlive the trust data they were reached with, tags that move
between two lookups, errors in the middle of a sync, and restarts that keep the
directory. Between replicas they are finalizers that several controllers add and
remove through caches that lag behind, and within the process the order in which
goroutines start, fail and stop.
`PROJECT.json` lists them as hazards, each at its line.

## Modules

### TrustSync: from objects to verifiers

`claims[k][n]` holds the contents that the live objects of kind `k` give to the
name `n` (names are not unique across objects). Each worker goes through
`Reconcile`, `List`, one `WriteFile` per desired file, `ScanDir`, one
`RemoveFile` per stale file, `Notify` and `ReconcileDone`, or leaves from any of
them by `ReconcileError`, which puts the request back. The loader goes through
`Receive`, `ReadDir`, one `LoadPolicy` (or `RefuseRefresh`) per file,
`SwapVerifiers` and `ClearCache`; `RefreshError` is an I/O error. Before
`serving`, a failed refresh is repeated, as NewVerifier does. `Restart` resets
everything but the objects and the directory. `dirty` and `lost` are history:
which kinds changed on disk since the cache was cleared, and which errors dropped
an update since the directory was last listed.

Abstractions. Every reconcile syncs the full list, so a workqueue is one flag per
controller. `writeFileIfChanged` ends in a rename and is one step, and so is
RemoveAll of a store. Files are loaded in any order. Contents are model values,
some of them `Malformed`: those that loadTrustPolicy or verifier.New rejects.

### TrustCluster: replicas and finalizers

One kind of object in several replicas. `api[o]` is the object in the API server
with its phase (absent, live, terminating), finalizer, resource version and
generation; `view[r]` is what the informer of replica `r` has seen, and may lag.
A reconcile is `Get`, `AddFinalizer` for a live object without one, `Sync`, and
`RemoveFinalizer` for an object under deletion; `Update` is refused unless the
resource version is the one that was read (`Accepted`), and the object is then
queued again (`Requeue`). `SyncFails` leaves some files written, `UpdateFails`
may or may not have reached the API server, `Crash` and `Start` are a restart
of the container, with its directory or on a new volume. `synced` is history.

Abstractions. Each object has a file name of its own (TrustSync covers shared
names), and a successful sync is one step (TrustSync has its steps). Without
`--leader-elect`, which the chart does not set, every replica runs the
controllers.

### CheckImages: requests, cache and reloads

Each handler has the locals of verifyImagesAndAttestations. After `Accept`
comes the token review (`Authenticate`) if it is on, then decoding and
validation (`Refuse`, or on to `GetVerifier`). `GetVerifier` fixes the policy document `doc`;
`VerifyImageInfo` takes an image from the cache or goes through `ResolveDigest`,
`VerifyReferences` and `AddImage`; `VerifyAttestation` takes an image's
attestations from the cache or goes through `Head`, then per referrer
`CheckReferrer`, `VerifyReferrer` and `AddAttestation`. `RequestFails` is any
failing call. New cache entries wait in `setBuf` until `ProcessSet` admits or
rejects them. Each entry and result carries its `basis`, the policy, document and
stores it was reached with, as history.

Around the handlers, `Push` moves a tag. The syncs of the controllers change one
file at a time (`ChangeFiles`) and end with `Notify`, or with `SyncFails`: an error
ends the sync without a notification, and a retry that finds the files as they
should be does not notify either. So requests can read files whose change has
not been, or never will be, announced. The main loop goes through `Receive`, one
`LoadPolicy` per listed file, `RefreshVerifiers`, which replaces the map, and
`ClearCache`, or leaves by `RefreshFails`, which changes neither map nor cache.
RefreshVerifiers holds the factory's write lock throughout, so `GetVerifier` waits
while `reload = "load"`; between the swap and the clear it does not. `lost`,
`missed` and `overlap` are history: since the files were last listed a sync
changed some and failed; a reload failed; a request held replaced trust data when
the cache was cleared.

Abstractions. `Verdict` says what notation.Verify returns for a document, the
stores, a repository (that of the image reference) and a digest: accept, reject or
skip. Whether it skips depends on the document and the repository alone, since the
statement that applies is chosen by repository (`SkipAssumption`). `Meets` says which referrers satisfy
the conditions of a required attestation. The referrers of a manifest do not
change. What the API server says of a token, and whether the body is complete, is
part of the request. The set buffer is a set: the order in which ristretto
processes it is left open. The trust stores together are one value, and what a
sync should write is left to TrustSync: here any file may change at any time.

### CachingKeychain: credentials

Resolve is split where the mutex is released: `Resolve` reads the clock, `Lookup`
the table, `InnerResolve` or `InnerHasNone` is the provider's answer, `Store`
purges and stores. `Tick` may come between any two steps. A credential is
represented by the time the provider issued it.

### CertSource and ServingCert: the certificate of a handshake

`CertSource` is what a client may rely on: a handshake is answered, at one moment
of its duration, from the secret as it is then. `ServingCert` is GetCertificate:
`GetSecret`, `LoadCurrent` and `ParseAndStore` of concurrent handshakes interleave
with each other and with `Rotate`, and share the pointer `current`. The refinement
mapping puts the moment of the answer at `GetSecret`; `ServesCurrent` is the
abstract specification under that mapping. A certificate is represented by the
version of the secret it comes from; a secret is absent or of another type
(`none`), does not parse (`broken`), or is a `pair`.

### Server: the life of the process

`main` is the position of the main goroutine in `run`: `flags` (cacheTTL),
`plugins` (one `TruncatePlugin` and `WritePlugin` per file), `verifier` (attempts
of NewVerifier), `servers`, `ready`, `loop` and `reload`, `unready`, `shutdown`
(`CloseListener` and `ShutdownReturns` of one server after the other), and the
three parts of Stop: `stop`, `informers`, `cache`. Beside it run the manager
(`ManagerReturns`), the servers (`Listen`, `ServerFails`), the informers
(`InformersEnd`) and the connections, whose TLS handshakes are those of
`ServingCert`. `Signal` may come at any time after NotifyContext; `Kill` at any
time; `Restart` keeps the flags and the volume with the plugins, and may happen
any number of times. `failed` and `timedOut` are history.

Abstractions. A connection carries one request. A reload is the interval in
which the main loop does not look at its channels; TrustSync has its contents.
Machine integers are signed with maximum `MaxInt`, and products wrap.

## What the runs check

| Run | Instance | Shows |
| --- | --- | --- |
| `sync` | 2 kinds, 2 names, 2 contents (1 malformed), 2 events, 1 error, 1 restart, fairness | `NoLostReload`, `FilesFollowObjects`, `EventuallyInForce`, types |
| `sync_notify` | 2 names, 1 content, 1 event, 1 error | violated: `EveryChangeNotified` |
| `check_pin` | 2 handlers, 2 requests of 2 images (1 selected, by tag), 2 policies, 1 push, 1 change with or without its notification | `PinnedWasVerified`, `CacheCurrent`, types |
| `check_attest` | cache on and off, token review, 2 requests with attestations by tag and digest, other tokens and incomplete bodies, a document that skips one repository, 1 push | `RequiredWasAttested`, `DigestRefsAttested`, `AllReferrersAccepted` |
| `check_live` | attestations, cache on and off, 2 stores, 1 change, fairness | `AllReferrersAccepted`, `EveryRequestAnswered` |
| `check_tagmove` | cache on, 1 push | violated: `PinnedIsAttested` |
| `check_clear` | 1 change | violated: `ClearedOnChange` |
| `keychain` | 2 callers, 3 registries, room for 2, TTL 2, time to 4 | `Bounded`, `NeverTooOld`, types |
| `cluster` | 2 replicas, 2 objects, 2 events, 1 fault, fairness | `FilesFollow`, `ReleasedClean`, `UpdatesKeepSpec`, `ReplicasConverge`, types |
| `cluster_stale` | 2 replicas, 1 object, 2 events, 1 fault | violated: `StaleFilesDeleted` |
| `server` | 2 servers, 2 TLS and 1 plain connection, 2 versions of the secret, 2 plugin files, 2 attempts, any number of restarts, fairness | `ExitTruthful`, `DrainedBeforeStop`, `PluginsWhole`, `TTLExact`, `ServesCurrent`, `Exits`, types |
| `ready` | 1 server | violated: `ReadyServes` |

Bounds. Two names and two events let one sync overlap another's changes, or an
event arrive during the reload; one error can hit any step; two contents
and a malformed one let a file change, disappear and be refused. Two requests are
enough for one to use, or be misled by, the other's cache entries; one push or
one change can fall between any two of their steps. Two manifests, with two
referrers of one type, make the first and the second referrer differ; in
`check_live` the stores may change between the two. `check_attest` has no change of
trust data, which would multiply its states by twenty; that `RequiredWasAttested`
survives one is in the proof. In CachingKeychain a third registry overflows the table and four ticks exceed the
TTL twice. In TrustCluster two events are enough to delete an object and create it
again, or to edit one under a reconcile, and the fault may be a lost response, a
half-done sync or a crash. In Server two handshakes and two versions let an old
certificate overwrite a newer one; with a second of 10 units and integers up to
127, a TTL of 12 is the last valid one, 13 overflows to a negative number and 26
to a positive one.

Fairness. `sync` assumes weak fairness of each worker and of the main loop:
they are goroutines that never wait for each other, since notify does not block.
Events, errors and restarts are not fair. `check_live` assumes weak fairness of
each handler and of the main loop. For the handlers this is an assumption on the
environment: calls of the registry, of the credential providers and of the API
server return, with a result or an error. The code sets no deadline for them, and
the keychain's Resolve does not even get the request's context, so a call that
hangs keeps its request. A lookup that waits for the factory's lock proceeds since
refreshes end and files change finitely often. `cluster` assumes weak fairness of restarts, of informers
(watches are re-established) and of workers; the queue's backoff only delays.
`server` assumes weak fairness of the main goroutine and of the informers, and
strong fairness of leaving the loop: select chooses at random among the channels
that are ready, so reloads cannot win for ever. Nothing is assumed of clients,
handlers, the manager or the servers. A process that has exited may stay so, and
`server` does not check for deadlock.

### Where code and documents differ

* `sync_notify`: a sync that fails after changing files does not notify, and its
  retry finds the files unchanged, although the channel is said to receive "a
  notification whenever the files on disk change".
* `check_clear`: a request in flight during a reload adds its result to the cache
  after the Clear, although the cache is "cleared whenever a trust policy or
  trust store changes". `CacheCurrent` is what does hold: without such a request, and
  once every change has been announced and loaded, all entries are current.
* `check_tagmove`: attestations are looked up by tag a second time, so the digest
  in the patch need not be the one whose attestations were checked.
  `DigestRefsAttested` is what does hold.
* `cluster_stale`: a replica whose container was down when the last object of a
  kind was finalized has nothing to reconcile after its restart and keeps the
  file, although "replicas that did not remove the finalizer also delete stale
  files". `FilesFollow` is what does hold: from the first sync on.
* `ready`: the flag is set before the ports are bound, although it is said to be
  "not ready until the verifier serves requests".

## What is proved

`TrustSync_proofs` proves, for all names, contents and bounds:

* `TypeCorrect`: TrustSync's types, the channel's capacity among them.
* `NoLostReloadHolds`: `Spec => []NoLostReload`. The property speaks of replicas
  at rest and is not inductive. The strengthening `ReloadInv` says what is known
  at each point of the loader when no worker has unannounced changes and the
  channel is empty (`Quiet`): while loading, what is built so far and what is
  still pending add up to the files (`LoadAgrees`); before the clear the
  verifiers are those of the files (`ClearAgrees`); at rest the files are in
  force (`IdleAgrees`), always unless an error or a malformed file is to blame.
  `ChangedInSync` says that only a worker in a sync has unannounced changes.
* `FilesFollowObjectsHolds`: `Spec => []FilesFollowObjects`. The strengthening
  `FilesInv` follows each worker's progress: an unqueued worker's desired map is
  a current listing, files that are no longer to do hold what is desired, and in
  the delete phase only the stale files are left.

`CheckImages_proofs` proves, for all handlers, requests, registry contents, trust
data and bounds, every invariant that the runs `check_*` pass with. What a 200
response says depends on each earlier step of its handler, on what other handlers
put into the cache and on tags, files and reloads that change in between, so none
of them is inductive. The invariant `Inv` has these parts (`CheckInvariant`):

* `CacheSound`: each entry of the cache or the set buffer was verified under the
  policy in its key, for the image and attestation in its key: a manifest that
  notation accepted or skipped, or one with an accepted referrer that meets the
  conditions. An entry by digest is for that digest. It is what makes a hit as
  good as a verification, and holds because `AddImage` and `AddAttestation` use
  the very locals the handler verified.
* `Local`: what the locals of a handler hold at each point, in particular that
  the digest, store and referrer at hand are those of the verification just done,
  and that the referrers still to do are among those the request asks for.
* `OutcomeInv` and `AttestedInv`: results so far are sound, and nothing selected
  is lost: without the cache every result is of the request's own document; a
  container is to do, at hand or has a result; an image's attestations
  are to do, at hand or met; of the image at hand, each required attestation is
  met or has a pending referrer, which begins with the check in `Head` that each
  requirement has a referrer. A referrer is skipped only if the image was pinned by
  a cached result under another document (`PinnedNotSkipped`), which is the
  exception in `RequiredWasAttested`. `PinnedWasVerifiedHolds`, `RequiredWasAttestedHolds`
  and `DigestRefsAttestedHolds` follow once nothing is to do.
* `ReferrersInv`: without the cache, referrers of the image at hand that are not
  pending were accepted, and so were all those of finished images. Since an image
  is looked up once per request, its attestations are all of one manifest.
  `AllReferrersAcceptedHolds` follows.
* `CurrentInv`: what is known at each point of a reload while nothing is
  unannounced or dropped (`Settled`): what is built so far is what the files say,
  then the verifiers are those of the files. And once the cache is cleared without
  overlap, besides the entries no handler is using replaced trust data; otherwise
  the next `AddImage` could break `CacheCurrentHolds`.

A handler whose locals a step leaves alone keeps its part of the invariant
(`SameInv`, `OthersSame`), whether another handler, the main loop or the registry
moves. What is left is the handler that moves, action by action (`BeginStep` to
`SucceededStep`), and what it adds to the cache (`CacheStep`).

`CachingKeychain_proofs` proves, for all callers, registries (also infinitely
many), TTLs and bounds:

* `BoundedHolds`: the table is finite and within its bound; what `Kept` keeps
  always leaves room for one entry (`KeptLeavesRoom`).
* `NeverTooOldHolds`: every entry expires at most a TTL after its credential was
  issued, because the clock is read before the provider is asked (`ExpiryInv`).
* `TypeCorrect`, which is part of the invariant.

`TrustCluster_proofs` proves, for all replicas, objects and bounds on events and
faults, the types (`TypeCorrect`) and the three safety properties of the run
`cluster`. None of these three is inductive; the
invariant `Inv` has these parts:

* `CacheInv`: informers and workers hold versions that the objects have or had, and
  equal resource versions mean equal objects. Hence an accepted Update writes back
  the current object (`AcceptedCurrent`), which is `UpdatesKeepSpecHolds`.
* `CleanInv`: a worker whose Update can still be accepted has no file of the
  object. It rests on the fact, also in `CacheInv`, that an object found under
  deletion is not newer than the informer's: if the API server still has that
  version, the listing of the sync had it too. `ReleasedCleanHolds` follows: the
  very replica that takes the finalizer off has no file left.
* `FreshInv` and `DownInv`: from a sync until the informer learns something the
  files are those of the informer's objects. `FilesFollowHolds` follows, since at
  rest these are the objects of the API server.

`ServingCert_proofs` proves `CertImplements`: `CertSpec => ServesCurrent`, the
refinement of CertSource. `VersionInv` says that the pointer and all handshakes
that have read the secret agree on what a resource version contains, which is what
makes it right to compare versions only. Every step then maps to a step of
CertSource or to none (`RefinesNext`).

`Server_proofs` proves, for any connections, plugins, flags and integer width:

* `ServerServesCurrent`: each step of the process is one of ServingCert or leaves
  its variables alone (`CertFrame`), so the refinement holds for the composition.
* `PluginsWholeHolds` and `TTLExactHolds`, from `StartInv`: what this start has
  copied is whole, and past the copy everything is copied. `NoOverflow` shows that
  the wrapped product is the product for every value the check lets through.
* `ExitTruthfulHolds` and `DrainedBeforeStopHolds`, from `RunInv`: which failures
  are possible at each point of `run`, and that a server whose Shutdown returned
  has drained or run out of time.
* `ServerTypeCorrect`, from these and `RestType` for the other variables: the TTL
  is a machine integer because of `NoOverflow`, attempts are bounded by `Retries`,
  and plugins are written one at a time.

The assumptions are those on the constants: `NoDoc` and `None` are not contents,
credentials or entries, bounds are naturals, TTL, table size, the second and the
largest integer positive, and the HTTP server is always among the servers. In
CheckImages, digest references name manifests, the document and the repository
decide whether verification is skipped (`SkipAssumption`), and a request requires at most one
attestation of a type of an image (`RequestsAssumption`): an `AttestationList` is a
map by artifact type (`internal/types/types.go`). Only liveness
(`EventuallyInForce`, `EveryRequestAnswered`, `ReplicasConverge`, `Exits`) is
model-checked and not proved: it is beyond the prover.

## Not modelled

* Keychain composition (`auth.go`): a list that is built per request and keeps no
  state; that it may fail is `RequestFails`.
* Leader election and certificate renewal: the state is in Kyverno's and
  client-go's libraries, `run` only starts them. What they do to the secret is
  `Rotate`.
* ristretto's admission policy and the order of its buffers: left open.
* Parsing of flags, logging, wire and API types, generated deep copies: no
  behaviour over time.
* How conditions are evaluated (JMESPath, Kyverno's engine) and what notation
  checks: `Meets` and `Verdict`.

## Running

    tlc -workers 2 -config MCTrustSync_live.cfg MCTrustSync
    tlapm TrustSync_proofs.tla

The other runs and proof modules (`*_proofs.tla`) are started the same way.
