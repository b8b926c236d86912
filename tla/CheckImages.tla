---------------------------- MODULE CheckImages ----------------------------
(***************************************************************************)
(* The requests of /checkimages: concurrent handlers that verify the       *)
(* images of a Pod, pin them to digests and check their attestations,      *)
(* sharing the verification cache, while tags move in the registry, trust  *)
(* stores change on disk and the main loop replaces the verifiers and      *)
(* clears the cache.  TrustSync models how a reload comes about.           *)
(***************************************************************************)
EXTENDS Naturals, FiniteSets

CONSTANTS
    Handlers,    \* goroutines that serve requests
    Requests,    \* the requests: [images, matched, atts, policy, caller, complete]
    ReviewToken, \* --reviewKyvernoToken
    Policies,    \* trust policy names
    Docs,        \* trust policy documents
    Stores,      \* contents of the trust stores
    Containers,  \* containers of a Pod
    Group,       \* 1, 2, 3: container, init container, ephemeral container
    Images,      \* image references as the request writes them
    Digests,     \* digests of images and of their referrers
    Manifests,   \* those of images, which tags point to
    NoDigest,    \* the empty digest, of an image the policy skips
    DigestOf,    \* the digest in a digest reference, NoDigest for a tag
    Atts,        \* required attestations: artifact type and conditions
    TypeOf,      \* artifact type of a required attestation or a referrer
    ReferrersOf, \* the referrers of each manifest
    Meets,       \* Meets[a]: the referrers that satisfy the conditions of a
    Verdict,     \* Verdict[<<doc, store, image, digest>>]: what notation.Verify
                 \* returns for a digest in the repository of an image
    None,        \* no document, no attestation, nothing at hand
    CacheFlags,  \* the values of --cacheEnabled
    MaxRequests, MaxPushes, MaxChanges

ASSUME NullsAssumption ==
    /\ None \notin Docs \cup Atts /\ NoDigest \notin Digests
    /\ CacheFlags \subseteq BOOLEAN
    /\ ReviewToken \in BOOLEAN

ASSUME BoundsAssumption ==
    MaxRequests \in Nat /\ MaxPushes \in Nat /\ MaxChanges \in Nat

ASSUME VerdictAssumption ==
    /\ Manifests \subseteq Digests
    /\ DigestOf \in [Images -> Manifests \cup {NoDigest}]
    /\ ReferrersOf \in [Digests -> SUBSET Digests]
    /\ Meets \in [Atts -> SUBSET Digests]
    /\ Verdict \in [Docs \X Stores \X Images \X Digests -> {"accept", "reject", "skip"}]

\* The statement for a repository decides alone whether verification is skipped.
ASSUME SkipAssumption ==
    \A d \in Docs, i \in Images, s, t \in Stores, x, y \in Digests :
        Verdict[<<d, s, i, x>>] = "skip" => Verdict[<<d, t, i, y>>] = "skip"

\* The attestations required of an image are a map by artifact type.
ASSUME RequestsAssumption ==
    /\ Requests \subseteq
         [images : UNION {[C -> Images] : C \in SUBSET Containers},
          matched : SUBSET Images, atts : [Images -> SUBSET Atts], policy : Policies,
          caller : {"allowed", "other"}, complete : BOOLEAN]
    /\ \A r \in Requests, i \in Images :
         \A a, b \in r.atts[i] : TypeOf[a] = TypeOf[b] => a = b

Tags == {i \in Images : DigestOf[i] = NoDigest}

VARIABLES
    tag,        \* the registry: where each tag points
    store,      \* the trust stores on disk, which notation reads when it verifies
    files,      \* the trust policy files
    changed,    \* controllers whose sync has changed files and not yet notified
    notified,   \* a notification is in the change channel
    verifiers,  \* the map in the verifier factory
    reload,     \* the main loop: "idle", "load", and "clear" once the map is replaced
    pending,    \* policies that RefreshVerifiers has listed and not yet loaded
    building,   \* the map it builds
    useCache,   \* --cacheEnabled, which only the start of the process sets
    cache,      \* visible cache entries
    setBuf,     \* new entries that ristretto has not processed yet
    \* One request per handler
    pc, req,
    doc,        \* the policy document of the verifier that the request holds
    todo,       \* containers still to verify
    cur,        \* the container, or the image, at hand
    dig,        \* the digest at hand
    seen,       \* trust store that notation read for it
    outcome,    \* verified containers: the digest and how it was reached
    attTodo,    \* images whose attestations are still to check
    refTodo,    \* referrers still to check
    ref,        \* the referrer at hand
    attested,   \* accepted attestations: of which manifest and how reached
    \* History
    overlap,    \* a handler held outdated trust data when the cache was cleared
    missed,     \* a reload failed, so that the cache was not cleared
    lost,       \* since the files were listed, a sync changed some and failed
    requests, pushes, changes

disk     == <<store, files, changed, notified, changes>>
loader   == <<verifiers, reload, pending, building, overlap, missed, lost>>
world    == <<tag, pushes, useCache, disk, loader>>
caches   == <<cache, setBuf>>
request  == <<pc, req, doc, todo, cur, dig, seen, outcome, attTodo, refTodo, ref,
              attested>>
vars == <<world, caches, request, requests>>

-----------------------------------------------------------------------------
(* The cache: entries by policy, image and attestation.                    *)

Key(p, i, a) == [policy |-> p, image |-> i, att |-> a]
Basis(p, d, s) == [policy |-> p, store |-> s, doc |-> d]
Entry(k, d, b) == [key |-> k, digest |-> d, basis |-> b]

\* Mutants of Hits: the key leaves out the policy, or the image.
HitsAnyPolicy(k) ==
    {e \in cache : useCache /\ e.key.image = k.image /\ e.key.att = k.att}

HitsAnyImage(k) ==
    {e \in cache : useCache /\ e.key.policy = k.policy /\ e.key.att = k.att}

Hits(k) == {e \in cache : useCache /\ e.key = k}

\* SetWithTTL updates a visible key at once; a new key is buffered, or dropped
\* when the buffer is full.
CacheAdd(e) ==
    \/ /\ useCache
       /\ \/ /\ Hits(e.key) # {}
             /\ cache' = (cache \ Hits(e.key)) \cup {e}
             /\ UNCHANGED setBuf
          \/ /\ Hits(e.key) = {}
             /\ setBuf' = setBuf \cup {e}
             /\ UNCHANGED cache
          \/ /\ Hits(e.key) = {}
             /\ UNCHANGED caches
    \/ ~useCache /\ UNCHANGED caches

\* ristretto admits or rejects a buffered entry.
ProcessSet(e) ==
    /\ e \in setBuf
    /\ setBuf' = setBuf \ {e}
    /\ \/ cache' = (cache \ Hits(e.key)) \cup {e}
       \/ UNCHANGED cache
    /\ UNCHANGED <<world, request, requests>>

\* An entry is evicted, or its time to live is over.
Evict(e) ==
    /\ e \in cache
    /\ cache' = cache \ {e}
    /\ UNCHANGED <<world, setBuf, request, requests>>

-----------------------------------------------------------------------------
(* The world around the handlers.                                          *)

\* Someone pushes, and the tag moves.
Push(i, d) ==
    /\ pushes < MaxPushes
    /\ tag' = [tag EXCEPT ![i] = d]
    /\ pushes' = pushes + 1
    /\ UNCHANGED <<useCache, disk, loader, caches, request, requests>>

\* The sync of a controller writes or deletes a file.
ChangeFiles ==
    /\ changes < MaxChanges
    /\ changes' = changes + 1
    /\ \/ /\ store' \in Stores \ {store}
          /\ changed' = changed \cup {"store"}
          /\ UNCHANGED files
       \/ /\ \E p \in Policies, d \in Docs \cup {None} :
                files' = [files EXCEPT ![p] = d] /\ d # files[p]
          /\ changed' = changed \cup {"policy"}
          /\ UNCHANGED store
    /\ UNCHANGED <<tag, pushes, useCache, notified, loader, caches, request, requests>>

\* Once all files are as they should be, the sync notifies the main loop.
Notify(k) ==
    /\ k \in changed
    /\ changed' = changed \ {k}
    /\ notified' = TRUE
    /\ UNCHANGED <<tag, pushes, useCache, store, files, changes, loader, caches, request,
                   requests>>

\* The sync fails half way: it does not notify, nor does a retry that finds
\* nothing more to change.
SyncFails(k) ==
    /\ k \in changed
    /\ changed' = changed \ {k}
    /\ lost' = TRUE
    /\ UNCHANGED <<tag, pushes, useCache, store, files, notified, changes, verifiers, reload,
                   pending, building, overlap, missed, caches, request, requests>>

NoVerifiers == [p \in Policies |-> None]

\* The main loop receives the notification; RefreshVerifiers takes the write lock
\* of the factory and lists the directory.
Receive ==
    /\ reload = "idle"
    /\ notified
    /\ notified' = FALSE
    /\ reload' = "load"
    /\ pending' = {p \in Policies : files[p] # None}
    /\ lost' = FALSE
    /\ UNCHANGED <<tag, pushes, useCache, store, files, changed, changes, verifiers, building,
                   overlap, missed, caches, request, requests>>

LoadPolicy(p) ==
    /\ reload = "load"
    /\ p \in pending
    /\ files[p] # None
    /\ pending' = pending \ {p}
    /\ building' = [building EXCEPT ![p] = files[p]]
    /\ UNCHANGED <<tag, pushes, useCache, disk, verifiers, reload, overlap, missed, lost,
                   caches, request, requests>>

RefreshVerifiers ==
    /\ reload = "load"
    /\ pending = {}
    /\ verifiers' = building
    /\ building' = NoVerifiers
    /\ reload' = "clear"
    /\ UNCHANGED <<tag, pushes, useCache, disk, pending, overlap, missed, lost, caches,
                   request, requests>>

\* The directory cannot be listed, or a policy is malformed or gone: the
\* previous verifiers and the cache stay.
RefreshFails ==
    /\ \/ reload = "idle" /\ notified /\ notified' = FALSE
       \/ reload = "load" /\ pending # {} /\ UNCHANGED notified
    /\ reload' = "idle"
    /\ pending' = {}
    /\ building' = NoVerifiers
    /\ missed' = TRUE
    /\ UNCHANGED <<tag, pushes, useCache, store, files, changed, changes, verifiers, overlap,
                   lost, caches, request, requests>>

Busy(h) == pc[h] \notin {"idle", "review", "decode", "verified", "failed"}

\* What h will still put into the cache comes from data that was replaced.
Outdated(h) ==
    /\ Busy(h)
    /\ \/ doc[h] # verifiers[req[h].policy]
       \/ pc[h] \in {"addImage", "addAttestation"} /\ seen[h] # store

\* Mutant of ClearCache: buffered entries survive.
ClearVisible ==
    /\ reload = "clear"
    /\ reload' = "idle"
    /\ cache' = {}
    /\ missed' = FALSE
    /\ overlap' = \E h \in Handlers : Outdated(h)
    /\ UNCHANGED <<tag, pushes, useCache, disk, verifiers, pending, building, lost,
                   setBuf, request, requests>>

ClearCache ==
    /\ reload = "clear"
    /\ reload' = "idle"
    /\ cache' = {}
    /\ setBuf' = {}
    /\ missed' = FALSE
    /\ overlap' = \E h \in Handlers : Outdated(h)
    /\ UNCHANGED <<tag, pushes, useCache, disk, verifiers, pending, building, lost,
                   request, requests>>

-----------------------------------------------------------------------------
(* A request.                                                              *)

others == <<world, caches, requests>>

\* HandleCheckImages receives a POST.
Accept(h, r) ==
    /\ requests < MaxRequests
    /\ pc[h] = "idle"
    /\ requests' = requests + 1
    /\ pc' = [pc EXCEPT ![h] = IF ReviewToken THEN "review" ELSE "decode"]
    /\ req' = [req EXCEPT ![h] = r]
    /\ todo' = [todo EXCEPT ![h] = DOMAIN r.images]
    /\ outcome' = [outcome EXCEPT ![h] = {}]
    /\ attested' = [attested EXCEPT ![h] = {}]
    /\ UNCHANGED <<world, caches, doc, cur, dig, seen, attTodo, refTodo,
                   ref>>

\* VerificationFailed drops the patches collected so far.
Failed(h) ==
    /\ pc' = [pc EXCEPT ![h] = "failed"]
    /\ outcome' = [outcome EXCEPT ![h] = {}]

\* The API server names the user of the token, or does not know it.
Authenticate(h) ==
    /\ pc[h] = "review"
    /\ \/ /\ req[h].caller = "allowed"
          /\ pc' = [pc EXCEPT ![h] = "decode"]
          /\ UNCHANGED outcome
       \/ req[h].caller # "allowed" /\ Failed(h)
    /\ UNCHANGED <<others, req, doc, todo, cur, dig, seen, attTodo, refTodo, ref,
                   attested>>

\* processRequestData wants an image, and no part of an attestation empty.
ProcessRequestData(r) == DOMAIN r.images # {} /\ r.complete

\* The body does not decode, or lacks required data.
Refuse(h) ==
    /\ pc[h] = "decode"
    /\ ~ProcessRequestData(req[h])
    /\ Failed(h)
    /\ UNCHANGED <<others, req, doc, todo, cur, dig, seen, attTodo, refTodo, ref,
                   attested>>

\* The lookup waits for a refresh, which holds the lock.
GetVerifier(h) ==
    /\ pc[h] = "decode"
    /\ reload # "load"
    /\ ProcessRequestData(req[h])
    /\ LET d == verifiers[req[h].policy] IN
         /\ doc' = [doc EXCEPT ![h] = d]
         /\ IF d = None THEN Failed(h)
                         ELSE /\ pc' = [pc EXCEPT ![h] = "prepare"]
                              /\ UNCHANGED outcome
    /\ UNCHANGED <<others, req, todo, cur, dig, seen, attTodo, refTodo, ref,
                   attested>>

\* Keychain, remote options and plugin configuration are there.
Prepare(h) ==
    /\ pc[h] = "prepare"
    /\ pc' = [pc EXCEPT ![h] = "images"]
    /\ UNCHANGED <<others, req, doc, todo, cur, dig, seen, outcome, attTodo, refTodo,
                   ref, attested>>

\* The token review or the registry fails, credentials or the plugin
\* configuration are missing.
RequestFails(h) ==
    /\ pc[h] \in {"review", "prepare", "resolve", "verifyImage", "head", "verifyReferrer"}
    /\ Failed(h)
    /\ UNCHANGED <<others, req, doc, todo, cur, dig, seen, attTodo, refTodo, ref,
                   attested>>

ImageKey(h, c) == Key(req[h].policy, req[h].images[c], None)
Outcome(c, d, b) == [digest |-> d, basis |-> b, container |-> c]

\* Groups are verified one after the other, a group's images in any order.
\* An image that the request does not select is skipped, one in the cache is
\* taken from there.
VerifyImageInfo(h, c) ==
    /\ pc[h] = "images"
    /\ c \in todo[h]
    /\ \A o \in todo[h] : Group[c] <= Group[o]
    /\ todo' = [todo EXCEPT ![h] = @ \ {c}]
    /\ \/ /\ req[h].images[c] \notin req[h].matched
          /\ UNCHANGED <<pc, cur, outcome>>
       \/ /\ req[h].images[c] \in req[h].matched
          /\ \E e \in Hits(ImageKey(h, c)) :
               outcome' = [outcome EXCEPT ![h] =
                             @ \cup {Outcome(c, e.digest, e.basis)}]
          /\ UNCHANGED <<pc, cur>>
       \/ /\ req[h].images[c] \in req[h].matched
          /\ Hits(ImageKey(h, c)) = {}
          /\ pc' = [pc EXCEPT ![h] = "resolve"]
          /\ cur' = [cur EXCEPT ![h] = c]
          /\ UNCHANGED outcome
    /\ UNCHANGED <<others, req, doc, dig, seen, attTodo, refTodo, ref, attested>>

\* Mutant of Resolved: a tag is taken for a digest.
Unresolved(i) == IF i \in Tags THEN i ELSE DigestOf[i]

Resolved(i) == IF i \in Tags THEN tag[i] ELSE DigestOf[i]

ResolveDigest(h) ==
    /\ pc[h] = "resolve"
    /\ dig' = [dig EXCEPT ![h] = Resolved(req[h].images[cur[h]])]
    /\ pc' = [pc EXCEPT ![h] = "verifyImage"]
    /\ UNCHANGED <<others, req, doc, todo, cur, seen, outcome, attTodo, refTodo, ref,
                   attested>>

\* notation.Verify with the verifier of the request and the stores on disk.
NotationVerify(h, i, d) == Verdict[<<doc[h], store, i, d>>]

\* A policy that skips the repository yields the empty digest.
VerifyReferences(h) ==
    /\ pc[h] = "verifyImage"
    /\ LET v == NotationVerify(h, req[h].images[cur[h]], dig[h]) IN
         \/ v = "reject" /\ Failed(h) /\ UNCHANGED <<dig, seen>>
         \/ /\ v # "reject"
            /\ pc' = [pc EXCEPT ![h] = "addImage"]
            /\ dig' = [dig EXCEPT ![h] = IF v = "skip" THEN NoDigest ELSE @]
            /\ seen' = [seen EXCEPT ![h] = store]
            /\ UNCHANGED outcome
    /\ UNCHANGED <<others, req, doc, todo, cur, attTodo, refTodo, ref, attested>>

AddImage(h) ==
    /\ pc[h] = "addImage"
    /\ LET b == Basis(req[h].policy, doc[h], seen[h]) IN
         /\ CacheAdd(Entry(ImageKey(h, cur[h]), dig[h], b))
         /\ outcome' = [outcome EXCEPT ![h] = @ \cup {Outcome(cur[h], dig[h], b)}]
    /\ pc' = [pc EXCEPT ![h] = "images"]
    /\ UNCHANGED <<world, requests, req, doc, todo, cur, dig, seen,
                   attTodo, refTodo, ref, attested>>

Pinned(h) == {o \in outcome[h] : o.digest # NoDigest}
ImageOf(h, o) == req[h].images[o.container]

BuildAttestationList(h) ==
    /\ pc[h] = "images"
    /\ todo[h] = {}
    /\ attTodo' = [attTodo EXCEPT ![h] = {ImageOf(h, o) : o \in Pinned(h)}]
    /\ pc' = [pc EXCEPT ![h] = "attestations"]
    /\ UNCHANGED <<others, req, doc, todo, cur, dig, seen, outcome, refTodo, ref,
                   attested>>

AttKey(h, i, a) == Key(req[h].policy, i, a)
Attested(i, a, d, b) == [image |-> i, att |-> a, digest |-> d, basis |-> b]
FromCache(h, i, a) ==
    {Attested(i, a, e.digest, e.basis) : e \in Hits(AttKey(h, i, a))}

\* Nothing is required of the image, or all of it is in the cache; otherwise
\* its referrers are fetched.
VerifyAttestation(h, i) ==
    /\ pc[h] = "attestations"
    /\ i \in attTodo[h]
    /\ attTodo' = [attTodo EXCEPT ![h] = @ \ {i}]
    /\ IF \A a \in req[h].atts[i] : Hits(AttKey(h, i, a)) # {}
       THEN /\ attested' = [attested EXCEPT ![h] =
                              @ \cup UNION {FromCache(h, i, a) : a \in req[h].atts[i]}]
            /\ UNCHANGED <<pc, cur>>
       ELSE /\ cur' = [cur EXCEPT ![h] = i]
            /\ pc' = [pc EXCEPT ![h] = "head"]
            /\ UNCHANGED attested
    /\ UNCHANGED <<others, req, doc, todo, dig, seen, outcome, refTodo, ref>>

\* Mutant of EachHasReferrer: a type without a referrer goes unnoticed.
AnyReferrers(types, d) == TRUE

EachHasReferrer(types, d) == types \subseteq {TypeOf[r] : r \in ReferrersOf[d]}

\* The tag is looked up anew.  Each required type must have a referrer.
Head(h) ==
    /\ pc[h] = "head"
    /\ LET d == Resolved(cur[h])
           types == {TypeOf[a] : a \in req[h].atts[cur[h]]} IN
         /\ dig' = [dig EXCEPT ![h] = d]
         /\ IF EachHasReferrer(types, d)
            THEN /\ refTodo' = [refTodo EXCEPT ![h] =
                                 {r \in ReferrersOf[d] : TypeOf[r] \in types}]
                 /\ pc' = [pc EXCEPT ![h] = "referrers"]
                 /\ UNCHANGED outcome
            ELSE Failed(h) /\ UNCHANGED refTodo
    /\ UNCHANGED <<others, req, doc, todo, cur, seen, attTodo, ref, attested>>

\* The requirement that a referrer falls under; a request has one per type.
Required(h, r) == CHOOSE a \in req[h].atts[cur[h]] : TypeOf[a] = TypeOf[r]

\* Mutant of Remaining: the first referrer decides.
RemainingNone(h, r) == {}

Remaining(h, r) == refTodo[h] \ {r}

CheckReferrer(h, r) ==
    /\ pc[h] = "referrers"
    /\ r \in refTodo[h]
    /\ refTodo' = [refTodo EXCEPT ![h] = Remaining(h, r)]
    /\ LET hit == FromCache(h, cur[h], Required(h, r)) IN
         IF hit # {}
         THEN /\ attested' = [attested EXCEPT ![h] = @ \cup hit]
              /\ UNCHANGED <<pc, ref>>
         ELSE /\ ref' = [ref EXCEPT ![h] = r]
              /\ pc' = [pc EXCEPT ![h] = "verifyReferrer"]
              /\ UNCHANGED attested
    /\ UNCHANGED <<others, req, doc, todo, cur, dig, seen, outcome, attTodo>>

\* The signature of the referrer and, unless the policy skips it, the
\* conditions on its payload.
VerifyReferrer(h) ==
    /\ pc[h] = "verifyReferrer"
    /\ LET v == NotationVerify(h, cur[h], ref[h])
           met == ref[h] \in Meets[Required(h, ref[h])] IN
         \/ /\ v = "reject" \/ (v = "accept" /\ ~met)
            /\ Failed(h)
            /\ UNCHANGED seen
         \/ /\ v = "skip"
            /\ pc' = [pc EXCEPT ![h] = "referrers"]
            /\ UNCHANGED <<seen, outcome>>
         \/ /\ v = "accept" /\ met
            /\ pc' = [pc EXCEPT ![h] = "addAttestation"]
            /\ seen' = [seen EXCEPT ![h] = store]
            /\ UNCHANGED outcome
    /\ UNCHANGED <<others, req, doc, todo, cur, dig, attTodo, refTodo, ref, attested>>

AddAttestation(h) ==
    /\ pc[h] = "addAttestation"
    /\ LET a == Required(h, ref[h])
           b == Basis(req[h].policy, doc[h], seen[h]) IN
         /\ CacheAdd(Entry(AttKey(h, cur[h], a), dig[h], b))
         /\ attested' = [attested EXCEPT ![h] =
                           @ \cup {Attested(cur[h], a, dig[h], b)}]
    /\ pc' = [pc EXCEPT ![h] = "referrers"]
    /\ UNCHANGED <<world, requests, req, doc, todo, cur, dig, seen, outcome, attTodo,
                   refTodo, ref>>

\* Mutant of AttestationDone: the image is not taken off the list.
AttestationAgain(h) ==
    /\ pc[h] = "referrers"
    /\ refTodo[h] = {}
    /\ pc' = [pc EXCEPT ![h] = "head"]
    /\ UNCHANGED <<others, req, doc, todo, cur, dig, seen, outcome, attTodo, refTodo,
                   ref, attested>>

AttestationDone(h) ==
    /\ pc[h] = "referrers"
    /\ refTodo[h] = {}
    /\ pc' = [pc EXCEPT ![h] = "attestations"]
    /\ UNCHANGED <<others, req, doc, todo, cur, dig, seen, outcome, attTodo, refTodo,
                   ref, attested>>

VerificationSucceeded(h) ==
    /\ pc[h] = "attestations"
    /\ attTodo[h] = {}
    /\ pc' = [pc EXCEPT ![h] = "verified"]
    /\ UNCHANGED <<others, req, doc, todo, cur, dig, seen, outcome, attTodo, refTodo,
                   ref, attested>>

\* The response is written, 200 with the patches or 406, and the locals go.
Respond(h) ==
    /\ pc[h] \in {"verified", "failed"}
    /\ pc' = [pc EXCEPT ![h] = "idle"]
    /\ req' = [req EXCEPT ![h] = None]
    /\ doc' = [doc EXCEPT ![h] = None]
    /\ todo' = [todo EXCEPT ![h] = {}]
    /\ cur' = [cur EXCEPT ![h] = None]
    /\ dig' = [dig EXCEPT ![h] = NoDigest]
    /\ seen' = [seen EXCEPT ![h] = None]
    /\ outcome' = [outcome EXCEPT ![h] = {}]
    /\ attTodo' = [attTodo EXCEPT ![h] = {}]
    /\ refTodo' = [refTodo EXCEPT ![h] = {}]
    /\ ref' = [ref EXCEPT ![h] = None]
    /\ attested' = [attested EXCEPT ![h] = {}]
    /\ UNCHANGED others

-----------------------------------------------------------------------------

Init ==
    /\ tag \in [Tags -> Manifests]
    /\ pushes = 0
    /\ store \in Stores
    /\ files \in [Policies -> Docs \cup {None}]
    /\ changed = {}
    /\ notified = FALSE
    /\ changes = 0
    /\ verifiers = files
    /\ reload = "idle"
    /\ pending = {}
    /\ building = NoVerifiers
    /\ overlap = FALSE
    /\ missed = FALSE
    /\ lost = FALSE
    /\ useCache \in CacheFlags
    /\ cache = {}
    /\ setBuf = {}
    /\ requests = 0
    /\ pc = [h \in Handlers |-> "idle"]
    /\ req = [h \in Handlers |-> None]
    /\ doc = [h \in Handlers |-> None]
    /\ todo = [h \in Handlers |-> {}]
    /\ cur = [h \in Handlers |-> None]
    /\ dig = [h \in Handlers |-> NoDigest]
    /\ seen = [h \in Handlers |-> None]
    /\ outcome = [h \in Handlers |-> {}]
    /\ attTodo = [h \in Handlers |-> {}]
    /\ refTodo = [h \in Handlers |-> {}]
    /\ ref = [h \in Handlers |-> None]
    /\ attested = [h \in Handlers |-> {}]

HandlerStep(h) ==
    \/ Authenticate(h)
    \/ Refuse(h)
    \/ GetVerifier(h)
    \/ Prepare(h)
    \/ \E c \in Containers : VerifyImageInfo(h, c)
    \/ ResolveDigest(h)
    \/ VerifyReferences(h)
    \/ AddImage(h)
    \/ BuildAttestationList(h)
    \/ \E i \in Images : VerifyAttestation(h, i)
    \/ Head(h)
    \/ \E r \in Digests : CheckReferrer(h, r)
    \/ VerifyReferrer(h)
    \/ AddAttestation(h)
    \/ AttestationDone(h)
    \/ VerificationSucceeded(h)
    \/ Respond(h)

\* What the main loop does.
Reload ==
    \/ Receive
    \/ \E p \in Policies : LoadPolicy(p)
    \/ RefreshVerifiers
    \/ RefreshFails
    \/ ClearCache

\* No request is in progress and no reload is due.
Quiescent ==
    /\ \A h \in Handlers : pc[h] = "idle"
    /\ changed = {} /\ ~notified /\ reload = "idle"

Wait == Quiescent /\ UNCHANGED vars

Next ==
    \/ \E i \in Tags, d \in Manifests : Push(i, d)
    \/ ChangeFiles
    \/ \E k \in changed : Notify(k) \/ SyncFails(k)
    \/ Reload
    \/ \E e \in setBuf : ProcessSet(e)
    \/ \E e \in cache : Evict(e)
    \/ \E h \in Handlers, r \in Requests : Accept(h, r)
    \/ \E h \in Handlers : HandlerStep(h) \/ RequestFails(h)
    \/ Wait

Spec == Init /\ [][Next]_vars

\* Handlers and the main loop are goroutines.  Calls of the registry, of the
\* credential providers and of the API server are assumed to return.
FairSpec ==
    /\ Spec
    /\ \A h \in Handlers : WF_vars(HandlerStep(h))
    /\ WF_vars(Reload)

-----------------------------------------------------------------------------
(* Properties.                                                             *)

PCs == {"idle", "review", "decode", "prepare", "images", "resolve", "verifyImage",
        "addImage", "attestations", "head", "referrers", "verifyReferrer",
        "addAttestation", "verified", "failed"}

Bases == [policy : Policies, doc : Docs, store : Stores]
Keys == [policy : Policies, image : Images, att : Atts \cup {None}]
Entries == [key : Keys, digest : Digests \cup {NoDigest}, basis : Bases]
Outcomes == [container : Containers, digest : Digests \cup {NoDigest}, basis : Bases]
AttestedSet == [image : Images, att : Atts, digest : Digests \cup {NoDigest},
                basis : Bases]

TypeOK ==
    /\ tag \in [Tags -> Manifests]
    /\ store \in Stores
    /\ files \in [Policies -> Docs \cup {None}]
    /\ verifiers \in [Policies -> Docs \cup {None}]
    /\ building \in [Policies -> Docs \cup {None}]
    /\ changed \subseteq {"policy", "store"} /\ pending \subseteq Policies
    /\ {notified, overlap, missed, lost, useCache} \subseteq BOOLEAN
    /\ reload \in {"idle", "load", "clear"}
    /\ cache \subseteq Entries
    /\ setBuf \subseteq Entries
    /\ pc \in [Handlers -> PCs]
    /\ req \in [Handlers -> Requests \cup {None}]
    /\ doc \in [Handlers -> Docs \cup {None}]
    /\ todo \in [Handlers -> SUBSET Containers]
    /\ cur \in [Handlers -> Containers \cup Images \cup {None}]
    /\ dig \in [Handlers -> Digests \cup {NoDigest}]
    /\ seen \in [Handlers -> Stores \cup {None}]
    /\ outcome \in [Handlers -> SUBSET Outcomes]
    /\ attTodo \in [Handlers -> SUBSET Images]
    /\ refTodo \in [Handlers -> SUBSET Digests]
    /\ ref \in [Handlers -> Digests \cup {None}]
    /\ attested \in [Handlers -> SUBSET AttestedSet]
    /\ requests \in Nat /\ pushes \in Nat /\ changes \in Nat

VerdictOf(b, i, d) == Verdict[<<b.doc, b.store, i, d>>]

\* Every container that a 200 response vouches for was selected by the request
\* and is either pinned to a digest that notation accepted, under the policy
\* that the request names, or was left alone because that policy skips it; no
\* selected container is forgotten.  Cached results, of other requests too,
\* are subject to it.
PinnedWasVerified ==
    \A h \in Handlers : pc[h] = "verified" =>
        /\ \A o \in outcome[h] :
             /\ o.basis.policy = req[h].policy
             /\ IF o.digest = NoDigest
                THEN \E d \in Manifests : VerdictOf(o.basis, ImageOf(h, o), d) = "skip"
                ELSE VerdictOf(o.basis, ImageOf(h, o), o.digest) = "accept"
        /\ {o.container : o \in outcome[h]} =
             {c \in DOMAIN req[h].images : req[h].images[c] \in req[h].matched}

Current(e) == e.basis.doc = files[e.key.policy] /\ e.basis.store = store

\* No change is on its way to the main loop, and none was dropped on the way: the
\* last reload succeeded, and no sync changed files and failed since it began.
Loaded == changed = {} /\ ~notified /\ reload = "idle" /\ ~missed /\ ~lost

\* Then all cached results were reached with the policies and trust stores on
\* disk, unless a request was using replaced trust data when the reload cleared
\* the cache.
CacheCurrent == Loaded /\ ~overlap => \A e \in cache \cup setBuf : Current(e)

\* What the README says, "cleared whenever a trust policy or trust store
\* changes": once a reload has succeeded nothing that was verified under the
\* previous trust data is in the cache.  It fails: a request that obtained its
\* verifier before the reload adds its result after the Clear.
ClearedOnChange == Loaded => \A e \in cache : Current(e)

Skips(d, i) == \E s \in Stores, x \in Digests : Verdict[<<d, s, i, x>>] = "skip"

\* Every attestation that a 200 response needed was accepted under the request's
\* policy: a referrer of its type, of a manifest that the image was resolved
\* to, has an accepted signature and meets the conditions.  Only an image that a
\* cached result pinned under another document of the policy does without, if the
\* document of the request skips its repository.
RequiredWasAttested ==
    \A h \in Handlers : pc[h] = "verified" =>
        \A o \in Pinned(h) : \A a \in req[h].atts[ImageOf(h, o)] :
            \/ \E t \in attested[h] :
                 /\ t.image = ImageOf(h, o) /\ t.att = a
                 /\ t.basis.policy = req[h].policy
                 /\ \E r \in ReferrersOf[t.digest] \cap Meets[a] :
                      TypeOf[r] = TypeOf[a] /\ VerdictOf(t.basis, t.image, r) = "accept"
            \/ o.basis.doc # doc[h] /\ Skips(doc[h], ImageOf(h, o))

SameManifest(h, o) ==
    \A t \in attested[h] : t.image = ImageOf(h, o) => t.digest = o.digest

\* An image that the request names by digest is pinned to the very manifest
\* whose attestations were checked.
DigestRefsAttested ==
    \A h \in Handlers : pc[h] = "verified" =>
        \A o \in Pinned(h) : ImageOf(h, o) \notin Tags => SameManifest(h, o)

\* What the README says of tags, that Pods are "rewritten to the exact digest
\* that was verified": the attestations of a 200 response are those of the
\* digest in the patch.  It fails: verifyAttestation looks the tag up again,
\* and cached attestations are found by tag.
PinnedIsAttested ==
    \A h \in Handlers : pc[h] = "verified" => \A o \in Pinned(h) : SameManifest(h, o)

\* The referrer r was accepted for the attestation t of h, under the trust store
\* of the time.
ReferrerAccepted(h, t, r) ==
    /\ r \in Meets[t.att]
    /\ \E u \in attested[h] :
         /\ u.image = t.image /\ u.att = t.att /\ u.digest = t.digest
         /\ VerdictOf(u.basis, t.image, r) = "accept"

\* With the cache off, all referrers of a required type have an accepted
\* signature and meet the conditions, whatever their order, and though the trust
\* stores may change from one referrer to the next.  With the cache on this is
\* not so: the entry that one referrer adds makes verifyAttestation skip the next
\* referrer of its type, and RequiredWasAttested is all that is left.
AllReferrersAccepted ==
    \A h \in Handlers : pc[h] = "verified" /\ ~useCache =>
        \A t \in attested[h] : \A r \in ReferrersOf[t.digest] :
            TypeOf[r] = TypeOf[t.att] => ReferrerAccepted(h, t, r)

\* Every request is answered, whatever happens to the tags, the trust data and
\* the cache meanwhile.
EveryRequestAnswered == \A h \in Handlers : pc[h] # "idle" ~> pc[h] = "idle"
=============================================================================
