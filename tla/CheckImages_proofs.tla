------------------------- MODULE CheckImages_proofs -------------------------
(***************************************************************************)
(* Safety of CheckImages for any handlers, requests, registry contents,    *)
(* trust data and bounds.                                                  *)
(***************************************************************************)
EXTENDS CheckImages, TLAPS

\* Most leaves are first-order; one that needs more cites SMT.
USE Zenon

ImagePhase == {"resolve", "verifyImage", "addImage"}
RefPhase   == {"referrers", "verifyReferrer", "addAttestation"}
AttPhase   == {"head"} \cup RefPhase
Checking   == {"attestations", "verified"} \cup AttPhase
Working(h) == pc[h] \notin {"idle", "review", "decode", "failed"}

-----------------------------------------------------------------------------
(* What a result stands for.                                               *)

\* A digest reference stands for its digest.
Names(i, d) == i \notin Tags => d = DigestOf[i]

\* Verification of image i under b gave the digest d, the empty one for a skip.
ImageSound(i, d, b) ==
    IF d = NoDigest THEN \E m \in Manifests : VerdictOf(b, i, m) = "skip"
                    ELSE VerdictOf(b, i, d) = "accept" /\ Names(i, d)

\* A referrer of the manifest d of image i was accepted under b as attestation a.
AttSound(i, a, d, b) ==
    /\ Names(i, d)
    /\ \E r \in ReferrersOf[d] \cap Meets[a] :
         TypeOf[r] = TypeOf[a] /\ VerdictOf(b, i, r) = "accept"

EntrySound(e) ==
    /\ e.basis.policy = e.key.policy
    /\ IF e.key.att = None
       THEN ImageSound(e.key.image, e.digest, e.basis)
       ELSE e.digest \in Digests /\ AttSound(e.key.image, e.key.att, e.digest, e.basis)

\* Whatever the cache holds was verified.
CacheSound == \A e \in cache \cup setBuf : EntrySound(e)

-----------------------------------------------------------------------------
(* A handler.                                                              *)

\* The referrers of the manifest at hand that the request asks for.
Matching(h) ==
    {r \in ReferrersOf[dig[h]] : \E a \in req[h].atts[cur[h]] : TypeOf[a] = TypeOf[r]}

\* Those that are not dealt with yet.
Pending(h) ==
    refTodo[h] \cup (IF pc[h] \in {"verifyReferrer", "addAttestation"} THEN {ref[h]} ELSE {})

\* What the locals hold at each point of verifyImagesAndAttestations.
Local(h) ==
    /\ pc[h] # "idle" => req[h] \in Requests /\ todo[h] \subseteq DOMAIN req[h].images
    /\ Working(h) => doc[h] \in Docs
    /\ pc[h] \in {"review", "decode"} => outcome[h] = {}
    /\ pc[h] \in ImagePhase =>
         /\ cur[h] \in DOMAIN req[h].images
         /\ req[h].images[cur[h]] \in req[h].matched
    /\ pc[h] = "verifyImage" =>
         dig[h] \in Manifests /\ Names(req[h].images[cur[h]], dig[h])
    /\ pc[h] = "addImage" =>
         /\ seen[h] \in Stores
         /\ ImageSound(req[h].images[cur[h]], dig[h], Basis(req[h].policy, doc[h], seen[h]))
    /\ pc[h] \in Checking => todo[h] = {}
    /\ pc[h] = "verified" => attTodo[h] = {}
    /\ pc[h] \in AttPhase => cur[h] \in Images /\ cur[h] \notin attTodo[h]
    /\ pc[h] \in RefPhase =>
         /\ dig[h] \in Manifests /\ Names(cur[h], dig[h])
         /\ Pending(h) \subseteq Matching(h)
    /\ pc[h] = "addAttestation" =>
         /\ seen[h] \in Stores
         /\ ref[h] \in Meets[Required(h, ref[h])]
         /\ Verdict[<<doc[h], seen[h], cur[h], ref[h]>>] = "accept"

\* Results so far are sound, without the cache they are the request's own, and
\* no selected container is lost.
OutcomeInv(h) ==
    pc[h] \notin {"idle", "failed"} =>
        /\ \A o \in outcome[h] :
             /\ o.container \in DOMAIN req[h].images
             /\ ImageOf(h, o) \in req[h].matched
             /\ o.basis.policy = req[h].policy
             /\ ~useCache => o.basis.doc = doc[h]
             /\ ImageSound(ImageOf(h, o), o.digest, o.basis)
        /\ \A c \in DOMAIN req[h].images :
             req[h].images[c] \in req[h].matched =>
                 \/ c \in todo[h]
                 \/ pc[h] \in ImagePhase /\ c = cur[h]
                 \/ \E o \in outcome[h] : o.container = c

PinnedImages(h) == {ImageOf(h, o) : o \in Pinned(h)}
Met(h, i, a) == Skips(doc[h], i) \/ \E t \in attested[h] : t.image = i /\ t.att = a

\* Attestations so far are sound, only pinned images are looked at, and no required
\* attestation is lost.
AttestedInv(h) ==
    /\ \A t \in attested[h] :
         /\ t.basis.policy = req[h].policy
         /\ t.digest \in Digests
         /\ AttSound(t.image, t.att, t.digest, t.basis)
    /\ pc[h] \in Checking => attTodo[h] \subseteq PinnedImages(h)
    /\ pc[h] \in AttPhase => cur[h] \in PinnedImages(h)
    /\ pc[h] \in Checking =>
         \A o \in Pinned(h) :
            \/ ImageOf(h, o) \in attTodo[h]
            \/ pc[h] \in AttPhase /\ ImageOf(h, o) = cur[h]
            \/ \A a \in req[h].atts[ImageOf(h, o)] : Met(h, ImageOf(h, o), a)
    /\ pc[h] \in RefPhase =>
         \A a \in req[h].atts[cur[h]] :
            Met(h, cur[h], a) \/ \E r \in Pending(h) : TypeOf[r] = TypeOf[a]

AtHand(h, t) == pc[h] \in RefPhase /\ t.image = cur[h]
ForReferrer(h, r) == [image |-> cur[h], att |-> Required(h, r), digest |-> dig[h]]

\* Without the cache no referrer of a required type is passed over.
ReferrersInv(h) ==
    ~useCache =>
        /\ pc[h] \notin Checking \cup {"failed"} => attested[h] = {}
        /\ pc[h] \in RefPhase =>
             \A r \in Matching(h) \ Pending(h) : ReferrerAccepted(h, ForReferrer(h, r), r)
        /\ pc[h] \in Checking =>
             \A t \in attested[h] :
                /\ t.image \notin attTodo[h]
                /\ pc[h] = "head" => t.image # cur[h]
                /\ AtHand(h, t) => t.digest = dig[h] /\ t.att \in req[h].atts[cur[h]]
                /\ ~AtHand(h, t) =>
                     \A r \in ReferrersOf[t.digest] :
                        TypeOf[r] = TypeOf[t.att] => ReferrerAccepted(h, t, r)

HandlersInv ==
    \A h \in Handlers : Local(h) /\ OutcomeInv(h) /\ AttestedInv(h) /\ ReferrersInv(h)

\* No change of the files has yet to reach the main loop, or never will.
Settled == changed = {} /\ ~notified /\ ~lost

\* Then what a reload builds, and the map after it, are the files; unless the
\* clearing overlapped with a request, entries and requests are based on them.
CurrentInv ==
    /\ reload # "load" => building = NoVerifiers
    /\ Settled /\ reload = "load" => \A p \in Policies \ pending : building[p] = files[p]
    /\ Settled /\ (reload = "clear" \/ (reload = "idle" /\ ~missed)) => verifiers = files
    /\ Loaded /\ ~overlap => /\ \A e \in cache \cup setBuf : Current(e)
                            /\ \A h \in Handlers : ~Outdated(h)

Inv == TypeOK /\ CacheSound /\ HandlersInv /\ CurrentInv

-----------------------------------------------------------------------------
(* Operators.                                                              *)

\* What a request contains.
LEMMA RequestShape ==
    ASSUME NEW r \in Requests
    PROVE  /\ r.policy \in Policies
           /\ DOMAIN r.images \subseteq Containers
           /\ \A c \in DOMAIN r.images : r.images[c] \in Images
           /\ \A i \in Images :
                /\ r.atts[i] \subseteq Atts
                /\ \A a, b \in r.atts[i] : TypeOf[a] = TypeOf[b] => a = b
<1>1. /\ r.images \in UNION {[C -> Images] : C \in SUBSET Containers}
      /\ r.policy \in Policies /\ r.atts \in [Images -> SUBSET Atts]
  BY RequestsAssumption
<1>2. PICK C \in SUBSET Containers : r.images \in [C -> Images]
  BY <1>1
<1>3. \A i \in Images : \A a, b \in r.atts[i] : TypeOf[a] = TypeOf[b] => a = b
  BY RequestsAssumption
<1> QED
  BY <1>1, <1>2, <1>3

\* A reference resolves to a manifest, a digest reference to the one it names.
LEMMA ResolvedNames ==
    ASSUME TypeOK, NEW i \in Images
    PROVE  Resolved(i) \in Manifests /\ Names(i, Resolved(i))
  BY VerdictAssumption DEF TypeOK, Resolved, Names, Tags

\* The requirement that a matching referrer falls under, which is the only one.
LEMMA RequiredIs ==
    ASSUME NEW h \in Handlers, req[h] \in Requests, cur[h] \in Images, NEW r,
           \E a \in req[h].atts[cur[h]] : TypeOf[a] = TypeOf[r]
    PROVE  /\ Required(h, r) \in req[h].atts[cur[h]]
           /\ Required(h, r) \in Atts
           /\ TypeOf[Required(h, r)] = TypeOf[r]
           /\ \A a \in req[h].atts[cur[h]] : TypeOf[a] = TypeOf[r] => a = Required(h, r)
<1>1. Required(h, r) \in req[h].atts[cur[h]] /\ TypeOf[Required(h, r)] = TypeOf[r]
  BY DEF Required
<1> QED
  BY <1>1, RequestShape

\* Verdicts are taken on a basis.
LEMMA VerdictOnBasis ==
    ASSUME NEW p, NEW d, NEW s, NEW i, NEW x
    PROVE  VerdictOf(Basis(p, d, s), i, x) = Verdict[<<d, s, i, x>>]
  BY DEF VerdictOf, Basis

\* The cache returns what it holds under the key, and nothing when it is off.
LEMMA HitsAre ==
    ASSUME NEW k
    PROVE  /\ Hits(k) \subseteq cache
           /\ \A e \in Hits(k) : e.key = k
           /\ ~useCache => Hits(k) = {}
  BY DEF Hits

\* CacheAdd adds nothing but the entry.
LEMMA AddsOnly ==
    ASSUME NEW e, CacheAdd(e)
    PROVE  cache' \cup setBuf' \subseteq cache \cup setBuf \cup {e}
  BY DEF CacheAdd, Hits, caches

-----------------------------------------------------------------------------
(* Which step adds to the cache.                                           *)

ImageEntry(h) == Entry(ImageKey(h, cur[h]), dig[h], Basis(req[h].policy, doc[h], seen[h]))
AttEntry(h) ==
    Entry(AttKey(h, cur[h], Required(h, ref[h])), dig[h],
          Basis(req[h].policy, doc[h], seen[h]))

\* An entry is added by the handler that verified what it holds.
Adds(h, e) ==
    \/ pc[h] = "addImage" /\ e = ImageEntry(h)
    \/ pc[h] = "addAttestation" /\ e = AttEntry(h)

\* Every step adds nothing or an entry of a handler.
LEMMA NewEntries ==
    [Next]_vars => \A e \in cache' \cup setBuf' :
                      e \in cache \cup setBuf \/ \E h \in Handlers : Adds(h, e)
<1> SUFFICES ASSUME [Next]_vars
             PROVE  \A e \in cache' \cup setBuf' :
                       e \in cache \cup setBuf \/ \E h \in Handlers : Adds(h, e)
  OBVIOUS
<1> USE DEF caches, others
<1>1. CASE UNCHANGED caches
  BY <1>1
<1>2. ASSUME NEW e \in setBuf, ProcessSet(e)
      PROVE  cache' \cup setBuf' \subseteq cache \cup setBuf
  BY <1>2 DEF ProcessSet
<1>3. ASSUME NEW e \in cache, Evict(e)
      PROVE  cache' \cup setBuf' \subseteq cache \cup setBuf
  BY <1>3 DEF Evict
<1>4. CASE ClearCache
  BY <1>4 DEF ClearCache
<1>5. ASSUME NEW h \in Handlers, AddImage(h)
      PROVE  pc[h] = "addImage" /\ CacheAdd(ImageEntry(h))
  BY <1>5 DEF AddImage, ImageEntry
<1>6. ASSUME NEW h \in Handlers, AddAttestation(h)
      PROVE  pc[h] = "addAttestation" /\ CacheAdd(AttEntry(h))
  BY <1>6 DEF AddAttestation, AttEntry
<1>7. ASSUME NEW h \in Handlers, HandlerStep(h) \/ RequestFails(h), ~AddImage(h),
             ~AddAttestation(h)
      PROVE  UNCHANGED caches
  BY <1>7 DEF HandlerStep, RequestFails, Authenticate, Refuse, GetVerifier, Prepare,
     VerifyImageInfo, ResolveDigest, VerifyReferences, BuildAttestationList,
     VerifyAttestation, Head, CheckReferrer, VerifyReferrer, AttestationDone,
     VerificationSucceeded, Respond
<1>8. ASSUME NEW h \in Handlers, NEW r \in Requests, Accept(h, r) PROVE UNCHANGED caches
  BY <1>8 DEF Accept
<1>9. CASE \/ \E i \in Tags, d \in Manifests : Push(i, d)
           \/ ChangeFiles \/ \E k \in changed : Notify(k) \/ SyncFails(k)
           \/ Receive \/ \E p \in Policies : LoadPolicy(p)
           \/ RefreshVerifiers \/ RefreshFails \/ Wait \/ UNCHANGED vars
  BY <1>9, <1>1 DEF Push, ChangeFiles, Notify, SyncFails, Receive, LoadPolicy,
     RefreshVerifiers, RefreshFails, Wait, vars
<1>10. ASSUME NEW h \in Handlers, AddImage(h) \/ AddAttestation(h)
       PROVE  \A e \in cache' \cup setBuf' :
                 e \in cache \cup setBuf \/ \E g \in Handlers : Adds(g, e)
  BY <1>5, <1>6, <1>10, AddsOnly DEF Adds
<1> QED
  BY <1>1, <1>2, <1>3, <1>4, <1>7, <1>8, <1>9, <1>10 DEF Next, Reload

\* What a handler adds is well-typed and sound.
LEMMA AddedSound ==
    ASSUME TypeOK, NEW h \in Handlers, Local(h), NEW e, Adds(h, e)
    PROVE  e \in Entries /\ EntrySound(e)
<1>1. req[h] \in Requests /\ doc[h] \in Docs /\ seen[h] \in Stores
  BY DEF Local, Working, Adds
<1>2. req[h].policy \in Policies
  BY <1>1, RequestShape
<1> DEFINE b == Basis(req[h].policy, doc[h], seen[h])
<1>3. b \in Bases /\ b.policy = req[h].policy
  BY <1>1, <1>2 DEF Basis, Bases
<1>4. dig[h] \in Digests \cup {NoDigest}
  BY DEF TypeOK
<1> HIDE DEF b
<1>5. CASE pc[h] = "addImage" /\ e = ImageEntry(h)
  <2> DEFINE i == req[h].images[cur[h]]
  <2>1. i \in Images /\ ImageSound(i, dig[h], b)
    BY <1>1, <1>5, RequestShape DEF Local, ImagePhase, b
  <2>2. e = [key |-> [policy |-> req[h].policy, image |-> i, att |-> None],
             digest |-> dig[h], basis |-> b]
    BY <1>5 DEF ImageEntry, Entry, ImageKey, Key, b
  <2> HIDE DEF i
  <2> QED
    BY <1>2, <1>3, <1>4, <2>1, <2>2 DEF Entries, Keys, EntrySound
<1>6. CASE pc[h] = "addAttestation" /\ e = AttEntry(h)
  <2> DEFINE a == Required(h, ref[h])
  <2>1. /\ cur[h] \in Images /\ dig[h] \in Manifests /\ Names(cur[h], dig[h])
        /\ ref[h] \in Matching(h)
        /\ ref[h] \in Meets[a] /\ Verdict[<<doc[h], seen[h], cur[h], ref[h]>>] = "accept"
    BY <1>6 DEF Local, AttPhase, RefPhase, Pending
  <2>2. ref[h] \in ReferrersOf[dig[h]] /\ a \in Atts /\ TypeOf[a] = TypeOf[ref[h]]
    BY <1>1, <2>1, RequiredIs DEF Matching
  <2>3. VerdictOf(b, cur[h], ref[h]) = "accept"
    BY <2>1, VerdictOnBasis, SMT DEF b
  <2>4. dig[h] \in Digests
    BY <2>1, VerdictAssumption
  <2>5. e = [key |-> [policy |-> req[h].policy, image |-> cur[h], att |-> a],
             digest |-> dig[h], basis |-> b]
    BY <1>6 DEF AttEntry, Entry, AttKey, Key, b
  <2> HIDE DEF a
  <2>6. AttSound(cur[h], a, dig[h], b)
    BY <2>1, <2>2, <2>3 DEF AttSound
  <2> QED
    BY <1>2, <1>3, <2>1, <2>2, <2>4, <2>5, <2>6, NullsAssumption
       DEF Entries, Keys, EntrySound
<1> QED
  BY <1>5, <1>6 DEF Adds

\* Every step keeps the cache well-typed and sound.
LEMMA CacheStep ==
    ASSUME TypeOK, CacheSound, \A h \in Handlers : Local(h), [Next]_vars
    PROVE  CacheSound' /\ cache' \subseteq Entries /\ setBuf' \subseteq Entries
<1>1. ASSUME NEW e \in cache' \cup setBuf' PROVE e \in Entries /\ EntrySound(e)
  <2>1. CASE e \in cache \cup setBuf
    BY <2>1 DEF TypeOK, CacheSound
  <2>2. CASE \E h \in Handlers : Adds(h, e)
    BY <2>2, AddedSound
  <2> QED
    BY <2>1, <2>2, NewEntries
<1> QED
  BY <1>1 DEF CacheSound, EntrySound, ImageSound, AttSound, Names, VerdictOf, Tags

-----------------------------------------------------------------------------
(* Handlers do not touch each other's locals.                              *)

SameRequest(h) ==
    /\ pc'[h] = pc[h] /\ req'[h] = req[h] /\ doc'[h] = doc[h] /\ todo'[h] = todo[h]
    /\ cur'[h] = cur[h] /\ dig'[h] = dig[h] /\ seen'[h] = seen[h]
    /\ outcome'[h] = outcome[h] /\ attTodo'[h] = attTodo[h]
    /\ refTodo'[h] = refTodo[h] /\ ref'[h] = ref[h] /\ attested'[h] = attested[h]

HandlerInv(h) == Local(h) /\ OutcomeInv(h) /\ AttestedInv(h) /\ ReferrersInv(h)

\* What a result stands for does not depend on the state.
LEMMA SoundKept ==
    /\ \A i, d : Names(i, d)' <=> Names(i, d)
    /\ \A i, d, b : ImageSound(i, d, b)' <=> ImageSound(i, d, b)
    /\ \A i, a, d, b : AttSound(i, a, d, b)' <=> AttSound(i, a, d, b)
    /\ \A d, i : Skips(d, i)' <=> Skips(d, i)
    /\ \A p, d, t : Basis(p, d, t)' = Basis(p, d, t)
  BY DEF Names, ImageSound, AttSound, Skips, Basis, VerdictOf, Tags

\* What is known of a request depends on its locals only.
LEMMA SameInv ==
    ASSUME NEW h \in Handlers, HandlerInv(h), SameRequest(h), useCache' = useCache
    PROVE  HandlerInv(h)'
<1> USE DEF SameRequest, HandlerInv
<1>1. \A r : Required(h, r)' = Required(h, r)
  BY DEF Required
<1>2. Matching(h)' = Matching(h) /\ Pending(h)' = Pending(h)
  BY DEF Matching, Pending
<1>3. Local(h)'
  BY <1>1, <1>2, SoundKept, ZenonT(40) DEF Local, Working
<1>4. OutcomeInv(h)'
  BY SoundKept DEF OutcomeInv, ImageOf
<1>5. AttestedInv(h)'
  <2>1. AttestedInv(h)
    OBVIOUS
  <2>2. Pinned(h)' = Pinned(h) /\ \A o : ImageOf(h, o)' = ImageOf(h, o)
    BY DEF Pinned, ImageOf
  <2>3. PinnedImages(h)' = PinnedImages(h)
    BY <2>2 DEF PinnedImages
  <2>4. \A x, a : Met(h, x, a)' <=> Met(h, x, a)
    BY SoundKept DEF Met
  <2>5. \A t \in attested'[h] :
           /\ t.basis.policy = req'[h].policy
           /\ t.digest \in Digests
           /\ AttSound(t.image, t.att, t.digest, t.basis)'
    BY <2>1, SoundKept, SMT DEF AttestedInv
  <2>6. pc'[h] \in Checking =>
           \A o \in Pinned(h)' :
              \/ ImageOf(h, o)' \in attTodo'[h]
              \/ pc'[h] \in AttPhase /\ ImageOf(h, o)' = cur'[h]
              \/ \A a \in req'[h].atts[ImageOf(h, o)'] : Met(h, ImageOf(h, o), a)'
    BY <2>1, <2>2, <2>4 DEF AttestedInv
  <2>7. pc'[h] \in RefPhase =>
           \A a \in req'[h].atts[cur'[h]] :
              Met(h, cur[h], a)' \/ \E r \in Pending(h)' : TypeOf[r] = TypeOf[a]
    BY <1>2, <2>1, <2>4 DEF AttestedInv
  <2> QED
    BY <2>1, <2>5, <2>6, <2>7, <2>3 DEF AttestedInv
<1>6. \A t, r : ReferrerAccepted(h, t, r)' <=> ReferrerAccepted(h, t, r)
  BY DEF ReferrerAccepted, VerdictOf
<1>7. \A r : ForReferrer(h, r)' = ForReferrer(h, r)
  BY <1>1 DEF ForReferrer
<1>8. ReferrersInv(h)'
  BY <1>2, <1>6, <1>7 DEF ReferrersInv, AtHand
<1> QED
  BY <1>3, <1>4, <1>5, <1>8

\* A step of one handler leaves the others alone.
LEMMA OthersSame ==
    ASSUME TypeOK, NEW g \in Handlers, NEW h \in Handlers, g # h,
           HandlerStep(g) \/ RequestFails(g) \/ \E r \in Requests : Accept(g, r)
    PROVE  SameRequest(h)
<1> USE DEF TypeOK, SameRequest
<1>1. ASSUME NEW r \in Requests, Accept(g, r) PROVE SameRequest(h)
  BY <1>1, ZenonT(40) DEF Accept
<1>2. CASE Authenticate(g) \/ Refuse(g) \/ GetVerifier(g) \/ Prepare(g) \/ RequestFails(g)
  BY <1>2 DEF Authenticate, Refuse, GetVerifier, Prepare, RequestFails, Failed
<1>3. ASSUME NEW c \in Containers, VerifyImageInfo(g, c) PROVE SameRequest(h)
  BY <1>3 DEF VerifyImageInfo
<1>4. CASE ResolveDigest(g) \/ VerifyReferences(g)
  BY <1>4 DEF ResolveDigest, VerifyReferences, Failed
<1>5. CASE AddImage(g) \/ BuildAttestationList(g)
  BY <1>5 DEF AddImage, BuildAttestationList
<1>6. ASSUME NEW i \in Images, VerifyAttestation(g, i) PROVE SameRequest(h)
  BY <1>6 DEF VerifyAttestation
<1>7. CASE Head(g)
  BY <1>7 DEF Head, Failed
<1>8. ASSUME NEW r \in Digests, CheckReferrer(g, r) PROVE SameRequest(h)
  BY <1>8 DEF CheckReferrer
<1>9. CASE VerifyReferrer(g)
  BY <1>9 DEF VerifyReferrer, Failed
<1>10. CASE AddAttestation(g) \/ AttestationDone(g) \/ VerificationSucceeded(g)
  BY <1>10 DEF AddAttestation, AttestationDone, VerificationSucceeded
<1>11. CASE Respond(g)
  BY <1>11 DEF Respond
<1> QED
  BY <1>1, <1>2, <1>3, <1>4, <1>5, <1>6, <1>7, <1>8, <1>9, <1>10, <1>11 DEF HandlerStep

\* The flag does not change.
LEMMA UseCacheSame == [Next]_vars => useCache' = useCache
<1> USE DEF world, others, vars
<1>1. ASSUME NEW h \in Handlers, HandlerStep(h) \/ RequestFails(h) PROVE useCache' = useCache
  BY <1>1 DEF HandlerStep, RequestFails, Authenticate, Refuse, GetVerifier, Prepare,
     VerifyImageInfo, ResolveDigest, VerifyReferences, AddImage, BuildAttestationList,
     VerifyAttestation, Head, CheckReferrer, VerifyReferrer, AddAttestation,
     AttestationDone, VerificationSucceeded, Respond
<1>2. ASSUME NEW h \in Handlers, NEW r \in Requests, Accept(h, r) PROVE useCache' = useCache
  BY <1>2 DEF Accept
<1>3. ASSUME NEW e, ProcessSet(e) \/ Evict(e) PROVE useCache' = useCache
  BY <1>3 DEF ProcessSet, Evict
<1>4. CASE \/ \E i \in Tags, d \in Manifests : Push(i, d)
           \/ ChangeFiles \/ (\E k \in changed : Notify(k) \/ SyncFails(k)) \/ Reload
  BY <1>4 DEF Push, ChangeFiles, Notify, SyncFails, Reload, Receive, LoadPolicy,
     RefreshVerifiers, RefreshFails, ClearCache
<1> QED
  BY <1>1, <1>2, <1>3, <1>4 DEF Next, Wait

-----------------------------------------------------------------------------
(* Types.                                                                  *)

WorldType ==
    /\ tag \in [Tags -> Manifests]
    /\ store \in Stores
    /\ files \in [Policies -> Docs \cup {None}]
    /\ verifiers \in [Policies -> Docs \cup {None}]
    /\ building \in [Policies -> Docs \cup {None}]
    /\ changed \subseteq {"policy", "store"} /\ pending \subseteq Policies
    /\ {notified, overlap, missed, lost, useCache} \subseteq BOOLEAN
    /\ reload \in {"idle", "load", "clear"}
    /\ requests \in Nat /\ pushes \in Nat /\ changes \in Nat

RequestType ==
    /\ pc \in [Handlers -> PCs]
    /\ req \in [Handlers -> Requests \cup {None}]
    /\ doc \in [Handlers -> Docs \cup {None}]
    /\ todo \in [Handlers -> SUBSET Containers]
    /\ cur \in [Handlers -> Containers \cup Images \cup {None}]
    /\ dig \in [Handlers -> Digests \cup {NoDigest}]
    /\ seen \in [Handlers -> Stores \cup {None}]
    /\ outcome \in [Handlers -> SUBSET Outcomes]
    /\ attTodo \in [Handlers -> SUBSET Images]
    /\ refTodo \in [Handlers -> SUBSET Digests]
    /\ ref \in [Handlers -> Digests \cup {None}]
    /\ attested \in [Handlers -> SUBSET AttestedSet]

\* The world keeps its types; handlers leave it alone.
LEMMA WorldTypeStep ==
    ASSUME TypeOK, [Next]_vars
    PROVE  WorldType'
<1> USE DEF TypeOK, WorldType, world, disk, loader, others, vars
<1>1. ASSUME NEW i \in Tags, NEW d \in Manifests, Push(i, d) PROVE WorldType'
  BY <1>1, SMT DEF Push
<1>2. CASE ChangeFiles
  <2>1. /\ UNCHANGED <<tag, pushes, useCache, requests, notified, loader>>
        /\ changes' = changes + 1
    BY <1>2 DEF ChangeFiles
  <2>2. store' \in Stores /\ files' \in [Policies -> Docs \cup {None}]
    BY <1>2 DEF ChangeFiles
  <2>3. changed' \subseteq {"policy", "store"}
    BY <1>2 DEF ChangeFiles
  <2>4. changes' \in Nat
    BY <2>1, SMT
  <2> QED
    BY <2>1, <2>2, <2>3, <2>4
<1>3. CASE \/ (\E k \in changed : Notify(k) \/ SyncFails(k))
           \/ Receive \/ RefreshVerifiers \/ RefreshFails
  <2>1. NoVerifiers \in [Policies -> Docs \cup {None}]
    BY DEF NoVerifiers
  <2> QED
    BY <1>3, <2>1 DEF Notify, SyncFails, Receive, RefreshVerifiers, RefreshFails
<1>4. ASSUME NEW p \in Policies, LoadPolicy(p) PROVE WorldType'
  BY <1>4 DEF LoadPolicy
<1>5. CASE ClearCache
  <2>1. (\E h \in Handlers : Outdated(h)) \in BOOLEAN
    OBVIOUS
  <2> QED
    BY <1>5, <2>1 DEF ClearCache
<1>6. ASSUME NEW e, ProcessSet(e) \/ Evict(e) PROVE WorldType'
  BY <1>6 DEF ProcessSet, Evict
<1>7. ASSUME NEW h \in Handlers, NEW r \in Requests, Accept(h, r) PROVE WorldType'
  BY <1>7, SMT DEF Accept
<1>8. ASSUME NEW h \in Handlers, HandlerStep(h) \/ RequestFails(h) PROVE WorldType'
  <2>1. UNCHANGED <<world, requests>>
    BY <1>8 DEF HandlerStep, RequestFails, Authenticate, Refuse, GetVerifier, Prepare,
       VerifyImageInfo, ResolveDigest, VerifyReferences, AddImage, BuildAttestationList,
       VerifyAttestation, Head, CheckReferrer, VerifyReferrer, AddAttestation,
       AttestationDone, VerificationSucceeded, Respond
  <2> QED
    BY <2>1
<1>9. CASE UNCHANGED vars
  BY <1>9
<1> QED
  BY <1>1, <1>2, <1>3, <1>4, <1>5, <1>6, <1>7, <1>8, <1>9 DEF Next, Reload, Wait

\* What a cached entry gives to a request.
LEMMA FromCacheSound ==
    ASSUME TypeOK, CacheSound, NEW h \in Handlers, req[h] \in Requests, NEW i \in Images,
           NEW a \in Atts, NEW t \in FromCache(h, i, a)
    PROVE  /\ t \in AttestedSet
           /\ t.image = i /\ t.att = a /\ t.basis.policy = req[h].policy
           /\ t.digest \in Digests /\ AttSound(i, a, t.digest, t.basis)
<1>1. PICK e \in Hits(AttKey(h, i, a)) : t = Attested(i, a, e.digest, e.basis)
  BY DEF FromCache
<1>2. e \in cache /\ e.key = AttKey(h, i, a)
  BY <1>1, HitsAre
<1>3. e \in Entries /\ EntrySound(e)
  BY <1>2 DEF TypeOK, CacheSound
<1>4. e.key.policy = req[h].policy /\ e.key.image = i /\ e.key.att = a /\ a # None
  BY <1>2, NullsAssumption, SMT DEF AttKey, Key
<1>5. e.basis \in Bases /\ e.digest \in Digests \cup {NoDigest}
  BY <1>3 DEF Entries
<1>6. /\ e.basis.policy = req[h].policy /\ e.digest \in Digests
      /\ AttSound(i, a, e.digest, e.basis)
  BY <1>3, <1>4 DEF EntrySound
<1>7. t = [image |-> i, att |-> a, digest |-> e.digest, basis |-> e.basis]
  BY <1>1 DEF Attested
<1> QED
  BY <1>5, <1>6, <1>7 DEF AttestedSet

\* What a handler has verified has the type of an attestation or an outcome.
LEMMA BasisType ==
    ASSUME TypeOK, NEW h \in Handlers, Local(h), pc[h] \in {"addImage", "addAttestation"}
    PROVE  Basis(req[h].policy, doc[h], seen[h]) \in Bases
<1>1. req[h] \in Requests /\ doc[h] \in Docs /\ seen[h] \in Stores
  BY DEF Local, Working
<1>2. req[h].policy \in Policies
  BY <1>1, RequestShape
<1> QED
  BY <1>1, <1>2 DEF Basis, Bases

\* Every step of a handler keeps the types of the locals.
LEMMA RequestTypeStep ==
    ASSUME TypeOK, CacheSound, NEW h \in Handlers, Local(h), OutcomeInv(h),
           HandlerStep(h) \/ RequestFails(h) \/ \E r \in Requests : Accept(h, r)
    PROVE  RequestType'
<1> USE DEF RequestType, others
<1>a. RequestType
  BY DEF TypeOK
<1>b. {} \in SUBSET Outcomes /\ "failed" \in PCs
  BY DEF PCs
<1>1. ASSUME NEW r \in Requests, Accept(h, r) PROVE RequestType'
  <2>1. DOMAIN r.images \in SUBSET Containers
    BY RequestShape
  <2> QED
    BY <1>1, <1>a, <2>1 DEF Accept, PCs
<1>2. CASE Authenticate(h)
  BY <1>2, <1>a, <1>b DEF Authenticate, Failed, PCs
<1>3. CASE Refuse(h) \/ RequestFails(h)
  BY <1>3, <1>a, <1>b DEF Refuse, RequestFails, Failed
<1>4. CASE GetVerifier(h)
  <2>1. req[h].policy \in Policies
    BY <1>4, RequestShape DEF GetVerifier, Local
  <2>2. verifiers[req[h].policy] \in Docs \cup {None}
    BY <2>1 DEF TypeOK
  <2> QED
    BY <1>4, <1>a, <1>b, <2>2 DEF GetVerifier, Failed, PCs
<1>5. CASE Prepare(h)
  BY <1>5, <1>a DEF Prepare, PCs
<1>6. ASSUME NEW c \in Containers, VerifyImageInfo(h, c) PROVE RequestType'
  <2>1. /\ todo' \in [Handlers -> SUBSET Containers]
        /\ UNCHANGED <<req, doc, dig, seen, attTodo, refTodo, ref, attested>>
    BY <1>6, <1>a DEF VerifyImageInfo
  <2>2. CASE UNCHANGED <<pc, cur, outcome>>
    BY <1>a, <2>1, <2>2
  <2>3. ASSUME NEW e \in Hits(ImageKey(h, c)), UNCHANGED <<pc, cur>>,
               outcome' = [outcome EXCEPT ![h] = @ \cup {Outcome(c, e.digest, e.basis)}]
        PROVE  RequestType'
    <3>1. e \in Entries
      BY HitsAre DEF TypeOK
    <3>2. Outcome(c, e.digest, e.basis) \in Outcomes
      BY <3>1 DEF Outcome, Outcomes, Entries
    <3> QED
      BY <1>a, <2>1, <2>3, <3>2
  <2>4. CASE /\ pc' = [pc EXCEPT ![h] = "resolve"] /\ cur' = [cur EXCEPT ![h] = c]
             /\ UNCHANGED outcome
    BY <1>a, <2>1, <2>4 DEF PCs
  <2> QED
    BY <1>6, <2>2, <2>3, <2>4 DEF VerifyImageInfo
<1>7. CASE ResolveDigest(h)
  <2>1. req[h].images[cur[h]] \in Images
    BY <1>7, RequestShape DEF ResolveDigest, Local, ImagePhase
  <2>2. Resolved(req[h].images[cur[h]]) \in Digests
    BY <2>1, ResolvedNames, VerdictAssumption
  <2> QED
    BY <1>7, <1>a, <2>2 DEF ResolveDigest, PCs
<1>8. CASE VerifyReferences(h)
  <2>1. store \in Stores /\ dig[h] \in Digests \cup {NoDigest}
    BY DEF TypeOK
  <2> QED
    BY <1>8, <1>a, <1>b, <2>1, SMT DEF VerifyReferences, Failed, PCs
<1>9. CASE AddImage(h)
  <2> DEFINE b == Basis(req[h].policy, doc[h], seen[h])
  <2>1. b \in Bases
    BY <1>9, BasisType DEF AddImage
  <2>2. cur[h] \in Containers
    BY <1>9, RequestShape DEF AddImage, Local, ImagePhase
  <2>3. dig[h] \in Digests \cup {NoDigest}
    BY DEF TypeOK
  <2> HIDE DEF b
  <2>4. Outcome(cur[h], dig[h], b) \in Outcomes
    BY <2>1, <2>2, <2>3 DEF Outcome, Outcomes
  <2>5. outcome' = [outcome EXCEPT ![h] = @ \cup {Outcome(cur[h], dig[h], b)}]
    BY <1>9 DEF AddImage, b
  <2>6. outcome' \in [Handlers -> SUBSET Outcomes]
    BY <1>a, <2>4, <2>5
  <2> QED
    BY <1>9, <1>a, <2>6 DEF AddImage, PCs
<1>10. CASE BuildAttestationList(h)
  <2>1. ASSUME NEW o \in Pinned(h) PROVE ImageOf(h, o) \in Images
    <3>1. pc[h] = "images" /\ req[h] \in Requests /\ o \in outcome[h]
      BY <1>10 DEF BuildAttestationList, Local, Pinned
    <3>2. o.container \in DOMAIN req[h].images
      BY <3>1 DEF OutcomeInv
    <3> QED
      BY <3>1, <3>2, RequestShape DEF ImageOf
  <2> QED
    BY <1>10, <1>a, <2>1, SMT DEF BuildAttestationList, PCs
<1>11. ASSUME NEW i \in Images, VerifyAttestation(h, i) PROVE RequestType'
  <2>1. /\ attTodo' \in [Handlers -> SUBSET Images]
        /\ UNCHANGED <<req, doc, todo, dig, seen, outcome, refTodo, ref>>
    BY <1>11, <1>a DEF VerifyAttestation
  <2>2. CASE /\ UNCHANGED <<pc, cur>>
             /\ attested' = [attested EXCEPT ![h] =
                   @ \cup UNION {FromCache(h, i, a) : a \in req[h].atts[i]}]
    <3>1. req[h] \in Requests
      BY <1>11 DEF VerifyAttestation, Local
    <3>2. req[h].atts[i] \subseteq Atts
      BY <3>1, RequestShape
    <3>3. \A a \in req[h].atts[i] : FromCache(h, i, a) \subseteq AttestedSet
      BY <3>1, <3>2, FromCacheSound
    <3>4. UNION {FromCache(h, i, a) : a \in req[h].atts[i]} \subseteq AttestedSet
      BY <3>3
    <3> QED
      BY <1>a, <2>1, <2>2, <3>4
  <2>3. CASE /\ UNCHANGED attested /\ pc' = [pc EXCEPT ![h] = "head"]
             /\ cur' = [cur EXCEPT ![h] = i]
    BY <1>a, <2>1, <2>3 DEF PCs
  <2> QED
    BY <1>11, <2>2, <2>3 DEF VerifyAttestation
<1>12. CASE Head(h)
  <2>1. cur[h] \in Images
    BY <1>12 DEF Head, Local, AttPhase
  <2> DEFINE d == Resolved(cur[h])
  <2>2. d \in Digests
    BY <2>1, ResolvedNames, VerdictAssumption
  <2>3. ReferrersOf[d] \subseteq Digests
    BY <2>2, VerdictAssumption
  <2>4. dig' = [dig EXCEPT ![h] = d]
    BY <1>12 DEF Head
  <2>5. UNCHANGED <<req, doc, todo, cur, seen, attTodo, ref, attested>>
    BY <1>12 DEF Head
  <2> DEFINE s == {r \in ReferrersOf[d] : TypeOf[r] \in {TypeOf[a] : a \in req[h].atts[cur[h]]}}
  <2>6. \/ /\ refTodo' = [refTodo EXCEPT ![h] = s]
           /\ pc' = [pc EXCEPT ![h] = "referrers"] /\ UNCHANGED outcome
        \/ Failed(h) /\ UNCHANGED refTodo
    BY <1>12 DEF Head
  <2>7. s \in SUBSET Digests
    BY <2>3
  <2> HIDE DEF d, s
  <2> QED
    BY <1>a, <1>b, <2>2, <2>4, <2>5, <2>6, <2>7 DEF Failed, PCs
<1>13. ASSUME NEW r \in Digests, CheckReferrer(h, r) PROVE RequestType'
  <2>1. /\ pc[h] \in RefPhase /\ r \in refTodo[h] /\ req[h] \in Requests
        /\ cur[h] \in Images /\ r \in Matching(h)
    BY <1>13 DEF CheckReferrer, Local, AttPhase, RefPhase, Pending
  <2>2. Required(h, r) \in Atts
    BY <2>1, RequiredIs DEF Matching
  <2>3. FromCache(h, cur[h], Required(h, r)) \subseteq AttestedSet
    BY <2>1, <2>2, FromCacheSound
  <2>4. Remaining(h, r) \in SUBSET Digests
    BY <1>a DEF Remaining
  <2>5. /\ refTodo' \in [Handlers -> SUBSET Digests]
        /\ UNCHANGED <<req, doc, todo, cur, dig, seen, outcome, attTodo>>
    BY <1>13, <1>a, <2>4 DEF CheckReferrer
  <2>6. \/ /\ UNCHANGED <<pc, ref>>
           /\ attested' = [attested EXCEPT ![h] = @ \cup FromCache(h, cur[h], Required(h, r))]
        \/ /\ ref' = [ref EXCEPT ![h] = r] /\ UNCHANGED attested
           /\ pc' = [pc EXCEPT ![h] = "verifyReferrer"]
    BY <1>13 DEF CheckReferrer
  <2> QED
    BY <1>a, <2>3, <2>5, <2>6, SMT DEF PCs
<1>14. CASE VerifyReferrer(h)
  <2>1. store \in Stores
    BY DEF TypeOK
  <2> QED
    BY <1>14, <1>a, <1>b, <2>1, SMT DEF VerifyReferrer, Failed, PCs
<1>15. CASE AddAttestation(h)
  <2> DEFINE a == Required(h, ref[h])
             b == Basis(req[h].policy, doc[h], seen[h])
  <2>1. b \in Bases
    BY <1>15, BasisType DEF AddAttestation
  <2>2. /\ cur[h] \in Images /\ ref[h] \in Matching(h) /\ req[h] \in Requests
    BY <1>15 DEF AddAttestation, Local, AttPhase, RefPhase, Pending
  <2>3. a \in Atts
    BY <2>2, RequiredIs DEF Matching
  <2>4. dig[h] \in Digests \cup {NoDigest}
    BY DEF TypeOK
  <2>5. /\ attested' = [attested EXCEPT ![h] = @ \cup {Attested(cur[h], a, dig[h], b)}]
        /\ pc' = [pc EXCEPT ![h] = "referrers"]
        /\ UNCHANGED <<req, doc, todo, cur, dig, seen, outcome, attTodo, refTodo, ref>>
    BY <1>15 DEF AddAttestation
  <2> HIDE DEF a, b
  <2>6. Attested(cur[h], a, dig[h], b) \in AttestedSet
    BY <2>1, <2>2, <2>3, <2>4 DEF Attested, AttestedSet
  <2> QED
    BY <1>a, <2>5, <2>6 DEF PCs
<1>16. CASE AttestationDone(h) \/ VerificationSucceeded(h)
  BY <1>16, <1>a DEF AttestationDone, VerificationSucceeded, PCs
<1>17. CASE Respond(h)
  BY <1>17, <1>a, <1>b DEF Respond, PCs
<1> QED
  BY <1>1, <1>2, <1>3, <1>4, <1>5, <1>6, <1>7, <1>8, <1>9, <1>10, <1>11, <1>12, <1>13,
     <1>14, <1>15, <1>16, <1>17 DEF HandlerStep

\* Every step keeps the types.
LEMMA TypeStep ==
    ASSUME TypeOK, CacheSound, HandlersInv, [Next]_vars
    PROVE  TypeOK'
<1>1. WorldType'
  BY WorldTypeStep
<1>2. cache' \subseteq Entries /\ setBuf' \subseteq Entries
  BY CacheStep DEF HandlersInv
<1>3. RequestType'
  <2>1. ASSUME NEW h \in Handlers,
               HandlerStep(h) \/ RequestFails(h) \/ \E r \in Requests : Accept(h, r)
        PROVE  RequestType'
    BY <2>1, RequestTypeStep DEF HandlersInv
  <2>2. CASE UNCHANGED request
    BY <2>2 DEF TypeOK, RequestType, request
  <2> QED
    BY <2>1, <2>2 DEF Next, Push, ChangeFiles, Notify, SyncFails, Reload, Receive,
       LoadPolicy, RefreshVerifiers, RefreshFails, ClearCache, ProcessSet, Evict, Wait, vars
<1> QED
  BY <1>1, <1>2, <1>3 DEF WorldType, RequestType, TypeOK, Entries, Keys, Bases, Outcomes,
     AttestedSet, PCs, Tags

-----------------------------------------------------------------------------
(* What is known of a request is kept by its own steps.  First, facts for  *)
(* steps that leave the results alone.                                     *)

\* A request that fails gives up its results.
LEMMA FailedStep ==
    ASSUME NEW h \in Handlers, HandlerInv(h), pc[h] # "idle", pc'[h] = "failed",
           req'[h] = req[h], todo'[h] = todo[h], attested'[h] = attested[h]
    PROVE  HandlerInv(h)'
<1>1. Local(h)'
  BY DEF HandlerInv, Local, Working, ImagePhase, Checking, AttPhase, RefPhase
<1>2. OutcomeInv(h)'
  BY DEF OutcomeInv
<1>3. AttestedInv(h)'
  BY SMT DEF HandlerInv, AttestedInv, Checking, AttPhase, RefPhase, AttSound, VerdictOf, Names,
     Tags
<1>4. ReferrersInv(h)'
  BY DEF ReferrersInv, Checking, AttPhase, RefPhase
<1> QED
  BY <1>1, <1>2, <1>3, <1>4 DEF HandlerInv

\* The images are left alone.
LEMMA OutcomeKept ==
    ASSUME NEW h \in Handlers, OutcomeInv(h), pc[h] \notin {"idle", "failed"},
           req'[h] = req[h], todo'[h] = todo[h], outcome'[h] = outcome[h],
           useCache' = useCache, doc'[h] = doc[h] \/ outcome[h] = {},
           pc[h] \in ImagePhase => pc'[h] \in ImagePhase /\ cur'[h] = cur[h]
    PROVE  OutcomeInv(h)'
  BY SoundKept DEF OutcomeInv, ImageOf

\* The attestations are left alone, and none is being checked.
LEMMA AttestedKept ==
    ASSUME NEW h \in Handlers, AttestedInv(h), pc'[h] \notin Checking,
           req'[h] = req[h], attested'[h] = attested[h]
    PROVE  AttestedInv(h)'
  BY DEF AttestedInv, Checking, AttPhase, AttSound, VerdictOf, Names, Tags

\* The referrers are not reached yet.
LEMMA ReferrersKept ==
    ASSUME NEW h \in Handlers, ReferrersInv(h), useCache' = useCache,
           pc[h] \notin Checking \cup {"failed"}, pc'[h] \notin Checking \cup {"failed"},
           attested'[h] = attested[h]
    PROVE  ReferrersInv(h)'
  BY DEF ReferrersInv, Checking, AttPhase

\* What was accepted stays accepted.
LEMMA AcceptedStays ==
    ASSUME NEW h \in Handlers, attested[h] \subseteq attested'[h]
    PROVE  \A t, r : ReferrerAccepted(h, t, r) => ReferrerAccepted(h, t, r)'
  BY DEF ReferrerAccepted, VerdictOf

-----------------------------------------------------------------------------
(* From the request to its verifier.                                       *)

\* Accept, Authenticate, Refuse, GetVerifier and Prepare, a failure and the response.
LEMMA BeginStep ==
    ASSUME TypeOK, NEW h \in Handlers, HandlerInv(h), useCache' = useCache,
           \/ \E r \in Requests : Accept(h, r)
           \/ Authenticate(h) \/ Refuse(h) \/ GetVerifier(h) \/ Prepare(h)
           \/ RequestFails(h) \/ Respond(h)
    PROVE  HandlerInv(h)'
<1>a. Local(h) /\ OutcomeInv(h) /\ AttestedInv(h) /\ ReferrersInv(h)
  BY DEF HandlerInv
<1>1. ASSUME NEW r \in Requests, Accept(h, r) PROVE HandlerInv(h)'
  <2>1. /\ pc'[h] \in {"review", "decode"} /\ req'[h] = r /\ todo'[h] = DOMAIN r.images
        /\ outcome'[h] = {} /\ attested'[h] = {}
    BY <1>1 DEF TypeOK, Accept
  <2>2. Local(h)'
    BY <2>1 DEF Local, Working, ImagePhase, Checking, AttPhase, RefPhase
  <2>3. OutcomeInv(h)'
    BY <2>1 DEF OutcomeInv
  <2>4. AttestedInv(h)' /\ ReferrersInv(h)'
    BY <2>1 DEF AttestedInv, ReferrersInv, Checking, AttPhase, RefPhase
  <2> QED
    BY <2>2, <2>3, <2>4 DEF HandlerInv
<1>2. CASE Failed(h) /\ UNCHANGED <<req, todo, attested>> /\ pc[h] # "idle"
  <2>1. pc'[h] = "failed"
    BY <1>2 DEF TypeOK, Failed
  <2> QED
    BY <1>2, <2>1, FailedStep
<1>3. CASE Authenticate(h)
  <2>1. CASE Failed(h)
    BY <1>2, <1>3, <2>1 DEF TypeOK, Authenticate
  <2>2. CASE ~Failed(h)
    <3>1. /\ pc[h] = "review" /\ pc'[h] = "decode"
          /\ UNCHANGED <<req, doc, todo, attested, outcome>>
      BY <1>3, <2>2 DEF TypeOK, Authenticate
    <3>2. Local(h)'
      BY <1>a, <3>1 DEF Local, Working, ImagePhase, Checking, AttPhase, RefPhase
    <3>3. OutcomeInv(h)'
      BY <1>a, <3>1, OutcomeKept DEF ImagePhase
    <3>4. AttestedInv(h)'
      BY <1>a, <3>1, AttestedKept DEF Checking, AttPhase, RefPhase
    <3>5. ReferrersInv(h)'
      BY <1>a, <3>1, ReferrersKept DEF Checking, AttPhase, RefPhase
    <3> QED
      BY <3>2, <3>3, <3>4, <3>5 DEF HandlerInv
  <2> QED
    BY <2>1, <2>2
<1>4. CASE Refuse(h)
  BY <1>2, <1>4 DEF Refuse
<1>5. CASE RequestFails(h)
  BY <1>2, <1>5 DEF RequestFails
<1>6. CASE GetVerifier(h)
  <2>1. CASE verifiers[req[h].policy] = None
    BY <1>2, <1>6, <2>1 DEF TypeOK, GetVerifier
  <2>2. CASE verifiers[req[h].policy] # None
    <3>1. req[h] \in Requests
      BY <1>a, <1>6 DEF TypeOK, GetVerifier, Local
    <3>2. req[h].policy \in Policies
      BY <3>1, RequestShape
    <3>3. verifiers[req[h].policy] \in Docs
      BY <2>2, <3>2 DEF TypeOK
    <3>4. /\ pc[h] = "decode" /\ pc'[h] = "prepare" /\ doc'[h] \in Docs
          /\ UNCHANGED <<req, todo, attested, outcome>>
      BY <1>6, <2>2, <3>3 DEF TypeOK, GetVerifier
    <3>5. outcome[h] = {}
      BY <1>a, <3>4 DEF Local
    <3>6. Local(h)'
      BY <1>a, <3>4 DEF Local, Working, ImagePhase, Checking, AttPhase, RefPhase
    <3>7. OutcomeInv(h)'
      BY <1>a, <3>4, <3>5, OutcomeKept DEF ImagePhase
    <3>8. AttestedInv(h)'
      BY <1>a, <3>4, AttestedKept DEF Checking, AttPhase, RefPhase
    <3>9. ReferrersInv(h)'
      BY <1>a, <3>4, ReferrersKept DEF Checking, AttPhase, RefPhase
    <3> QED
      BY <3>6, <3>7, <3>8, <3>9 DEF HandlerInv
  <2> QED
    BY <2>1, <2>2
<1>7. CASE Prepare(h)
  <2>1. /\ pc[h] = "prepare" /\ pc'[h] = "images"
        /\ UNCHANGED <<req, doc, todo, attested, outcome>>
    BY <1>7 DEF TypeOK, Prepare
  <2>2. Local(h)'
    BY <1>a, <2>1 DEF Local, Working, ImagePhase, Checking, AttPhase, RefPhase
  <2>3. OutcomeInv(h)'
    BY <1>a, <2>1, OutcomeKept DEF ImagePhase
  <2>4. AttestedInv(h)'
    BY <1>a, <2>1, AttestedKept DEF Checking, AttPhase, RefPhase
  <2>5. ReferrersInv(h)'
    BY <1>a, <2>1, ReferrersKept DEF Checking, AttPhase, RefPhase
  <2> QED
    BY <2>2, <2>3, <2>4, <2>5 DEF HandlerInv
<1>8. CASE Respond(h)
  <2>1. pc'[h] = "idle" /\ attested'[h] = {}
    BY <1>8 DEF TypeOK, Respond
  <2> QED
    BY <2>1 DEF HandlerInv, Local, Working, OutcomeInv, AttestedInv, ReferrersInv,
       ImagePhase, Checking, AttPhase, RefPhase
<1> QED
  BY <1>1, <1>3, <1>4, <1>5, <1>6, <1>7, <1>8

-----------------------------------------------------------------------------
(* The images.                                                             *)

\* VerifyImageInfo to AddImage: results come from the cache, which is sound, or from
\* notation, and a selected container is in todo, at hand or in outcome.
LEMMA ImageStep ==
    ASSUME TypeOK, CacheSound, NEW h \in Handlers, HandlerInv(h), useCache' = useCache,
           \/ \E c \in Containers : VerifyImageInfo(h, c)
           \/ ResolveDigest(h) \/ VerifyReferences(h) \/ AddImage(h)
    PROVE  HandlerInv(h)'
<1>a. Local(h) /\ OutcomeInv(h) /\ AttestedInv(h) /\ ReferrersInv(h)
  BY DEF HandlerInv
<1>b. ASSUME pc[h] \in {"images"} \cup ImagePhase, pc'[h] \in {"images"} \cup ImagePhase,
             UNCHANGED <<req, attested>>
      PROVE  AttestedInv(h)' /\ ReferrersInv(h)'
  <2>1. AttestedInv(h)'
    BY <1>a, <1>b, AttestedKept DEF ImagePhase, Checking, AttPhase, RefPhase
  <2>2. ReferrersInv(h)'
    BY <1>a, <1>b, ReferrersKept DEF ImagePhase, Checking, AttPhase, RefPhase
  <2> QED
    BY <2>1, <2>2
<1>1. ASSUME NEW c \in Containers, VerifyImageInfo(h, c) PROVE HandlerInv(h)'
  <2>1. /\ pc[h] = "images" /\ c \in todo[h] /\ todo'[h] = todo[h] \ {c}
        /\ UNCHANGED <<req, doc, attested>>
    BY <1>1 DEF TypeOK, VerifyImageInfo
  <2>2. req[h] \in Requests /\ todo[h] \subseteq DOMAIN req[h].images /\ doc[h] \in Docs
    BY <1>a, <2>1 DEF Local, Working
  <2>3. CASE req[h].images[c] \notin req[h].matched /\ UNCHANGED <<pc, outcome>>
    <3>1. Local(h)'
      BY <2>1, <2>2, <2>3 DEF Local, Working, ImagePhase, Checking, AttPhase, RefPhase
    <3>2. OutcomeInv(h)'
      BY <1>a, <2>1, <2>3 DEF OutcomeInv, ImageOf, ImagePhase, ImageSound, VerdictOf, Names,
         Tags
    <3> QED
      BY <1>b, <2>1, <2>3, <3>1, <3>2 DEF HandlerInv
  <2>4. ASSUME NEW e \in Hits(ImageKey(h, c)), req[h].images[c] \in req[h].matched,
               UNCHANGED pc, outcome'[h] = outcome[h] \cup {Outcome(c, e.digest, e.basis)}
        PROVE  HandlerInv(h)'
    <3>1. Local(h)'
      BY <2>1, <2>2, <2>4 DEF Local, Working, ImagePhase, Checking, AttPhase, RefPhase
    <3>2. e \in cache /\ e.key = ImageKey(h, c) /\ useCache
      BY HitsAre
    <3>3. /\ e.key.policy = req[h].policy /\ e.key.image = req[h].images[c]
          /\ e.key.att = None
      BY <3>2, SMT DEF ImageKey, Key
    <3>4. /\ e.basis.policy = req[h].policy
          /\ ImageSound(req[h].images[c], e.digest, e.basis)
      BY <3>2, <3>3 DEF CacheSound, EntrySound
    <3> DEFINE n == Outcome(c, e.digest, e.basis)
    <3>5. n.container = c /\ n.digest = e.digest /\ n.basis = e.basis
      BY DEF Outcome
    <3>6. outcome'[h] = outcome[h] \cup {n}
      BY <2>4
    <3> HIDE DEF n
    <3>7. \A o \in outcome'[h] :
             /\ o.container \in DOMAIN req[h].images
             /\ ImageOf(h, o) \in req[h].matched
             /\ o.basis.policy = req[h].policy
             /\ ~useCache => o.basis.doc = doc[h]
             /\ ImageSound(ImageOf(h, o), o.digest, o.basis)
      BY <1>a, <2>1, <2>2, <2>4, <3>2, <3>4, <3>5, <3>6 DEF OutcomeInv, ImageOf
    <3>8. \A x \in DOMAIN req[h].images :
             req[h].images[x] \in req[h].matched =>
                 x \in todo'[h] \/ \E o \in outcome'[h] : o.container = x
      BY <1>a, <2>1, <3>5, <3>6 DEF OutcomeInv, ImagePhase
    <3>9. OutcomeInv(h)'
      BY <2>1, <3>7, <3>8 DEF OutcomeInv, ImageOf, ImageSound, VerdictOf, Names, Tags
    <3> QED
      BY <1>b, <2>1, <2>4, <3>1, <3>9 DEF HandlerInv
  <2>5. CASE /\ req[h].images[c] \in req[h].matched
             /\ pc' = [pc EXCEPT ![h] = "resolve"] /\ cur' = [cur EXCEPT ![h] = c]
             /\ UNCHANGED outcome
    <3>1. pc'[h] = "resolve" /\ cur'[h] = c
      BY <2>5 DEF TypeOK
    <3>2. Local(h)'
      BY <2>1, <2>2, <2>5, <3>1
         DEF Local, Working, ImagePhase, Checking, AttPhase, RefPhase
    <3>3. OutcomeInv(h)'
      BY <1>a, <2>1, <2>5, <3>1 DEF OutcomeInv, ImageOf, ImagePhase, ImageSound, VerdictOf,
         Names, Tags
    <3> QED
      BY <1>b, <2>1, <3>1, <3>2, <3>3 DEF HandlerInv, ImagePhase
  <2>6. \/ req[h].images[c] \notin req[h].matched /\ UNCHANGED <<pc, outcome>>
        \/ \E e \in Hits(ImageKey(h, c)) :
              /\ req[h].images[c] \in req[h].matched
              /\ UNCHANGED pc
              /\ outcome'[h] = outcome[h] \cup {Outcome(c, e.digest, e.basis)}
        \/ /\ req[h].images[c] \in req[h].matched
           /\ pc' = [pc EXCEPT ![h] = "resolve"] /\ cur' = [cur EXCEPT ![h] = c]
           /\ UNCHANGED outcome
    BY <1>1 DEF TypeOK, VerifyImageInfo
  <2> QED
    BY <2>3, <2>4, <2>5, <2>6
<1>2. CASE ResolveDigest(h)
  <2> DEFINE i == req[h].images[cur[h]]
  <2>1. /\ pc[h] = "resolve" /\ pc'[h] = "verifyImage" /\ dig'[h] = Resolved(i)
        /\ UNCHANGED <<req, doc, todo, cur, outcome, attested>>
    BY <1>2 DEF TypeOK, ResolveDigest
  <2>2. /\ req[h] \in Requests /\ cur[h] \in DOMAIN req[h].images
        /\ doc[h] \in Docs /\ i \in req[h].matched /\ todo[h] \subseteq DOMAIN req[h].images
    BY <1>a, <2>1 DEF Local, Working, ImagePhase
  <2>3. i \in Images
    BY <2>2, RequestShape
  <2> HIDE DEF i
  <2>4. dig'[h] \in Manifests /\ Names(i, dig'[h])
    BY <2>1, <2>3, ResolvedNames
  <2>5. Local(h)'
    BY <2>1, <2>2, <2>4 DEF Local, Working, ImagePhase, Checking, AttPhase, RefPhase, Names,
       Tags, i
  <2>6. OutcomeInv(h)'
    BY <1>a, <2>1, OutcomeKept DEF ImagePhase
  <2> QED
    BY <1>b, <2>1, <2>5, <2>6 DEF HandlerInv, ImagePhase
<1>3. CASE VerifyReferences(h)
  <2> DEFINE i == req[h].images[cur[h]]
             v == Verdict[<<doc[h], store, i, dig[h]>>]
             b == Basis(req[h].policy, doc[h], store)
  <2>1. pc[h] = "verifyImage" /\ UNCHANGED <<req, doc, todo, cur, attested>>
    BY <1>3 DEF TypeOK, VerifyReferences
  <2>2. CASE Failed(h)
    <3>1. pc'[h] = "failed"
      BY <2>2 DEF TypeOK, Failed
    <3> QED
      BY <2>1, <3>1, FailedStep
  <2>3. CASE ~Failed(h)
    <3>1. /\ v # "reject" /\ pc'[h] = "addImage" /\ seen'[h] = store /\ store \in Stores
          /\ dig'[h] = (IF v = "skip" THEN NoDigest ELSE dig[h])
          /\ UNCHANGED outcome
      BY <1>3, <2>3 DEF TypeOK, VerifyReferences, NotationVerify
    <3>2. /\ req[h] \in Requests /\ cur[h] \in DOMAIN req[h].images
          /\ doc[h] \in Docs /\ i \in req[h].matched
          /\ todo[h] \subseteq DOMAIN req[h].images
          /\ dig[h] \in Manifests /\ Names(i, dig[h])
      BY <1>a, <2>1 DEF Local, Working, ImagePhase
    <3>3. dig[h] \in Digests /\ dig[h] # NoDigest
      BY <3>2, VerdictAssumption, NullsAssumption
    <3>4. i \in Images
      BY <3>2, RequestShape
    <3>5. v \in {"accept", "reject", "skip"}
      BY <3>2, <3>3, <3>4, VerdictAssumption DEF TypeOK
    <3>6. VerdictOf(b, i, dig[h]) = v
      BY VerdictOnBasis, SMT
    <3> HIDE DEF v, b, i
    <3>7. ImageSound(i, dig'[h], b)
      BY <3>1, <3>2, <3>3, <3>5, <3>6, SMT DEF ImageSound
    <3>8. Local(h)'
      <4>1. ImageSound(i, dig[h], Basis(req[h].policy, doc[h], seen[h]))'
        BY <2>1, <3>1, <3>7 DEF ImageSound, VerdictOf, Names, Tags, Basis, b, i
      <4> QED
        BY <2>1, <3>1, <3>2, <4>1 DEF Local, Working, ImagePhase, Checking, AttPhase,
           RefPhase, i
    <3>9. OutcomeInv(h)'
      BY <1>a, <2>1, <3>1, OutcomeKept DEF ImagePhase
    <3> QED
      BY <1>b, <2>1, <3>1, <3>8, <3>9 DEF HandlerInv, ImagePhase
  <2> QED
    BY <2>2, <2>3
<1>4. CASE AddImage(h)
  <2> DEFINE b == Basis(req[h].policy, doc[h], seen[h])
             n == Outcome(cur[h], dig[h], b)
  <2>1. /\ pc[h] = "addImage" /\ pc'[h] = "images" /\ outcome'[h] = outcome[h] \cup {n}
        /\ UNCHANGED <<req, doc, todo, attested>>
    BY <1>4 DEF TypeOK, AddImage
  <2>2. /\ req[h] \in Requests /\ cur[h] \in DOMAIN req[h].images /\ doc[h] \in Docs
        /\ req[h].images[cur[h]] \in req[h].matched
        /\ todo[h] \subseteq DOMAIN req[h].images
        /\ ImageSound(req[h].images[cur[h]], dig[h], b)
    BY <1>a, <2>1 DEF Local, Working, ImagePhase
  <2>3. /\ n.container = cur[h] /\ n.digest = dig[h] /\ n.basis = b
        /\ b.policy = req[h].policy /\ b.doc = doc[h]
    BY DEF Outcome, Basis
  <2> HIDE DEF n, b
  <2>4. \A o \in outcome'[h] :
           /\ o.container \in DOMAIN req[h].images
           /\ ImageOf(h, o) \in req[h].matched
           /\ o.basis.policy = req[h].policy
           /\ ~useCache => o.basis.doc = doc[h]
           /\ ImageSound(ImageOf(h, o), o.digest, o.basis)
    BY <1>a, <2>1, <2>2, <2>3 DEF OutcomeInv, ImageOf
  <2>5. \A x \in DOMAIN req[h].images :
           req[h].images[x] \in req[h].matched =>
               x \in todo'[h] \/ \E o \in outcome'[h] : o.container = x
    BY <1>a, <2>1, <2>3 DEF OutcomeInv
  <2>6. OutcomeInv(h)'
    BY <2>1, <2>4, <2>5 DEF OutcomeInv, ImageOf, ImageSound, VerdictOf, Names, Tags
  <2>7. Local(h)'
    BY <2>1, <2>2 DEF Local, Working, ImagePhase, Checking, AttPhase, RefPhase
  <2> QED
    BY <1>b, <2>1, <2>6, <2>7 DEF HandlerInv, ImagePhase
<1> QED
  BY <1>1, <1>2, <1>3, <1>4

-----------------------------------------------------------------------------
(* The attestations.                                                       *)

\* What is known while h is in the second half.
LEMMA InChecking ==
    ASSUME NEW h \in Handlers, Local(h), pc[h] \in Checking
    PROVE  /\ req[h] \in Requests /\ doc[h] \in Docs /\ todo[h] = {}
           /\ pc[h] \notin ImagePhase /\ pc[h] \notin {"idle", "failed"}
  BY DEF Local, Working, Checking, AttPhase, RefPhase, ImagePhase

\* Images are left alone from then on.
LEMMA PinnedKept ==
    ASSUME NEW h \in Handlers, UNCHANGED <<req, outcome>>
    PROVE  /\ Pinned(h)' = Pinned(h) /\ \A o : ImageOf(h, o)' = ImageOf(h, o)
           /\ PinnedImages(h)' = PinnedImages(h)
<1>1. Pinned(h)' = Pinned(h) /\ \A o : ImageOf(h, o)' = ImageOf(h, o)
  BY DEF Pinned, ImageOf
<1> QED
  BY <1>1 DEF PinnedImages

\* The document that an image was pinned under does not skip its repository.
LEMMA PinnedNotSkipped ==
    ASSUME TypeOK, NEW h \in Handlers, Local(h), OutcomeInv(h), pc[h] \in Checking,
           NEW o \in Pinned(h), o.basis.doc = doc[h]
    PROVE  ~Skips(doc[h], ImageOf(h, o))
<1>1. req[h] \in Requests /\ doc[h] \in Docs /\ pc[h] \notin {"idle", "failed"}
  BY InChecking
<1>2. o \in outcome[h] /\ o.digest # NoDigest
  BY DEF Pinned
<1>3. o.digest \in Digests /\ o.basis.store \in Stores
  <2>1. o \in Outcomes
    BY <1>2 DEF TypeOK
  <2> QED
    BY <1>2, <2>1, SMT DEF Outcomes, Bases
<1>4. ImageOf(h, o) \in Images
  BY <1>1, <1>2, RequestShape DEF OutcomeInv, ImageOf
<1>5. Verdict[<<doc[h], o.basis.store, ImageOf(h, o), o.digest>>] = "accept"
  BY <1>1, <1>2 DEF OutcomeInv, ImageSound, VerdictOf
<1>6. ASSUME Skips(doc[h], ImageOf(h, o)) PROVE FALSE
  <2>1. Verdict[<<doc[h], o.basis.store, ImageOf(h, o), o.digest>>] = "skip"
    BY <1>1, <1>3, <1>4, <1>6, SkipAssumption DEF Skips
  <2> QED
    BY <1>5, <2>1
<1> QED
  BY <1>6

\* BuildAttestationList puts every pinned image on the list.
LEMMA ListStep ==
    ASSUME TypeOK, NEW h \in Handlers, HandlerInv(h), useCache' = useCache,
           BuildAttestationList(h)
    PROVE  HandlerInv(h)'
<1>a. Local(h) /\ OutcomeInv(h) /\ AttestedInv(h) /\ ReferrersInv(h)
  BY DEF HandlerInv
<1>1. /\ pc[h] = "images" /\ pc'[h] = "attestations" /\ todo[h] = {}
      /\ attTodo'[h] = {ImageOf(h, o) : o \in Pinned(h)}
      /\ UNCHANGED <<req, doc, todo, outcome, attested>>
  BY DEF TypeOK, BuildAttestationList
<1>2. req[h] \in Requests /\ doc[h] \in Docs
  BY <1>a, <1>1 DEF Local, Working
<1>3. Local(h)'
  BY <1>1, <1>2 DEF Local, Working, ImagePhase, Checking, AttPhase, RefPhase
<1>4. OutcomeInv(h)'
  BY <1>a, <1>1, OutcomeKept DEF ImagePhase
<1>5. AttestedInv(h)'
  <2>1. \A o \in Pinned(h)' : ImageOf(h, o)' \in attTodo'[h]
    BY <1>1, PinnedKept
  <2>2. attTodo'[h] = PinnedImages(h)'
    BY <1>1, PinnedKept DEF PinnedImages
  <2> QED
    BY <1>a, <1>1, <2>1, <2>2, SoundKept DEF AttestedInv, Checking, AttPhase, RefPhase
<1>6. ReferrersInv(h)'
  BY <1>a, <1>1 DEF ReferrersInv, Checking, AttPhase, RefPhase
<1> QED
  BY <1>3, <1>4, <1>5, <1>6 DEF HandlerInv

\* VerifyAttestation finds all that is required in the cache, or goes on to Head.
LEMMA AttestationStep ==
    ASSUME TypeOK, CacheSound, NEW h \in Handlers, HandlerInv(h), useCache' = useCache,
           NEW i \in Images, VerifyAttestation(h, i)
    PROVE  HandlerInv(h)'
<1>a. Local(h) /\ OutcomeInv(h) /\ AttestedInv(h) /\ ReferrersInv(h)
  BY DEF HandlerInv
<1>1. /\ pc[h] = "attestations" /\ i \in attTodo[h] /\ attTodo'[h] = attTodo[h] \ {i}
      /\ UNCHANGED <<req, doc, todo, outcome>>
  BY DEF TypeOK, VerifyAttestation
<1>2. req[h] \in Requests /\ doc[h] \in Docs /\ todo[h] = {}
  BY <1>a, <1>1, InChecking DEF Checking
<1>3. /\ Pinned(h)' = Pinned(h) /\ \A o : ImageOf(h, o)' = ImageOf(h, o)
      /\ PinnedImages(h)' = PinnedImages(h)
  BY <1>1, PinnedKept
<1>4. attTodo[h] \subseteq PinnedImages(h)
  BY <1>a, <1>1 DEF AttestedInv, Checking
<1>5. attTodo'[h] \subseteq PinnedImages(h)' /\ i \in PinnedImages(h)'
  BY <1>1, <1>3, <1>4
<1>6. CASE /\ \A a \in req[h].atts[i] : Hits(AttKey(h, i, a)) # {}
           /\ UNCHANGED pc
           /\ attested'[h] = attested[h] \cup UNION {FromCache(h, i, a) : a \in req[h].atts[i]}
  <2>1. Local(h)'
    BY <1>1, <1>2, <1>6 DEF Local, Working, ImagePhase, Checking, AttPhase, RefPhase
  <2>2. OutcomeInv(h)'
    BY <1>a, <1>1, <1>6, OutcomeKept DEF ImagePhase
  <2>3. req[h].atts[i] \subseteq Atts
    BY <1>2, RequestShape
  <2>4. ASSUME NEW a \in req[h].atts[i], NEW t \in FromCache(h, i, a)
        PROVE  /\ t.image = i /\ t.att = a /\ t.basis.policy = req[h].policy
               /\ t.digest \in Digests /\ AttSound(t.image, t.att, t.digest, t.basis)
    BY <1>2, <2>3, FromCacheSound, SMT
  <2>5. \A t \in attested'[h] :
           /\ t.basis.policy = req[h].policy
           /\ t.digest \in Digests
           /\ AttSound(t.image, t.att, t.digest, t.basis)
    BY <1>a, <1>6, <2>4, SMT DEF AttestedInv
  <2>6. \A a \in req[h].atts[i] : FromCache(h, i, a) # {}
    BY <1>6 DEF FromCache
  <2>7. \A a \in req[h].atts[i] : \E t \in attested'[h] : t.image = i /\ t.att = a
    BY <1>6, <2>4, <2>6, SMT
  <2>8. \A o \in Pinned(h) :
           \/ ImageOf(h, o) \in attTodo'[h]
           \/ \A a \in req[h].atts[ImageOf(h, o)] : Met(h, ImageOf(h, o), a)'
    <3> SUFFICES ASSUME NEW o \in Pinned(h), ImageOf(h, o) \notin attTodo'[h],
                        NEW a \in req[h].atts[ImageOf(h, o)]
                 PROVE  Met(h, ImageOf(h, o), a)'
      OBVIOUS
    <3>1. CASE ImageOf(h, o) = i
      BY <1>3, <2>7, <3>1 DEF Met
    <3>2. CASE ImageOf(h, o) # i
      <4>1. Met(h, ImageOf(h, o), a)
        BY <1>a, <1>1, <3>2 DEF AttestedInv, Checking, AttPhase, RefPhase
      <4> QED
        BY <1>1, <1>3, <1>6, <4>1 DEF Met, Skips
    <3> QED
      BY <3>1, <3>2
  <2>9. AttestedInv(h)'
    BY <1>1, <1>3, <1>6, <1>5, <2>5, <2>8, SoundKept
       DEF AttestedInv, Checking, AttPhase, RefPhase
  <2>10. ReferrersInv(h)'
    <3> SUFFICES ASSUME ~useCache PROVE ReferrersInv(h)'
      BY DEF ReferrersInv
    <3>1. \A a \in req[h].atts[i] : FALSE
      BY <1>6, HitsAre
    <3>2. attested'[h] = attested[h]
      BY <1>6, <3>1
    <3>3. \A t, r : ReferrerAccepted(h, t, r) => ReferrerAccepted(h, t, r)'
      BY <1>1, <3>2, AcceptedStays
    <3> QED
      BY <1>a, <1>1, <1>6, <3>2, <3>3
         DEF ReferrersInv, AtHand, Checking, AttPhase, RefPhase
  <2> QED
    BY <2>1, <2>2, <2>9, <2>10 DEF HandlerInv
<1>7. CASE pc'[h] = "head" /\ cur'[h] = i /\ UNCHANGED attested
  <2>1. Local(h)'
    BY <1>1, <1>2, <1>7 DEF Local, Working, ImagePhase, Checking, AttPhase, RefPhase
  <2>2. OutcomeInv(h)'
    BY <1>a, <1>1, <1>7, OutcomeKept DEF ImagePhase
  <2>3. \A o \in Pinned(h) :
           \/ ImageOf(h, o) \in attTodo'[h]
           \/ ImageOf(h, o) = i
           \/ \A a \in req[h].atts[ImageOf(h, o)] : Met(h, ImageOf(h, o), a)
    BY <1>a, <1>1 DEF AttestedInv, Checking, AttPhase, RefPhase
  <2>4. \A x, a : Met(h, x, a)' <=> Met(h, x, a)
    BY <1>1, <1>7, SoundKept DEF Met
  <2>5. AttestedInv(h)'
    <3>1. \A t \in attested'[h] :
             /\ t.basis.policy = req'[h].policy
             /\ t.digest \in Digests
             /\ AttSound(t.image, t.att, t.digest, t.basis)'
      BY <1>a, <1>1, <1>7, SoundKept DEF AttestedInv
    <3>2. ASSUME NEW o \in Pinned(h)'
          PROVE  \/ ImageOf(h, o)' \in attTodo'[h]
                 \/ ImageOf(h, o)' = cur'[h]
                 \/ \A a \in req'[h].atts[ImageOf(h, o)'] : Met(h, ImageOf(h, o), a)'
      <4>1. o \in Pinned(h) /\ ImageOf(h, o)' = ImageOf(h, o)
        BY <1>3
      <4> QED
        BY <1>1, <1>7, <2>3, <2>4, <4>1
    <3> QED
      BY <1>5, <1>7, <3>1, <3>2 DEF AttestedInv, Checking, AttPhase, RefPhase
  <2>6. \A t, r : ReferrerAccepted(h, t, r) => ReferrerAccepted(h, t, r)'
    BY <1>1, <1>7, AcceptedStays
  <2>7. ReferrersInv(h)'
    BY <1>a, <1>1, <1>7, <2>6 DEF ReferrersInv, AtHand, Checking, AttPhase, RefPhase
  <2> QED
    BY <2>1, <2>2, <2>5, <2>7 DEF HandlerInv
<1> QED
  BY <1>6, <1>7 DEF TypeOK, VerifyAttestation

\* Head finds a referrer for every required type.
LEMMA HeadStep ==
    ASSUME TypeOK, NEW h \in Handlers, HandlerInv(h), useCache' = useCache, Head(h)
    PROVE  HandlerInv(h)'
<1>a. Local(h) /\ OutcomeInv(h) /\ AttestedInv(h) /\ ReferrersInv(h)
  BY DEF HandlerInv
<1> DEFINE d == Resolved(cur[h])
           types == {TypeOf[a] : a \in req[h].atts[cur[h]]}
<1>1. /\ pc[h] = "head" /\ dig'[h] = d
      /\ UNCHANGED <<req, doc, todo, cur, attTodo, attested>>
  BY DEF TypeOK, Head
<1>2. /\ req[h] \in Requests /\ doc[h] \in Docs /\ todo[h] = {}
      /\ cur[h] \in Images /\ cur[h] \notin attTodo[h]
  BY <1>a, <1>1, InChecking DEF Local, Checking, AttPhase
<1>3. d \in Manifests /\ Names(cur[h], d)
  BY <1>2, ResolvedNames
<1>4. CASE Failed(h)
  <2>1. pc'[h] = "failed"
    BY <1>4 DEF TypeOK, Failed
  <2> QED
    BY <1>1, <2>1, FailedStep
<1>5. CASE ~Failed(h)
  <2>1. /\ EachHasReferrer(types, d) /\ pc'[h] = "referrers" /\ UNCHANGED outcome
        /\ refTodo'[h] = {r \in ReferrersOf[d] : TypeOf[r] \in types}
    BY <1>5, SMT DEF TypeOK, Head
  <2> HIDE DEF d
  <2>2. Matching(h)' = refTodo'[h] /\ Pending(h)' = refTodo'[h]
    BY <1>1, <2>1 DEF Matching, Pending
  <2>3. \A a \in req[h].atts[cur[h]] : \E r \in refTodo'[h] : TypeOf[r] = TypeOf[a]
    BY <2>1, SMT DEF EachHasReferrer
  <2> HIDE DEF types
  <2>4. Local(h)'
    BY <1>1, <1>2, <1>3, <2>1, <2>2
       DEF Local, Working, ImagePhase, Checking, AttPhase, RefPhase, Names, Tags
  <2>5. OutcomeInv(h)'
    BY <1>a, <1>1, <2>1, OutcomeKept DEF ImagePhase
  <2>6. /\ Pinned(h)' = Pinned(h) /\ \A o : ImageOf(h, o)' = ImageOf(h, o)
        /\ PinnedImages(h)' = PinnedImages(h)
    BY <1>1, <2>1, PinnedKept
  <2>7. \A x, a : Met(h, x, a)' <=> Met(h, x, a)
    BY <1>1, SoundKept DEF Met
  <2>8. attTodo'[h] \subseteq PinnedImages(h)' /\ cur'[h] \in PinnedImages(h)'
    BY <1>a, <1>1, <2>6 DEF AttestedInv, Checking, AttPhase
  <2>9. AttestedInv(h)'
    <3>1. \A t \in attested'[h] :
             /\ t.basis.policy = req'[h].policy
             /\ t.digest \in Digests
             /\ AttSound(t.image, t.att, t.digest, t.basis)'
      BY <1>a, <1>1, SoundKept DEF AttestedInv
    <3>2. ASSUME NEW o \in Pinned(h)'
          PROVE  \/ ImageOf(h, o)' \in attTodo'[h]
                 \/ ImageOf(h, o)' = cur'[h]
                 \/ \A a \in req'[h].atts[ImageOf(h, o)'] : Met(h, ImageOf(h, o), a)'
      <4>1. o \in Pinned(h) /\ ImageOf(h, o)' = ImageOf(h, o)
        BY <2>6
      <4>2. \/ ImageOf(h, o) \in attTodo[h]
            \/ ImageOf(h, o) = cur[h]
            \/ \A a \in req[h].atts[ImageOf(h, o)] : Met(h, ImageOf(h, o), a)
        BY <1>a, <1>1, <4>1 DEF AttestedInv, Checking, AttPhase
      <4> QED
        BY <1>1, <2>7, <4>1, <4>2
    <3>3. \A a \in req'[h].atts[cur'[h]] : \E r \in Pending(h)' : TypeOf[r] = TypeOf[a]
      BY <1>1, <2>2, <2>3
    <3> QED
      BY <2>1, <2>8, <3>1, <3>2, <3>3 DEF AttestedInv, Checking, AttPhase, RefPhase
  <2>10. \A t, r : ReferrerAccepted(h, t, r) => ReferrerAccepted(h, t, r)'
    BY <1>1, AcceptedStays
  <2>11. ReferrersInv(h)'
    BY <1>a, <1>1, <2>1, <2>2, <2>10 DEF ReferrersInv, AtHand, Checking, AttPhase, RefPhase
  <2> QED
    BY <2>4, <2>5, <2>9, <2>11 DEF HandlerInv
<1> QED
  BY <1>4, <1>5

\* What stays the same as long as the referrers of one manifest are checked.
LEMMA SameManifestAtHand ==
    ASSUME NEW h \in Handlers, UNCHANGED <<req, cur, dig>>
    PROVE  /\ Matching(h)' = Matching(h)
           /\ \A r : Required(h, r)' = Required(h, r)
           /\ \A r : ForReferrer(h, r)' = ForReferrer(h, r)
<1>1. \A r : Required(h, r)' = Required(h, r)
  BY DEF Required
<1> QED
  BY <1>1 DEF Matching, ForReferrer

\* What is known while the referrers of a manifest are checked.
LEMMA InRefPhase ==
    ASSUME NEW h \in Handlers, Local(h), pc[h] \in RefPhase
    PROVE  /\ req[h] \in Requests /\ doc[h] \in Docs /\ todo[h] = {}
           /\ pc[h] \in Checking /\ pc[h] \in AttPhase /\ pc[h] # "head"
           /\ cur[h] \in Images /\ cur[h] \notin attTodo[h]
           /\ dig[h] \in Manifests /\ Names(cur[h], dig[h])
           /\ Pending(h) \subseteq Matching(h)
<1>1. pc[h] \in Checking /\ pc[h] \in AttPhase /\ pc[h] # "head"
  BY DEF Checking, AttPhase, RefPhase
<1> QED
  BY <1>1, InChecking DEF Local

\* Steps from one referrer to the next: Local, OutcomeInv and AttestedInv hold
\* when every requirement is met or still has a referrer to come, ReferrersInv when
\* every other referrer is accepted.
LEMMA ReferrerStep ==
    ASSUME NEW h \in Handlers, HandlerInv(h), useCache' = useCache,
           pc[h] \in RefPhase, pc'[h] \in RefPhase,
           UNCHANGED <<req, doc, todo, cur, dig, outcome, attTodo>>,
           attested[h] \subseteq attested'[h],
           Pending(h)' \subseteq Pending(h),
           pc'[h] = "addAttestation" =>
              /\ seen'[h] \in Stores
              /\ ref'[h] \in Meets[Required(h, ref'[h])]
              /\ Verdict[<<doc[h], seen'[h], cur[h], ref'[h]>>] = "accept",
           \A t \in attested'[h] \ attested[h] :
              /\ t.basis.policy = req[h].policy
              /\ t.digest \in Digests
              /\ AttSound(t.image, t.att, t.digest, t.basis)
              /\ ~useCache => /\ t.image = cur[h] /\ t.digest = dig[h]
                              /\ t.att \in req[h].atts[cur[h]],
           \A r \in Pending(h) \ Pending(h)' :
              /\ \A a \in req[h].atts[cur[h]] : TypeOf[a] = TypeOf[r] => Met(h, cur[h], a)'
              /\ ~useCache => ReferrerAccepted(h, ForReferrer(h, r), r)'
    PROVE  HandlerInv(h)'
<1>a. Local(h) /\ OutcomeInv(h) /\ AttestedInv(h) /\ ReferrersInv(h)
  BY DEF HandlerInv
<1>1. /\ req[h] \in Requests /\ doc[h] \in Docs /\ todo[h] = {}
      /\ pc[h] \in Checking /\ pc[h] \in AttPhase
      /\ cur[h] \in Images /\ cur[h] \notin attTodo[h]
      /\ dig[h] \in Manifests /\ Names(cur[h], dig[h])
      /\ Pending(h) \subseteq Matching(h)
  BY <1>a, InRefPhase
<1>2. /\ pc'[h] \in Checking /\ pc'[h] \in AttPhase /\ Working(h)'
      /\ pc'[h] # "head" /\ pc'[h] # "verified" /\ pc'[h] \notin {"review", "decode"}
      /\ pc'[h] \notin ImagePhase /\ pc'[h] \notin {"verifyImage", "addImage"}
      /\ pc'[h] \notin {"idle", "failed"} /\ pc[h] \notin {"idle", "failed"}
      /\ pc[h] \notin ImagePhase
  BY DEF Checking, AttPhase, RefPhase, ImagePhase, Working
<1>3. /\ Matching(h)' = Matching(h)
      /\ \A r : Required(h, r)' = Required(h, r)
      /\ \A r : ForReferrer(h, r)' = ForReferrer(h, r)
  BY SameManifestAtHand
<1>4. Local(h)'
  BY <1>1, <1>2, <1>3 DEF Local, Names, Tags
<1>5. OutcomeInv(h)'
  BY <1>a, <1>2, OutcomeKept
<1>6. /\ Pinned(h)' = Pinned(h) /\ \A o : ImageOf(h, o)' = ImageOf(h, o)
      /\ PinnedImages(h)' = PinnedImages(h)
  BY PinnedKept
<1>7. \A x, a : Met(h, x, a) => Met(h, x, a)'
  BY SoundKept DEF Met
<1>8. AttestedInv(h)'
  <2>1. \A t \in attested'[h] :
           /\ t.basis.policy = req[h].policy
           /\ t.digest \in Digests
           /\ AttSound(t.image, t.att, t.digest, t.basis)
    BY <1>a DEF AttestedInv
  <2>2. \A o \in Pinned(h) :
           \/ ImageOf(h, o) \in attTodo[h]
           \/ ImageOf(h, o) = cur[h]
           \/ \A a \in req[h].atts[ImageOf(h, o)] : Met(h, ImageOf(h, o), a)'
    BY <1>a, <1>1, <1>6, <1>7 DEF AttestedInv
  <2>3. ASSUME NEW a \in req[h].atts[cur[h]]
        PROVE  Met(h, cur[h], a)' \/ \E r \in Pending(h)' : TypeOf[r] = TypeOf[a]
    <3>1. CASE Met(h, cur[h], a)
      BY <1>7, <3>1
    <3>2. ASSUME NEW r \in Pending(h), TypeOf[r] = TypeOf[a]
          PROVE  Met(h, cur[h], a)' \/ \E x \in Pending(h)' : TypeOf[x] = TypeOf[a]
      BY <3>2
    <3> QED
      BY <1>a, <3>1, <3>2 DEF AttestedInv
  <2>4. \A t \in attested'[h] :
           /\ t.basis.policy = req'[h].policy
           /\ t.digest \in Digests
           /\ AttSound(t.image, t.att, t.digest, t.basis)'
    BY <2>1, SoundKept
  <2>5. ASSUME NEW o \in Pinned(h)'
        PROVE  \/ ImageOf(h, o)' \in attTodo'[h]
               \/ ImageOf(h, o)' = cur'[h]
               \/ \A a \in req'[h].atts[ImageOf(h, o)'] : Met(h, ImageOf(h, o), a)'
    <3>1. o \in Pinned(h) /\ ImageOf(h, o)' = ImageOf(h, o)
      BY <1>6
    <3>2. CASE ImageOf(h, o) \in attTodo[h] \/ ImageOf(h, o) = cur[h]
      BY <3>1, <3>2
    <3>3. CASE \A a \in req[h].atts[ImageOf(h, o)] : Met(h, ImageOf(h, o), a)'
      BY <3>1, <3>3
    <3> QED
      BY <2>2, <3>1, <3>2, <3>3
  <2>6. attTodo'[h] \subseteq PinnedImages(h)' /\ cur'[h] \in PinnedImages(h)'
    BY <1>a, <1>1, <1>6 DEF AttestedInv
  <2> QED
    BY <1>2, <2>3, <2>4, <2>5, <2>6 DEF AttestedInv
<1>9. ReferrersInv(h)'
  <2> SUFFICES ASSUME ~useCache PROVE ReferrersInv(h)'
    BY DEF ReferrersInv
  <2>1. \A t, r : ReferrerAccepted(h, t, r) => ReferrerAccepted(h, t, r)'
    BY AcceptedStays
  <2>2. ASSUME NEW r \in Matching(h) \ Pending(h)'
        PROVE  ReferrerAccepted(h, ForReferrer(h, r), r)'
    <3>1. CASE r \in Pending(h)
      BY <3>1
    <3>2. CASE r \notin Pending(h)
      <4>1. ReferrerAccepted(h, ForReferrer(h, r), r)
        BY <1>a, <3>2 DEF ReferrersInv
      <4> QED
        BY <1>3, <2>1, <4>1
    <3> QED
      BY <3>1, <3>2
  <2>3. ASSUME NEW t \in attested'[h]
        PROVE  /\ t.image \notin attTodo[h]
               /\ t.image = cur[h] => t.digest = dig[h] /\ t.att \in req[h].atts[cur[h]]
               /\ t.image # cur[h] =>
                    \A r \in ReferrersOf[t.digest] :
                       TypeOf[r] = TypeOf[t.att] => ReferrerAccepted(h, t, r)'
    <3>1. CASE t \in attested[h]
      BY <1>a, <1>1, <2>1, <3>1 DEF ReferrersInv, AtHand
    <3>2. CASE t \notin attested[h]
      BY <1>1, <3>2
    <3> QED
      BY <3>1, <3>2
  <2> QED
    BY <1>2, <1>3, <2>2, <2>3 DEF ReferrersInv, AtHand
<1> QED
  BY <1>4, <1>5, <1>8, <1>9 DEF HandlerInv

\* CheckReferrer: the requirement is met from the cache, or the referrer is at hand.
LEMMA CheckReferrerStep ==
    ASSUME TypeOK, CacheSound, NEW h \in Handlers, HandlerInv(h), useCache' = useCache,
           NEW r \in Digests, CheckReferrer(h, r)
    PROVE  HandlerInv(h)'
<1>1. /\ pc[h] = "referrers" /\ r \in refTodo[h] /\ refTodo'[h] = refTodo[h] \ {r}
      /\ UNCHANGED <<req, doc, todo, cur, dig, outcome, attTodo>>
  BY DEF TypeOK, CheckReferrer, Remaining
<1>2. Pending(h) = refTodo[h]
  BY <1>1 DEF Pending
<1>3. /\ req[h] \in Requests /\ cur[h] \in Images /\ r \in Matching(h)
  BY <1>1, <1>2, InRefPhase DEF HandlerInv, RefPhase
<1> DEFINE a == Required(h, r)
<1>4. a \in Atts /\ \A b \in req[h].atts[cur[h]] : TypeOf[b] = TypeOf[r] => b = a
  BY <1>3, RequiredIs DEF Matching
<1> HIDE DEF a
<1>5. CASE /\ FromCache(h, cur[h], a) # {} /\ UNCHANGED pc
           /\ attested'[h] = attested[h] \cup FromCache(h, cur[h], a)
  <2>1. ASSUME NEW t \in FromCache(h, cur[h], a)
        PROVE  /\ t.image = cur[h] /\ t.att = a /\ t.basis.policy = req[h].policy
               /\ t.digest \in Digests /\ AttSound(t.image, t.att, t.digest, t.basis)
    BY <1>3, <1>4, FromCacheSound, SMT
  <2>2. useCache
    BY <1>5, HitsAre DEF FromCache
  <2>3. Pending(h)' = refTodo[h] \ {r}
    BY <1>1, <1>5 DEF Pending
  <2>4. \E t \in attested'[h] : t.image = cur[h] /\ t.att = a
    BY <1>5, <2>1
  <2>5. \A x \in Pending(h) \ Pending(h)' : x = r
    BY <1>2, <2>3
  <2>6. \A b \in req[h].atts[cur[h]] : TypeOf[b] = TypeOf[r] => Met(h, cur[h], b)'
    BY <1>1, <1>4, <2>4 DEF Met
  <2> QED
    BY <1>1, <1>2, <1>5, <2>1, <2>2, <2>3, <2>5, <2>6, ReferrerStep DEF RefPhase
<1>6. CASE pc'[h] = "verifyReferrer" /\ ref'[h] = r /\ UNCHANGED attested
  <2>1. Pending(h)' = Pending(h)
    BY <1>1, <1>2, <1>6 DEF Pending
  <2> QED
    BY <1>1, <1>6, <2>1, ReferrerStep DEF RefPhase
<1> QED
  BY <1>5, <1>6 DEF TypeOK, CheckReferrer, a

\* VerifyReferrer: the referrer is skipped, or accepted and to be added.
LEMMA VerifyReferrerStep ==
    ASSUME TypeOK, NEW h \in Handlers, HandlerInv(h), useCache' = useCache,
           VerifyReferrer(h)
    PROVE  HandlerInv(h)'
<1>1. /\ pc[h] = "verifyReferrer"
      /\ UNCHANGED <<req, doc, todo, cur, dig, attTodo, refTodo, ref, attested>>
  BY DEF VerifyReferrer
<1> DEFINE v == Verdict[<<doc[h], store, cur[h], ref[h]>>]
           r == ref[h]
<1>2. CASE Failed(h)
  <2>1. pc'[h] = "failed"
    BY <1>2 DEF TypeOK, Failed
  <2> QED
    BY <1>1, <2>1, FailedStep
<1>3. Pending(h) = refTodo[h] \cup {r}
  BY <1>1 DEF Pending
<1>4. CASE v = "skip" /\ pc'[h] = "referrers" /\ UNCHANGED outcome
  <2>1. r \in Matching(h) /\ dig[h] \in Manifests
    BY <1>1, <1>3, InRefPhase DEF HandlerInv, RefPhase
  <2>2. r \in Digests /\ store \in Stores
    BY <2>1, VerdictAssumption DEF Matching, TypeOK
  <2>3. Pending(h)' = refTodo[h]
    BY <1>1, <1>4 DEF Pending
  <2>4. Skips(doc[h], cur[h]) /\ \A a : Met(h, cur[h], a)'
    BY <1>1, <1>4, <2>2, SoundKept DEF Met, Skips
  <2>5. useCache
    <3>1. /\ Local(h) /\ OutcomeInv(h) /\ pc[h] \in Checking
          /\ \E o \in Pinned(h) : ImageOf(h, o) = cur[h]
      BY <1>1 DEF HandlerInv, AttestedInv, PinnedImages, Checking, AttPhase, RefPhase
    <3>2. ~useCache => \A o \in Pinned(h) : o.basis.doc = doc[h]
      BY <1>1, <3>1 DEF OutcomeInv, Pinned
    <3> QED
      BY <2>4, <3>1, <3>2, PinnedNotSkipped
  <2> HIDE DEF r, v
  <2> QED
    BY <1>1, <1>3, <1>4, <2>3, <2>4, <2>5, ReferrerStep DEF RefPhase
<1>5. CASE /\ v = "accept" /\ ref[h] \in Meets[Required(h, ref[h])]
           /\ pc'[h] = "addAttestation" /\ seen'[h] = store /\ UNCHANGED outcome
  <2>1. Pending(h)' = Pending(h)
    BY <1>1, <1>5 DEF Pending
  <2>2. store \in Stores
    BY DEF TypeOK
  <2> QED
    BY <1>1, <1>5, <2>1, <2>2, ReferrerStep DEF RefPhase
<1> QED
  BY <1>2, <1>4, <1>5 DEF TypeOK, VerifyReferrer, NotationVerify

\* AddAttestation: the requirement of the referrer is met.
LEMMA AddAttestationStep ==
    ASSUME TypeOK, NEW h \in Handlers, HandlerInv(h), useCache' = useCache,
           AddAttestation(h)
    PROVE  HandlerInv(h)'
<1> DEFINE r == ref[h]
           a == Required(h, r)
           b == Basis(req[h].policy, doc[h], seen[h])
           t == Attested(cur[h], a, dig[h], b)
<1>1. /\ pc[h] = "addAttestation" /\ pc'[h] = "referrers"
      /\ attested'[h] = attested[h] \cup {t}
      /\ UNCHANGED <<req, doc, todo, cur, dig, outcome, attTodo, refTodo>>
  BY DEF TypeOK, AddAttestation
<1>2. Pending(h) = refTodo[h] \cup {r} /\ Pending(h)' = refTodo[h]
  BY <1>1 DEF Pending
<1>3. /\ req[h] \in Requests /\ cur[h] \in Images /\ r \in Matching(h)
      /\ dig[h] \in Manifests /\ Names(cur[h], dig[h])
  BY <1>1, <1>2, InRefPhase DEF HandlerInv, RefPhase
<1>4. r \in Meets[a] /\ Verdict[<<doc[h], seen[h], cur[h], r>>] = "accept"
  BY <1>1 DEF HandlerInv, Local
<1>5. /\ a \in req[h].atts[cur[h]] /\ TypeOf[a] = TypeOf[r]
      /\ \A x \in req[h].atts[cur[h]] : TypeOf[x] = TypeOf[r] => x = a
      /\ r \in ReferrersOf[dig[h]]
  BY <1>3, RequiredIs DEF Matching
<1>6. VerdictOf(b, cur[h], r) = "accept"
  BY <1>4, VerdictOnBasis, SMT
<1>7. b.policy = req[h].policy
  BY DEF Basis
<1>8. dig[h] \in Digests
  BY <1>3, VerdictAssumption
<1>9. t.image = cur[h] /\ t.att = a /\ t.digest = dig[h] /\ t.basis = b
  BY DEF Attested
<1>10. ForReferrer(h, r) = [image |-> cur[h], att |-> a, digest |-> dig[h]]
  BY DEF ForReferrer
<1> HIDE DEF a, b, t
<1>11. \A x \in req[h].atts[cur[h]] : TypeOf[x] = TypeOf[r] => Met(h, cur[h], x)'
  BY <1>1, <1>5, <1>9 DEF Met
<1> HIDE DEF r
<1>12. \A x \in Pending(h) \ Pending(h)' : x = r
  BY <1>2
<1>13. \A f, x : x = r /\ f = ForReferrer(h, r) => ReferrerAccepted(h, f, x)'
  <2> SUFFICES ASSUME NEW f, NEW x, x = r, f = ForReferrer(h, r)
               PROVE  ReferrerAccepted(h, f, x)'
    OBVIOUS
  <2>1. f.image = cur[h] /\ f.att = a /\ f.digest = dig[h]
    BY <1>10, SMT
  <2>2. x \in Meets[f.att] /\ VerdictOf(t.basis, f.image, x) = "accept"
    BY <1>4, <1>6, <1>9, <2>1
  <2> QED
    BY <1>1, <1>9, <2>1, <2>2 DEF ReferrerAccepted, VerdictOf
<1>14. \A x : ForReferrer(h, x)' = ForReferrer(h, x)
  BY <1>1, SameManifestAtHand
<1>15. \A x \in Pending(h) \ Pending(h)' : ReferrerAccepted(h, ForReferrer(h, x), x)'
  BY <1>12, <1>13, <1>14
<1>16. AttSound(t.image, t.att, t.digest, t.basis)
  BY <1>3, <1>4, <1>5, <1>6, <1>9 DEF AttSound
<1> QED
  BY <1>1, <1>2, <1>5, <1>7, <1>8, <1>9, <1>11, <1>12, <1>15, <1>16, ReferrerStep
     DEF RefPhase

\* AttestationDone: no referrer is left, so that all requirements are met and all
\* referrers of their types accepted.
LEMMA AttestationDoneStep ==
    ASSUME TypeOK, NEW h \in Handlers, HandlerInv(h), useCache' = useCache,
           AttestationDone(h)
    PROVE  HandlerInv(h)'
<1>a. Local(h) /\ OutcomeInv(h) /\ AttestedInv(h) /\ ReferrersInv(h)
  BY DEF HandlerInv
<1>1. /\ pc[h] = "referrers" /\ refTodo[h] = {} /\ pc'[h] = "attestations"
      /\ UNCHANGED <<req, doc, todo, cur, dig, outcome, attTodo, attested>>
  BY DEF TypeOK, AttestationDone
<1>2. Pending(h) = {}
  BY <1>1 DEF Pending
<1>3. /\ req[h] \in Requests /\ doc[h] \in Docs /\ todo[h] = {} /\ cur[h] \in Images
  BY <1>a, <1>1, InRefPhase DEF RefPhase
<1>4. Local(h)'
  BY <1>1, <1>3 DEF Local, Working, ImagePhase, Checking, AttPhase, RefPhase
<1>5. OutcomeInv(h)'
  BY <1>a, <1>1, OutcomeKept DEF ImagePhase
<1>6. /\ Pinned(h)' = Pinned(h) /\ \A o : ImageOf(h, o)' = ImageOf(h, o)
      /\ PinnedImages(h)' = PinnedImages(h)
  BY <1>1, PinnedKept
<1>7. \A x, a : Met(h, x, a)' <=> Met(h, x, a)
  BY <1>1, SoundKept DEF Met
<1>8. AttestedInv(h)'
  <2>1. \A a \in req[h].atts[cur[h]] : Met(h, cur[h], a)
    BY <1>a, <1>1, <1>2 DEF AttestedInv, RefPhase
  <2>2. \A o \in Pinned(h) :
           \/ ImageOf(h, o) \in attTodo[h]
           \/ \A a \in req[h].atts[ImageOf(h, o)] : Met(h, ImageOf(h, o), a)
    BY <1>a, <1>1, <2>1 DEF AttestedInv, Checking, AttPhase, RefPhase
  <2>3. \A o \in Pinned(h)' :
           \/ ImageOf(h, o)' \in attTodo'[h]
           \/ \A a \in req'[h].atts[ImageOf(h, o)'] : Met(h, ImageOf(h, o), a)'
    BY <1>1, <1>6, <1>7, <2>2
  <2>4. \A t \in attested'[h] :
           /\ t.basis.policy = req'[h].policy
           /\ t.digest \in Digests
           /\ AttSound(t.image, t.att, t.digest, t.basis)'
    BY <1>a, <1>1, SoundKept DEF AttestedInv
  <2>5. pc'[h] \notin RefPhase /\ pc'[h] \notin AttPhase
    BY <1>1 DEF AttPhase, RefPhase
  <2>6. attTodo'[h] \subseteq PinnedImages(h)'
    BY <1>a, <1>1, <1>6 DEF AttestedInv, Checking, AttPhase, RefPhase
  <2> QED
    BY <2>3, <2>4, <2>5, <2>6 DEF AttestedInv
<1>9. ReferrersInv(h)'
  <2> SUFFICES ASSUME ~useCache PROVE ReferrersInv(h)'
    BY DEF ReferrersInv
  <2>1. \A t, r : ReferrerAccepted(h, t, r) => ReferrerAccepted(h, t, r)'
    BY <1>1, AcceptedStays
  <2>2. ASSUME NEW t \in attested[h], t.image = cur[h], NEW r \in ReferrersOf[t.digest],
               TypeOf[r] = TypeOf[t.att]
        PROVE  ReferrerAccepted(h, t, r)
    <3>1. AtHand(h, t) /\ pc[h] \in Checking
      BY <1>1, <2>2 DEF AtHand, Checking, AttPhase, RefPhase
    <3>2. t.digest = dig[h] /\ t.att \in req[h].atts[cur[h]]
      BY <1>a, <2>2, <3>1 DEF ReferrersInv
    <3>3. r \in Matching(h)
      BY <2>2, <3>2 DEF Matching
    <3>4. ReferrerAccepted(h, ForReferrer(h, r), r)
      BY <1>a, <1>1, <1>2, <3>3 DEF ReferrersInv, RefPhase
    <3>5. Required(h, r) = t.att
      BY <1>3, <2>2, <3>2, <3>3, RequiredIs, SMT DEF Matching
    <3> DEFINE f == ForReferrer(h, r)
    <3>6. f.image = t.image /\ f.att = t.att /\ f.digest = t.digest
      BY <2>2, <3>2, <3>5 DEF ForReferrer
    <3> HIDE DEF f
    <3>7. ReferrerAccepted(h, f, r)
      BY <3>4 DEF f
    <3> QED
      BY <3>6, <3>7 DEF ReferrerAccepted
  <2>3. \A t \in attested[h] :
           /\ t.image \notin attTodo[h]
           /\ \A r \in ReferrersOf[t.digest] :
                 TypeOf[r] = TypeOf[t.att] => ReferrerAccepted(h, t, r)
    BY <1>a, <1>1, <2>2 DEF ReferrersInv, AtHand, Checking, AttPhase, RefPhase
  <2> QED
    BY <1>1, <2>1, <2>3 DEF ReferrersInv, AtHand, Checking, AttPhase, RefPhase
<1> QED
  BY <1>4, <1>5, <1>8, <1>9 DEF HandlerInv

\* VerificationSucceeded: no image is left.
LEMMA SucceededStep ==
    ASSUME TypeOK, NEW h \in Handlers, HandlerInv(h), useCache' = useCache,
           VerificationSucceeded(h)
    PROVE  HandlerInv(h)'
<1>a. Local(h) /\ OutcomeInv(h) /\ AttestedInv(h) /\ ReferrersInv(h)
  BY DEF HandlerInv
<1>1. /\ pc[h] = "attestations" /\ attTodo[h] = {} /\ pc'[h] = "verified"
      /\ UNCHANGED <<req, doc, todo, outcome, attTodo, attested>>
  BY DEF TypeOK, VerificationSucceeded
<1>2. /\ req[h] \in Requests /\ doc[h] \in Docs /\ todo[h] = {}
  BY <1>a, <1>1, InChecking DEF Checking
<1>3. Local(h)'
  BY <1>1, <1>2 DEF Local, Working, ImagePhase, Checking, AttPhase, RefPhase
<1>4. OutcomeInv(h)'
  BY <1>a, <1>1, OutcomeKept DEF ImagePhase
<1>5. /\ Pinned(h)' = Pinned(h) /\ \A o : ImageOf(h, o)' = ImageOf(h, o)
      /\ PinnedImages(h)' = PinnedImages(h)
  BY <1>1, PinnedKept
<1>6. \A x, a : Met(h, x, a)' <=> Met(h, x, a)
  BY <1>1, SoundKept DEF Met
<1>7. AttestedInv(h)'
  <2>1. \A o \in Pinned(h) :
           \A a \in req[h].atts[ImageOf(h, o)] : Met(h, ImageOf(h, o), a)
    BY <1>a, <1>1 DEF AttestedInv, Checking, AttPhase, RefPhase
  <2>2. \A o \in Pinned(h)' :
           \A a \in req'[h].atts[ImageOf(h, o)'] : Met(h, ImageOf(h, o), a)'
    BY <1>1, <1>5, <1>6, <2>1
  <2>3. \A t \in attested'[h] :
           /\ t.basis.policy = req'[h].policy
           /\ t.digest \in Digests
           /\ AttSound(t.image, t.att, t.digest, t.basis)'
    BY <1>a, <1>1, SoundKept DEF AttestedInv
  <2>4. attTodo'[h] \subseteq PinnedImages(h)'
    BY <1>1
  <2> QED
    BY <1>1, <2>2, <2>3, <2>4 DEF AttestedInv, Checking, AttPhase, RefPhase
<1>8. \A t, r : ReferrerAccepted(h, t, r) => ReferrerAccepted(h, t, r)'
  BY <1>1, AcceptedStays
<1>9. ReferrersInv(h)'
  BY <1>a, <1>1, <1>8 DEF ReferrersInv, AtHand, Checking, AttPhase, RefPhase
<1> QED
  BY <1>3, <1>4, <1>7, <1>9 DEF HandlerInv

-----------------------------------------------------------------------------
(* The invariant.                                                          *)

\* Every step keeps what is known of every handler.
LEMMA HandlersStep ==
    ASSUME TypeOK, CacheSound, HandlersInv, [Next]_vars
    PROVE  HandlersInv'
<1>1. useCache' = useCache
  BY UseCacheSame
<1> SUFFICES ASSUME NEW h \in Handlers PROVE HandlerInv(h)'
  BY DEF HandlersInv, HandlerInv
<1>2. HandlerInv(h)
  BY DEF HandlersInv, HandlerInv
<1>3. CASE HandlerStep(h) \/ RequestFails(h) \/ \E r \in Requests : Accept(h, r)
  BY <1>1, <1>2, <1>3, BeginStep, ImageStep, ListStep, AttestationStep, HeadStep,
     CheckReferrerStep, VerifyReferrerStep, AddAttestationStep, AttestationDoneStep,
     SucceededStep DEF HandlerStep
<1>4. ASSUME NEW g \in Handlers, g # h,
             HandlerStep(g) \/ RequestFails(g) \/ \E r \in Requests : Accept(g, r)
      PROVE  HandlerInv(h)'
  BY <1>1, <1>2, <1>4, OthersSame, SameInv
<1>5. CASE UNCHANGED request
  <2>1. SameRequest(h)
    BY <1>5 DEF request, SameRequest
  <2> QED
    BY <1>1, <1>2, <2>1, SameInv
<1>6. \/ \E g \in Handlers :
           HandlerStep(g) \/ RequestFails(g) \/ \E r \in Requests : Accept(g, r)
      \/ UNCHANGED request
  BY Zenon DEF Next, Push, ChangeFiles, Notify, SyncFails, Reload, Receive, LoadPolicy,
     RefreshVerifiers, RefreshFails, ClearCache, ProcessSet, Evict, Wait, vars
<1> QED
  BY <1>3, <1>4, <1>5, <1>6

\* A handler takes its verifier from the map and reads the stores on disk.
LEMMA NotOutdatedStep ==
    ASSUME TypeOK, NEW h \in Handlers, ~Outdated(h), pc[h] = "decode" => req[h] \in Requests,
           HandlerStep(h) \/ RequestFails(h) \/ \E r \in Requests : Accept(h, r)
    PROVE  ~Outdated(h)'
<1> USE DEF Outdated, Busy, TypeOK, others, world, disk, loader
<1>1. ASSUME NEW r \in Requests, Accept(h, r) PROVE ~Outdated(h)'
  BY <1>1 DEF Accept
<1>2. CASE Authenticate(h) \/ Refuse(h) \/ RequestFails(h)
  BY <1>2 DEF Authenticate, Refuse, RequestFails, Failed
<1>3. CASE GetVerifier(h)
  BY <1>3 DEF GetVerifier, Failed
<1>4. CASE Prepare(h) \/ ResolveDigest(h)
  BY <1>4 DEF Prepare, ResolveDigest
<1>5. ASSUME NEW c \in Containers, VerifyImageInfo(h, c) PROVE ~Outdated(h)'
  BY <1>5 DEF VerifyImageInfo
<1>6. CASE VerifyReferences(h)
  BY <1>6 DEF VerifyReferences, Failed
<1>7. CASE AddImage(h) \/ BuildAttestationList(h)
  BY <1>7 DEF AddImage, BuildAttestationList
<1>8. ASSUME NEW i \in Images, VerifyAttestation(h, i) PROVE ~Outdated(h)'
  BY <1>8 DEF VerifyAttestation
<1>9. CASE Head(h)
  BY <1>9 DEF Head, Failed
<1>10. ASSUME NEW r \in Digests, CheckReferrer(h, r) PROVE ~Outdated(h)'
  BY <1>10 DEF CheckReferrer
<1>11. CASE VerifyReferrer(h)
  BY <1>11 DEF VerifyReferrer, Failed
<1>12. CASE AddAttestation(h) \/ AttestationDone(h) \/ VerificationSucceeded(h)
  BY <1>12 DEF AddAttestation, AttestationDone, VerificationSucceeded
<1>13. CASE Respond(h)
  BY <1>13 DEF Respond
<1> QED
  BY <1>1, <1>2, <1>3, <1>4, <1>5, <1>6, <1>7, <1>8, <1>9, <1>10, <1>11, <1>12, <1>13
     DEF HandlerStep

\* Every step but a clearing either keeps Loaded false or changes no trust data.
LEMMA CurrentStep ==
    ASSUME TypeOK, HandlersInv, CurrentInv, [Next]_vars
    PROVE  CurrentInv'
<1> USE DEF world, disk, loader, others
<1>1. CASE \/ ChangeFiles \/ \E k \in changed : Notify(k) \/ SyncFails(k)
  BY <1>1 DEF ChangeFiles, Notify, SyncFails, CurrentInv, Settled, Loaded, NoVerifiers
<1>2. CASE ClearCache
  <2>1. /\ cache' \cup setBuf' = {} /\ UNCHANGED <<disk, verifiers, building, lost>>
        /\ UNCHANGED <<pc, req, doc, seen>>
        /\ reload = "clear" /\ reload' = "idle"
    BY <1>2 DEF ClearCache, request
  <2>2. \A h \in Handlers : Outdated(h)' <=> Outdated(h)
    BY <2>1 DEF Outdated, Busy
  <2>3. ~overlap' => \A h \in Handlers : ~Outdated(h)
    BY <1>2 DEF ClearCache
  <2> QED
    BY <2>1, <2>2, <2>3 DEF CurrentInv, Settled, NoVerifiers
<1>3. CASE Receive
  <2>1. /\ reload = "idle" /\ reload' = "load" /\ UNCHANGED <<files, building>>
        /\ pending' = {p \in Policies : files[p] # None}
    BY <1>3 DEF Receive
  <2>2. \A p \in Policies : building[p] = None
    BY <2>1 DEF CurrentInv, NoVerifiers
  <2> QED
    BY <2>1, <2>2 DEF CurrentInv, Loaded
<1>4. ASSUME NEW p \in Policies, LoadPolicy(p) PROVE CurrentInv'
  <2>1. /\ reload = "load" /\ pending' = pending \ {p} /\ building'[p] = files[p]
        /\ \A q \in Policies : q # p => building'[q] = building[q]
        /\ UNCHANGED <<disk, reload, lost>>
    BY <1>4 DEF TypeOK, LoadPolicy
  <2> QED
    BY <2>1 DEF CurrentInv, Settled, Loaded
<1>5. CASE RefreshVerifiers
  <2>1. /\ reload = "load" /\ pending = {} /\ verifiers' = building /\ reload' = "clear"
        /\ building' = NoVerifiers /\ UNCHANGED <<disk, lost>>
    BY <1>5 DEF RefreshVerifiers
  <2>2. Settled' => verifiers' = files'
    <3>1. Settled' => \A p \in Policies : building[p] = files[p]
      BY <2>1 DEF CurrentInv, Settled
    <3>2. (\A p \in Policies : building[p] = files[p]) => building = files
      BY SMT DEF TypeOK
    <3> QED
      BY <2>1, <3>1, <3>2
  <2> QED
    BY <2>1, <2>2 DEF CurrentInv, Loaded, NoVerifiers
<1>6. CASE RefreshFails
  BY <1>6 DEF RefreshFails, CurrentInv, Loaded, NoVerifiers
<1>7. ASSUME UNCHANGED <<disk, loader>>,
             Loaded /\ ~overlap => \A h \in Handlers : ~Outdated(h)'
      PROVE  CurrentInv'
  <2>1. ASSUME Loaded /\ ~overlap, NEW e \in cache' \cup setBuf' PROVE Current(e)
    <3>1. CASE e \in cache \cup setBuf
      BY <2>1, <3>1 DEF CurrentInv
    <3>2. ASSUME NEW h \in Handlers, Adds(h, e) PROVE Current(e)
      <4>1. PICK x, y : e = Entry(Key(req[h].policy, x, y), dig[h],
                                  Basis(req[h].policy, doc[h], seen[h]))
        BY <3>2 DEF Adds, ImageEntry, AttEntry, ImageKey, AttKey
      <4>2. /\ e.basis.doc = doc[h] /\ e.basis.store = seen[h]
            /\ e.key.policy = req[h].policy
        BY <4>1, SMT DEF Key, Entry, Basis
      <4>3. ~Outdated(h) /\ verifiers = files
        BY <2>1 DEF CurrentInv, Loaded, Settled
      <4>4. pc[h] \in {"addImage", "addAttestation"}
        BY <3>2 DEF Adds
      <4> QED
        BY <4>2, <4>3, <4>4 DEF Outdated, Busy, Current
    <3> QED
      BY <3>1, <3>2, NewEntries
  <2>2. /\ Loaded' <=> Loaded
        /\ Settled' <=> Settled
        /\ \A e : Current(e)' <=> Current(e)
    BY <1>7 DEF Loaded, Settled, Current
  <2> QED
    BY <1>7, <2>1, <2>2 DEF CurrentInv, NoVerifiers
<1>8. CASE UNCHANGED <<disk, loader>> /\ UNCHANGED request
  BY <1>7, <1>8 DEF CurrentInv, Outdated, Busy, request
<1>9. ASSUME NEW g \in Handlers,
             HandlerStep(g) \/ RequestFails(g) \/ \E r \in Requests : Accept(g, r)
      PROVE  CurrentInv'
  <2>1. UNCHANGED world
    BY <1>9, Zenon DEF HandlerStep, RequestFails, Accept, Authenticate, Refuse,
       GetVerifier, Prepare, VerifyImageInfo, ResolveDigest, VerifyReferences, AddImage,
       BuildAttestationList, VerifyAttestation, Head, CheckReferrer, VerifyReferrer,
       AddAttestation, AttestationDone, VerificationSucceeded, Respond
  <2>2. ASSUME NEW h \in Handlers, ~Outdated(h) PROVE ~Outdated(h)'
    <3>1. CASE h = g
      <4>1. pc[g] = "decode" => req[g] \in Requests
        BY DEF HandlersInv, Local
      <4> QED
        BY <1>9, <2>2, <3>1, <4>1, NotOutdatedStep
    <3>2. CASE h # g
      <4>1. SameRequest(h)
        BY <1>9, <3>2, OthersSame
      <4> QED
        BY <2>1, <2>2, <4>1 DEF SameRequest, Outdated, Busy
    <3> QED
      BY <3>1, <3>2
  <2>3. Loaded /\ ~overlap => \A h \in Handlers : ~Outdated(h)'
    BY <2>2 DEF CurrentInv
  <2> QED
    BY <1>7, <2>1, <2>3
<1>10. ASSUME NEW i, NEW d, Push(i, d) PROVE CurrentInv'
  BY <1>8, <1>10 DEF Push
<1>11. ASSUME NEW e, ProcessSet(e) \/ Evict(e) PROVE CurrentInv'
  BY <1>8, <1>11 DEF ProcessSet, Evict
<1>12. CASE UNCHANGED vars
  BY <1>8, <1>12 DEF vars
<1> QED
  BY <1>1, <1>2, <1>3, <1>4, <1>5, <1>6, <1>9, <1>10, <1>11, <1>12 DEF Next, Reload, Wait

\* The invariant holds initially.
LEMMA InvInit == Init => Inv
<1> SUFFICES ASSUME Init PROVE Inv
  OBVIOUS
<1>1. TypeOK
  BY NullsAssumption DEF Init, TypeOK, PCs, NoVerifiers
<1>2. CacheSound
  BY DEF Init, CacheSound
<1>3. HandlersInv
  BY DEF Init, HandlersInv, Local, Working, OutcomeInv, AttestedInv, ReferrersInv,
     ImagePhase, Checking, AttPhase, RefPhase
<1>4. CurrentInv
  BY DEF Init, CurrentInv, Outdated, Busy
<1> QED
  BY <1>1, <1>2, <1>3, <1>4 DEF Inv

\* Every step keeps the invariant.
LEMMA InvStep == Inv /\ [Next]_vars => Inv'
<1> SUFFICES ASSUME Inv, [Next]_vars PROVE Inv'
  OBVIOUS
<1>1. TypeOK /\ CacheSound /\ HandlersInv /\ CurrentInv
  BY DEF Inv
<1>2. TypeOK'
  BY <1>1, TypeStep
<1>3. CacheSound'
  BY <1>1, CacheStep DEF HandlersInv
<1>4. HandlersInv'
  BY <1>1, HandlersStep
<1>5. CurrentInv'
  BY <1>1, CurrentStep
<1> QED
  BY <1>2, <1>3, <1>4, <1>5 DEF Inv

\* Whatever interleaving of requests, pushes, changes and reloads led there, the
\* cache holds only results that were verified, and every request what its point
\* in verifyImagesAndAttestations calls for.
THEOREM CheckInvariant == Spec => []Inv
  BY InvInit, InvStep, PTL DEF Spec

-----------------------------------------------------------------------------
(* What the invariant gives.                                               *)

\* Each variable keeps its type.
THEOREM TypeCorrect == Spec => []TypeOK
<1>1. Inv => TypeOK
  BY DEF Inv
<1> QED
  BY <1>1, CheckInvariant, PTL

\* A 200 response pins exactly the selected containers, each to a digest that
\* notation accepted under the policy of the request.
THEOREM PinnedWasVerifiedHolds == Spec => []PinnedWasVerified
<1>1. Inv => PinnedWasVerified
  <2> SUFFICES ASSUME Inv, NEW h \in Handlers, pc[h] = "verified"
               PROVE  /\ \A o \in outcome[h] :
                           /\ o.basis.policy = req[h].policy
                           /\ IF o.digest = NoDigest
                              THEN \E d \in Manifests :
                                     VerdictOf(o.basis, ImageOf(h, o), d) = "skip"
                              ELSE VerdictOf(o.basis, ImageOf(h, o), o.digest) = "accept"
                      /\ {o.container : o \in outcome[h]} =
                           {c \in DOMAIN req[h].images : req[h].images[c] \in req[h].matched}
    BY DEF PinnedWasVerified
  <2>1. Local(h) /\ OutcomeInv(h)
    BY DEF Inv, HandlersInv
  <2>2. todo[h] = {} /\ pc[h] \notin ImagePhase
    BY <2>1, InChecking DEF Checking
  <2>3. \A o \in outcome[h] :
           /\ o.container \in DOMAIN req[h].images
           /\ req[h].images[o.container] \in req[h].matched
           /\ o.basis.policy = req[h].policy
           /\ ImageSound(ImageOf(h, o), o.digest, o.basis)
    BY <2>1 DEF OutcomeInv, ImageOf
  <2>4. \A c \in DOMAIN req[h].images :
           req[h].images[c] \in req[h].matched => \E o \in outcome[h] : o.container = c
    BY <2>1, <2>2 DEF OutcomeInv
  <2> QED
    BY <2>3, <2>4 DEF ImageSound
<1> QED
  BY <1>1, CheckInvariant, PTL

\* When no change of the trust data is on its way to the main loop and none was
\* dropped, cached results were reached with the policies and stores on disk, unless
\* a request held replaced trust data when the cache was cleared.
THEOREM CacheCurrentHolds == Spec => []CacheCurrent
<1>1. Inv => CacheCurrent
  BY DEF Inv, CurrentInv, CacheCurrent
<1> QED
  BY <1>1, CheckInvariant, PTL

\* A 200 response has every attestation that it needed, except for an image that was
\* pinned under another document when the document of the request skips it.
THEOREM RequiredWasAttestedHolds == Spec => []RequiredWasAttested
<1>1. Inv => RequiredWasAttested
  <2> SUFFICES ASSUME Inv, NEW h \in Handlers, pc[h] = "verified", NEW o \in Pinned(h),
                      NEW a \in req[h].atts[ImageOf(h, o)]
               PROVE  \/ \E t \in attested[h] :
                           /\ t.image = ImageOf(h, o) /\ t.att = a
                           /\ t.basis.policy = req[h].policy
                           /\ \E r \in ReferrersOf[t.digest] \cap Meets[a] :
                                /\ TypeOf[r] = TypeOf[a]
                                /\ VerdictOf(t.basis, t.image, r) = "accept"
                      \/ o.basis.doc # doc[h] /\ Skips(doc[h], ImageOf(h, o))
    BY DEF RequiredWasAttested
  <2>1. Local(h) /\ OutcomeInv(h) /\ AttestedInv(h)
    BY DEF Inv, HandlersInv
  <2>2. attTodo[h] = {}
    BY <2>1 DEF Local
  <2>3. Met(h, ImageOf(h, o), a)
    BY <2>1, <2>2 DEF AttestedInv, Checking, AttPhase, RefPhase
  <2>4. CASE Skips(doc[h], ImageOf(h, o))
    BY <2>1, <2>4, PinnedNotSkipped DEF Inv, Checking
  <2>5. ASSUME NEW t \in attested[h], t.image = ImageOf(h, o), t.att = a
        PROVE  /\ t.basis.policy = req[h].policy
               /\ \E r \in ReferrersOf[t.digest] \cap Meets[a] :
                     TypeOf[r] = TypeOf[a] /\ VerdictOf(t.basis, t.image, r) = "accept"
    BY <2>1, <2>5 DEF AttestedInv, AttSound
  <2> QED
    BY <2>3, <2>4, <2>5 DEF Met
<1> QED
  BY <1>1, CheckInvariant, PTL

\* An image named by digest is pinned to the manifest whose attestations were
\* checked.
THEOREM DigestRefsAttestedHolds == Spec => []DigestRefsAttested
<1>1. Inv => DigestRefsAttested
  <2> SUFFICES ASSUME Inv, NEW h \in Handlers, pc[h] = "verified", NEW o \in Pinned(h),
                      ImageOf(h, o) \notin Tags, NEW t \in attested[h],
                      t.image = ImageOf(h, o)
               PROVE  t.digest = o.digest
    BY DEF DigestRefsAttested, SameManifest
  <2>1. OutcomeInv(h) /\ AttestedInv(h)
    BY DEF Inv, HandlersInv
  <2>2. o \in outcome[h] /\ o.digest # NoDigest
    BY DEF Pinned
  <2>3. Names(ImageOf(h, o), o.digest)
    BY <2>1, <2>2 DEF OutcomeInv, ImageSound
  <2>4. Names(t.image, t.digest)
    BY <2>1 DEF AttestedInv, AttSound
  <2> QED
    BY <2>3, <2>4 DEF Names
<1> QED
  BY <1>1, CheckInvariant, PTL

\* With the cache off, no referrer of a required type is passed over.
THEOREM AllReferrersAcceptedHolds == Spec => []AllReferrersAccepted
<1>1. Inv => AllReferrersAccepted
  BY DEF Inv, HandlersInv, ReferrersInv, AllReferrersAccepted, AtHand, Checking, AttPhase,
     RefPhase
<1> QED
  BY <1>1, CheckInvariant, PTL
=============================================================================
