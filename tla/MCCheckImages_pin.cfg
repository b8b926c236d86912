SPECIFICATION Spec
CONSTANTS
    Handlers = {h1, h2}
    Requests <- PinRequests
    Policies = {p, q}
    Docs = {"some", "skip"}
    Stores = {"s1", "s2"}
    Containers <- MCContainers
    Group <- MCGroup
    Images <- MCImages
    Digests <- MCDigests
    Manifests <- MCManifests
    NoDigest = NoDigest
    DigestOf <- MCDigestOf
    Atts <- MCAtts
    TypeOf <- MCTypeOf
    ReferrersOf <- MCReferrersOf
    Meets <- MeetsOne
    Verdict <- MCVerdict
    None = None
    ReviewToken = FALSE
    CacheFlags = {TRUE}
    MaxRequests = 2
    MaxPushes = 1
    MaxChanges = 1
SYMMETRY Symmetry
INVARIANTS TypeOK PinnedWasVerified CacheCurrent
