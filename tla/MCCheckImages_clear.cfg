SPECIFICATION Spec
CONSTANTS
    Handlers = {h1, h2}
    Requests <- PinRequests
    Policies = {p}
    Docs = {"all", "some"}
    Stores = {"s1"}
    Containers <- MCContainers
    Group <- MCGroup
    Images <- MCImages
    Digests <- MCDigests
    Manifests <- MCManifests
    NoDigest = NoDigest
    DigestOf <- MCDigestOf
    Atts <- MCAtts
    TypeOf <- MCTypeOf
    ReferrersOf <- MCReferrersOf
    Meets <- MeetsAll
    Verdict <- MCVerdict
    None = None
    ReviewToken = FALSE
    CacheFlags = {TRUE}
    MaxRequests = 1
    MaxPushes = 0
    MaxChanges = 1
INVARIANT ClearedOnChange
