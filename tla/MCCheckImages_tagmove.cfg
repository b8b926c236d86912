SPECIFICATION Spec
CONSTANTS
    Handlers = {h1, h2}
    Requests <- TagAttRequests
    Policies = {p}
    Docs = {"all"}
    Stores = {"s1"}
    Containers <- MCContainers
    Group <- MCGroup
    Images <- MCImages
    Digests <- MCDigests
    Manifests <- MCManifests
    NoDigest = NoDigest
    DigestOf <- MCDigestOf
    Atts <- MCAtts
    TypeOf <- MCTypeOf
    ReferrersOf <- MCReferrersOf
    Meets <- MeetsAll
    Verdict <- MCVerdict
    None = None
    ReviewToken = FALSE
    CacheFlags = {TRUE}
    MaxRequests = 1
    MaxPushes = 1
    MaxChanges = 0
INVARIANT PinnedIsAttested
