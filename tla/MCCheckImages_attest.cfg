SPECIFICATION Spec
CONSTANTS
    Handlers = {h1, h2}
    Requests <- AllRequests
    Policies = {p}
    Docs = {"all", "scoped"}
    Stores = {"s1"}
    Containers <- MCContainers
    Group <- MCGroup
    Images <- MCImages
    Digests <- MCDigests
    Manifests <- BareManifests
    NoDigest = NoDigest
    DigestOf <- MCDigestOf
    Atts <- MCAtts
    TypeOf <- MCTypeOf
    ReferrersOf <- MCReferrersOf
    Meets <- MeetsOne
    Verdict <- MCVerdict
    None = None
    ReviewToken = TRUE
    CacheFlags = {TRUE, FALSE}
    MaxRequests = 2
    MaxPushes = 1
    MaxChanges = 0
INVARIANTS  DigestRefsAttested AllReferrersAccepted
