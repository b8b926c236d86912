SPECIFICATION FairSpec
CONSTANTS
    Handlers = {h1, h2}
    Requests <- TagAttRequests
    Policies = {p}
    Docs = {"some"}
    Stores = {"s1", "s2"}
    Containers <- MCContainers
    Group <- MCGroup
    Images <- MCImages
    Digests <- MCDigests
    Manifests <- MCManifests
    NoDigest = NoDigest
    DigestOf <- MCDigestOf
    Atts <- MCAtts
    TypeOf <- MCTypeOf
    ReferrersOf <- MCReferrersOf
    Meets <- MeetsAll
    Verdict <- MCVerdict
    None = None
    ReviewToken = FALSE
    CacheFlags = {TRUE, FALSE}
    MaxRequests = 2
    MaxPushes = 0
    MaxChanges = 1
INVARIANT AllReferrersAccepted
PROPERTY EveryRequestAnswered
