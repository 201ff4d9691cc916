SPECIFICATION Spec
CONSTANTS
    o1 = o1
    o2 = o2
    o3 = o3
    d1 = d1
    d2 = d2
    NoDigest = NoDigest
    Ops = {o1, o2, o3}
    Digests = {d1, d2}
    Content <- MCContent
    Length <- MCLength
    Limit = 5
    MaxHolds = 2
    MaxReviewed = 2
INVARIANTS
    CapacityIsBounded
    SettledArtifactIsReadable
    ContentIsOwned
