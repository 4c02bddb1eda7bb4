SPECIFICATION FairSpec
CONSTANTS
    r1 = r1
    r2 = r2
    c1 = c1
    c2 = c2
    Regs = {r1, r2}
    Clusters = {c1, c2}
    MaxHandlers = 2
    None = None
    Bundles <- MixedBundles
    Established = {r1}
    Referenced = {r1}
    MaxAddress = 2
    MaxAttempts = 2
    MaxApplies = 2
    MaxDisturbances = 1
INVARIANTS
    IdentityIsAuthorized
    LivePeersDistinct
PROPERTIES
    GatewayConverges
    RemovalEnds
CHECK_DEADLOCK FALSE
