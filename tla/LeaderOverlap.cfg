SPECIFICATION OverlapSpec
CONSTANTS
    g1 = g1
    g2 = g2
    p = p
    q = q
    Nil = Nil
    Foreign = Foreign
    Gateway <- MCGateway
    NRoutes = 1
    Unmasked = {}
    VpcCIDRs <- OneCIDR
    UserContents <- Edits
    Exclusive = FALSE
    EarlyDelete = FALSE
INVARIANT SettledConfigPointsToLeader
PROPERTY NoLostEdit
PROPERTY ConfigFollowsLeader
