SPECIFICATION LiveSpec
CONSTANTS
    g1 = g1
    g2 = g2
    p = p
    q = q
    Nil = Nil
    Foreign = Foreign
    Gateway <- MCGateway
    NRoutes = 1
    Unmasked = {1}
    VpcCIDRs <- OneCIDR
    UserContents <- NoDamage
    Exclusive = TRUE
    EarlyDelete = FALSE
PROPERTY FailoverCompletes
