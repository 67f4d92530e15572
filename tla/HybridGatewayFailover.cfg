SPECIFICATION SysFairSpec
CONSTANTS
    g1 = g1
    g2 = g2
    p = p
    q = q
    n1 = n1
    n2 = n2
    x = x
    Nil = Nil
    Foreign = Foreign
    Gateway <- MCGateway
    NRoutes = 1
    Unmasked = {}
    VpcCIDRs <- OneCIDR
    UserContents <- NoDamage
    Exclusive = TRUE
    EarlyDelete = FALSE
    Node <- MCNode
    Demands <- Fixed
PROPERTY ReadyOnFailover
