SPECIFICATION SysFairSpec
CONSTANTS
    g1 = g1
    g2 = g2
    p = p
    q = q
    n1 = n1
    n2 = n2
    x = x
    Nil = Nil
    Foreign = Foreign
    Gateway <- MCGateway
    NRoutes = 2
    Unmasked = {}
    VpcCIDRs <- TwoCIDRs
    UserContents <- NoDamage
    Exclusive = TRUE
    EarlyDelete = FALSE
    Node <- MCNode
    Demands <- Changing
INVARIANT SysTypeOK
INVARIANT RoutesBelongToLeader
PROPERTY TrafficResumes
PROPERTY TrafficKeepsFlowing
