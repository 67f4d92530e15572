SPECIFICATION FairSpec
CONSTANTS
    a = a
    b = b
    x = x
    y = y
    c = c
    d = d
    Nil = Nil
    IP <- MCIP
    CIDR <- MCCIDR
    Node <- MCNode
    Objects <- SmallObjects
    ShareIP = TRUE
PROPERTY NodesConverge
PROPERTY SharedAddressRepaired
