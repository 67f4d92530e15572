SPECIFICATION Spec
CONSTANTS
    a = a
    b = b
    x = x
    y = y
    c = c
    d = d
    Nil = Nil
    IP <- MCIP
    CIDR <- MCCIDR
    Node <- MCNode
    Objects <- WideObjects
    ShareIP = FALSE
INVARIANT TypeOK
INVARIANT CountedNodesResolve
INVARIANT SettledNodesProgrammed
PROPERTY ServiceIsKept
