SPECIFICATION FairSpec
CONSTANTS
    Conf <- MCConf
    IP <- MCIP
    Region <- MCRegion
    Interfaces <- MCInterfaces
    Readable <- MCReadable
    Writable <- MCReadable
INVARIANT TypeOK
INVARIANT ReadyLinkIsWhole
INVARIANT ReadyHasAccess
INVARIANT StartableIsNotRefused
PROPERTY GatewayStarts
PROPERTY StartsClean
