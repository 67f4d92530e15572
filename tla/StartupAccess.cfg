SPECIFICATION Spec
CONSTANTS
    Conf <- MCConf
    IP <- MCIP
    Region <- MCRegion
    Interfaces <- MCInterfaces
    Readable <- MCReadable
    Writable <- ReadOnly
INVARIANT ReadyMayModify
