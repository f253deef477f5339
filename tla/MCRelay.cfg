SPECIFICATION FairSpec
CONSTANTS
    MaxTLSRecord = 3
    MaxStream = 9
    MaxReply = 1
CHECK_DEADLOCK FALSE
INVARIANTS
    TypeOK
    InOrder
    WholeRecord
    IdleTunnelStays
PROPERTIES
    FirstReadEnds
    BothEnd
