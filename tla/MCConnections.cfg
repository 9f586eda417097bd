SPECIFICATION FairSpec
CONSTANTS
    s1 = s1
    s2 = s2
    s3 = s3
    Slots = {s1, s2, s3}
    MaxConnections = 1
    BodyCap = 1
    LingerMax = 2
    ReadAhead = 1
    MaxUpload = 5
    MaxBacklog = 2
INVARIANTS SetBounded ReadsBounded
PROPERTIES RefusalNotReset PhasesEnd ShutdownEnds
CHECK_DEADLOCK FALSE
