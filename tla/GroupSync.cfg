SPECIFICATION FairSpec
CONSTANTS
    MaxGeneration = 2
    MaxSegments = 3
    MaxDisturbances = 3
INVARIANTS TypeOK ReadyGroupHasItsSegment RecordedSegmentsAreCleanedUp NoGroupStranded IInv
PROPERTY DeletionCompletes
CHECK_DEADLOCK FALSE
