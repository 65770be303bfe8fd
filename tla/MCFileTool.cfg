\* All five operations on one and on two file systems; one system call fails.
CONSTANTS
    Names <- MCNames
    Kids <- MCKids
    SourceTrees <- MCSourceTrees
    TargetTrees <- MCTargetTrees
    Elsewhere <- MCElsewhere
    MaxFaults = 1

SPECIFICATION FairSpec

INVARIANTS
    TypeOK
    MoveKeepsData
    CompletesFaithfully
    StopUndoes
    TargetsNeedConsent

PROPERTIES
    Ends

CHECK_DEADLOCK FALSE
