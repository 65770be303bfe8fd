CONSTANTS
    Names <- MCNames
    Kids <- MCKids
    SourceTrees <- MCSourceTrees
    TargetTrees <- MCTargetTrees
    Elsewhere <- MCElsewhere
    MaxFaults = 1

SPECIFICATION FairSpec

PROPERTY DeletesOnlyWhatWasCopied

CHECK_DEADLOCK FALSE
