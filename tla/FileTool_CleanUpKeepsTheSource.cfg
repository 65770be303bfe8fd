CONSTANTS
    Names <- MCNames
    Kids <- MCKids
    SourceTrees <- MCSourceTrees
    TargetTrees <- MCTargetTrees
    Elsewhere <- MCElsewhere
    MaxFaults = 1

SPECIFICATION Spec

INVARIANT CleanUpKeepsTheSource

CHECK_DEADLOCK FALSE
