\* One operation whose tool may meet two kinds of problem, asks three times
\* and has one of its lines split by a read.
CONSTANTS
    Problems = {"FileExists", "ReadError"}
    MaxAsk = 3
    MaxSplits = 1

SPECIFICATION FairSpec

INVARIANTS
    TypeOK
    AlertHasProblem
    QuestionNotForgotten
    OneMessageInFlight
    NoOrphanTool
    FrozenIsKnown

PROPERTIES
    StoppingOnlyEndsOrAsks
    ImplementsBGOperation
    EndsUnlessStranded

CHECK_DEADLOCK FALSE
