CONSTANTS
    Problems = {"FileExists"}
    MaxAsk = 1
    MaxSplits = 0

SPECIFICATION FairSpec

PROPERTY LogoutEnds

CHECK_DEADLOCK FALSE
