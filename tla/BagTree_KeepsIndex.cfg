\* Two elements come under an index when one is put beside a gap.
CONSTANTS
    Nodes = {"a", "b", "c"}
    Nil = "nil"
    Indexes <- MCIndexes
    Items = {"x", "y"}
    NoItem = "NULL"
    Small = 3

SPECIFICATION Spec

PROPERTY KeepsIndex

CHECK_DEADLOCK FALSE
