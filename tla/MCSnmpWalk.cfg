CONSTANTS
    OIDs <- const_OIDs
    Subtree <- const_Subtree
    MaxRepetitions = 2
    Versions = {1, 2}
    Agents = {"conforming", "broken"}
    Verbosity = {0, 4}
    MaxEvents = 2
SPECIFICATION Spec
INVARIANTS
    TableIsComplete
    RowsAreSorted
    NeverBackwards
PROPERTIES
    WalkEnds
