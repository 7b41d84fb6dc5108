\* Two writers of one output and a reader, one edit, one power loss.
SPECIFICATION Spec
CONSTANTS
    None = None
    Foreign = Foreign
    Writers = 2
    Readers = 1
    MaxEdits = 1
    MaxCrashes = 1
INVARIANTS
    OutputIsWhole
    SavedIsDurable
    ReadsOneVersion
PROPERTIES
    NewOutputReplacesNothing
CHECK_DEADLOCK FALSE
