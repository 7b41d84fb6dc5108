SPECIFICATION Spec
CONSTANTS
    None = None
    Chunks <- MCChunks
    Magic <- MCMagic
    Hint <- MCHint
    N = 2
    Start <- EditStart
    Contents <- EditContents
    Capacity = 2
    StagingBytes = 6
    Reserve = 1
    Previous <- NoPrevious
    MaxEdits = 2
INVARIANTS
    VectorsMatchContent
    ResultValidates
    NothingLost
PROPERTIES
    RecordsAreCurrent
