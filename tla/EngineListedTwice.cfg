SPECIFICATION Spec
CONSTANTS
    None = None
    Chunks <- MCChunks
    Magic <- MCMagic
    Hint <- MCHint
    N = 1
    Start <- EditStart
    Contents <- EditContents
    Capacity = 2
    StagingBytes = 6
    Reserve = 1
    Previous <- NoPrevious
    MaxEdits = 1
INVARIANTS
    OneRecordPerPath
