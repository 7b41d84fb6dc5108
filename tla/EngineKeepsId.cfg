SPECIFICATION Spec
CONSTANTS
    None = None
    Chunks <- MCChunks
    Magic <- MCMagic
    Hint <- MCHint
    N = 2
    Start <- LoadStart
    Contents <- LoadContents
    Capacity = 2
    StagingBytes = 4
    Reserve = 1
    Previous <- NoPrevious
    MaxEdits = 0
PROPERTIES
    StagingKeepsId
