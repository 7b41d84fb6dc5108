SPECIFICATION Spec
CONSTANTS
    None = None
    Chunks <- MCChunks
    Magic <- MCMagic
    Hint <- MCHint
    N = 3
    Start <- LoadStart
    Contents <- LoadContents
    Capacity = 2
    StagingBytes = 6
    Reserve = 1
    Previous <- LoadPrevious
    MaxEdits = 1
INVARIANTS
    TypeOK
    EncodedOnce
    ExpectationsHold
    StagingWithinAllowance
    RefusalsAreReal
    PromptCancel
