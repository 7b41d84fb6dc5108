\* An allowance below one reserve: a copy's limit saturates to zero.
SPECIFICATION FairSpec
CONSTANTS
    None = None
    Chunks <- MCChunks
    Magic <- MCMagic
    Hint <- MCHint
    N = 3
    Start <- SmallStart
    Contents <- SmallContents
    Capacity = 2
    StagingBytes = 1
    Reserve = 2
    Previous <- NoPrevious
    MaxEdits = 1
INVARIANT
    StagingWithinAllowance
PROPERTIES
    Termination
    CancelCompletes
