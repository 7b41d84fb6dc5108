\* One request to one reader, of any kind.
SPECIFICATION Spec
CONSTANTS
    None = None
    TextInputs <- MCTextInputs
    Buffer = 2
    MaxMarks = 1
    Grams = 2
    Elements <- MCElements
    Books <- MCBooks
    MaxDepth = 4
    MaxText = 5
    MaxPages = 2
    WidestChar = 1
    Calls <- MCCalls
    Probes <- MCProbes
    Films <- MCFilms
    Stills <- MCStills
    Windows = 2
    WindowSeconds = 3
    Short = 5
    Longest = 12
    MinLandmarks = 1
    Pipe = 1
    Writes = 3
    Keeps <- MCKeeps
    Workers = {w1, w2}
    Keys = {cpu, coreml}
    Compiling = {coreml}
    MaxRequests = 3
    MaxEdits = 1
INVARIANTS
    TextAsSpecified
    BodyAsWritten
    PagesAreComplete
    WindowsAsSpecified
    FramesAsSpecified
    FamilyAsSpecified
    PrimaryPicture
    CaptureIsWhole
    SessionFits
    OneCompiler
PROPERTIES
    CaptureReturns
    CompilersProceed
CHECK_DEADLOCK FALSE
