\* Two slots; diagnostics longer than a pipe holds; any one fault; workers may hang.
SPECIFICATION Spec
CONSTANTS
    None = None
    Capacity = 2
    MaxJobs = 2
    RequestLimit = 1
    ResponseLimit = 1
    Pipe = 1
    Requests = {0}
    Bodies = {0}
    Logs = {2}
    Deadline = 1
    MaxFaults = 1
INVARIANT
    CopyOutlivesReader
PROPERTIES
    EveryJobEnds
    HealthyJobsAreAnswered
    OrphansEnd
