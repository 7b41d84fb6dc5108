\* One worker, three jobs, one fault of any kind anywhere; lines below, at and
\* past their limits.
SPECIFICATION Spec
CONSTANTS
    None = None
    Capacity = 1
    MaxJobs = 3
    RequestLimit = 1
    ResponseLimit = 2
    Pipe = 2
    Requests = {1, 2}
    Bodies = {0, 2, 3}
    Logs = {0, 3, 4}
    Deadline = 1
    MaxFaults = 1
INVARIANT
    FailuresAreReal
PROPERTIES
    KeepsContract
