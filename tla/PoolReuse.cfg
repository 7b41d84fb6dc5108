\* A worker that dies between two jobs.
SPECIFICATION Spec
CONSTANTS
    None = None
    Capacity = 1
    MaxJobs = 2
    RequestLimit = 1
    ResponseLimit = 1
    Pipe = 1
    Requests = {1}
    Bodies = {1}
    Logs = {0}
    Deadline = 1
    MaxFaults = 1
INVARIANT
    FailuresAreOwn
