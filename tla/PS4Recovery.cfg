\* Restarts: one game installed, retried and adopted.
SPECIFICATION Spec
CONSTANTS
    base = base
    patch = patch
    other = other
    Contents <- MCContents
    NoContent = nocontent
    MaxTasks = 2
    MaxJobs = 1
    MaxQueues = 1
    MaxPending = 1
    MaxRestarts = 1
    PausableJobs = {1}
    PackageOf <- SameGame
INVARIANTS
    OrphansAreTracked
