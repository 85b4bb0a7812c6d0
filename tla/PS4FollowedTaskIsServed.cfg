\* Do the package URLs of a task that a job follows still answer?
SPECIFICATION Spec
CONSTANTS
    base = base
    patch = patch
    other = other
    Contents <- MCContents
    NoContent = nocontent
    MaxTasks = 1
    MaxJobs = 1
    MaxQueues = 1
    MaxPending = 1
    MaxRestarts = 1
    PausableJobs = {}
    PackageOf <- SameGame
INVARIANTS
    FollowedTaskIsServed
