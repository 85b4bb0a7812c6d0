\* Is a task that a job follows unregistered by nobody else?
SPECIFICATION Spec
CONSTANTS
    base = base
    patch = patch
    other = other
    Contents <- MCContents
    NoContent = nocontent
    MaxTasks = 1
    MaxJobs = 1
    MaxQueues = 1
    MaxPending = 1
    MaxRestarts = 1
    PausableJobs = {}
    PackageOf <- SameGame
PROPERTIES
    FollowedTaskIsKept
