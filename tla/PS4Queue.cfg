\* One submission of a base game and its patch: order, cancellation, pausing.
SPECIFICATION FairSpec
CONSTANTS
    base = base
    patch = patch
    other = other
    Contents <- MCContents
    NoContent = nocontent
    MaxTasks = 1
    MaxJobs = 2
    MaxQueues = 1
    MaxPending = 2
    MaxRestarts = 0
    PausableJobs = {}
    PackageOf <- BaseAndPatch
INVARIANTS
    TypeOK
    OneActiveJob
    FailureDragsItsQueue
    OrphansAreTracked
    UrlsAreRevoked
PROPERTIES
    CancelledStartsOnlyIfClaimed
    CancelEnds
    CloseReturns
