\* Both PS2 queues with two jobs, and a drive that comes and goes.
SPECIFICATION FairSpec
CONSTANTS
    MaxJobs = 2
    MaxPending = 3
INVARIANTS
    TypeOK
    OneActiveJob
    PausedIsResumable
PROPERTIES
    ResumedGoesFirst
    CancelledStartsOnlyIfClaimed
    WaitingIsServed
