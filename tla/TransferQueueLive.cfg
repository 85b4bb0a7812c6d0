\* Liveness and refinement of the transfer queue: two jobs, retried forever.
SPECIFICATION FairSpec
CONSTANTS
    MaxJobs = 2
    MaxQueues = 2
    MaxPending = 3
PROPERTIES
    ImplementsWorkQueue
    WaitingIsServed
    CloseReturns
