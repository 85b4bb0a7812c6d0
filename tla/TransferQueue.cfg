\* Safety of the transfer queue: three jobs, two submissions.
SPECIFICATION Spec
CONSTANTS
    MaxJobs = 3
    MaxQueues = 2
    MaxPending = 3
INVARIANTS
    TypeOK
    WaitingIsQueued
    OneInFlight
    StoppedQueueStaysStopped
    AnnouncedQueueIsFinished
PROPERTIES
    CancelledNeverStarts
