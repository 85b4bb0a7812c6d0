\* Does stop on error cancel the remainder of the submitted queue?
SPECIFICATION Spec
CONSTANTS
    MaxJobs = 2
    MaxQueues = 1
    MaxPending = 2
PROPERTIES
    StopOnErrorCancelsRemainder
