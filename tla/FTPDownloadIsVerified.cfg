\* Is every accepted download verified against the size of the remote file?
SPECIFICATION Spec
CONSTANTS
    MaxSize = 3
    Wrap = 2
    MaxCalls = 0
INVARIANTS
    DownloadIsVerified
CHECK_DEADLOCK FALSE
