\* Files of up to three blocks, SIZE modulo two, one more call for the same file.
SPECIFICATION FairSpec
CONSTANTS
    MaxSize = 3
    Wrap = 2
    MaxCalls = 1
INVARIANTS
    TypeOK
    CopyIsWhole
    WholeIsAccepted
    ProgressIsExact
PROPERTIES
    ArrivedIsKept
    CallEnds
CHECK_DEADLOCK FALSE
