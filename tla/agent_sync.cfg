SPECIFICATION FairSpec
CONSTANTS
    Forms = {f1}
    SlotOf <- MCSlotOf
    Valid = {f1}
    Tasks = {t1, t2}
    Requests = {q1, q2}
    MaxRetries = 2
    MaxTaps = 2
    MaxFaults = 1
    MaxCopies = 2
INVARIANTS
    UploadedIsReceived
    SentWasFinished
    FlagIsHeld
PROPERTY LeavesTransit

\* Uploads left in refreshQueue wait for ever.
CHECK_DEADLOCK FALSE
