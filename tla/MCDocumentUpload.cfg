SPECIFICATION FairUploadSpec
CONSTANTS
    Processes <- TwoProcesses
    Uploads = {u1, u2, u3}
    u3 = u3
    Process <- Placement
    Faults = TRUE
INVARIANTS
    DocumentsHaveObjects
PROPERTY
    UploadsEnd
CHECK_DEADLOCK FALSE
