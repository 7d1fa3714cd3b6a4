SPECIFICATION FilesSpec
CONSTANTS
    k1 = k1  k2 = k2  big = big  page = page
    ScanCall = {k1, k2}
    ContentOf <- ScannedContents
    Refused = {big}
    Post = {1, 2}
    UploadLimit = 2
    MaxFileFaults = 0
INVARIANTS
    ScanIsNotDiscarded
CHECK_DEADLOCK FALSE
