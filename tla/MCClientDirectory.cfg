SPECIFICATION FairSpec
CONSTANTS
    o = o
    a1 = a1
    a2 = a2
    Addr <- MCAddr
    Owner = o
    UINT8 = 8
    UINT16 = 8
    Bytes <- MCBytes
    UploadCalls <- MCUploads
    HealthCalls <- ExpelFirst
    Periods = {60}
    MaxBalance = 0
    MaxCounter = 3
    DownloadTicks = 2
    Documents <- MCDocuments
    MaxFailure = 1
    MaxKill = 1
    MaxReplace = 2
INVARIANTS
    ClientTypeOK
    NodelistConsistent
    ListedRelaysFound
PROPERTIES
    NSDAttribution
    NSDConverges
    NodelistFollowsFile
