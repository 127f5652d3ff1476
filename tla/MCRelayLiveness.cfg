SPECIFICATION FairSpec
CONSTANTS
    o = o
    r1 = r1
    r2 = r2
    Addr <- MCAddr
    Owner = o
    UINT8 = 4
    UINT16 = 4
    Bytes <- MCBytes
    UploadCalls <- Upload
    HealthCalls = {}
    Periods = {60}
    MaxBalance = 0
    MaxCounter = 3
    Relay <- MCRelay
    MaxRelayNumber = 3
    MaxKey = 2
    MaxCrash = 0
    Faults = {}
    Cancelling = {}
PROPERTY
    NimeConverges
