SPECIFICATION FairSpec
CONSTANTS
    o = o
    r1 = r1
    r2 = r2
    Addr <- MCAddr
    Owner = o
    UINT8 = 6
    UINT16 = 5
    Bytes <- MCBytes
    UploadCalls <- Upload
    HealthCalls <- ExpelFirst
    Periods = {60}
    MaxBalance = 0
    MaxCounter = 5
    Relay <- MCRelay
    MaxRelayNumber = 4
    MaxKey = 1
    MaxCrash = 0
    Faults = {}
    Cancelling = {}
PROPERTY
    HealthyRelaysRenew
