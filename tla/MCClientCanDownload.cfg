SPECIFICATION ContractSpec
CONSTANTS
    o = o
    a1 = a1
    a2 = a2
    Addr <- MCAddr
    Owner = o
    UINT8 = 8
    UINT16 = 8
    Bytes <- MCBytes
    UploadCalls <- MCUploads
    HealthCalls <- MCHealthCalls
    Periods = {30, 60}
    MaxBalance = 1
    MaxCounter = 5
INVARIANT
    ClientCanDownload
