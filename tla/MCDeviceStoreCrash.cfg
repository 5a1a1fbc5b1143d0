SPECIFICATION Spec
CONSTANTS
    d1 = d1  d2 = d2  f1 = f1  v1 = v1  v2 = v2  w1 = w1  w2 = w2
    DeviceId <- MCDeviceId
    Field <- MCField
    Value <- MCValue
    Worker <- MCWorker
    InitialFiles <- MCInitialFiles
    NoId = NoId
    Empty = Empty
    NoWorker = NoWorker
    NoDevice = NoDevice
    DiskMayFail = FALSE
    CrashMidSave = TRUE
INVARIANT RememberedAcrossRestarts
