SPECIFICATION FairSpec
CONSTANTS
    d1 = d1  d2 = d2  l1 = l1  l2 = l2  av = av  rc = rc  h1 = h1
    c1 = c1  c2 = c2  c3 = c3  w1 = w1  w2 = w2
    DeviceId <- MCDeviceId
    Location <- MCLocation
    DeviceType <- MCDeviceType
    ServiceType <- MCServiceType
    Host <- MCHost
    Xml = {}
    urlHost <- MCUrlHost
    urlPort <- MCUrlPort
    MaxULong = 99999
    Worker <- MCWorker
    Scanner <- MCWorker
    ControlUrl <- MCControlUrl
    AVTransport <- MCAVTransport
    document <- MCDocument
    NetEvent <- MCNetEvent
    DownloadMayFail = TRUE
    MaxTime = 2
    NoId = NoId
    Empty = Empty
INVARIANTS
    TypeOK
    ScanStoresSnapshot
    OwnDataOnly
    CastTargetMatches
PROPERTIES
    LastSeenMonotone
    ScanAnswered
