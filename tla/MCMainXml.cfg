SPECIFICATION MainSpec
CONSTANTS
    d1 = d1  d2 = d2  l1 = l1  l2 = l2  l3 = l3  t1 = t1  s1 = s1
    h1 = h1  h2 = h2  x1 = x1  x2 = x2
    r1 = r1  full = full  rel1 = rel1
    DeviceId <- MCDeviceId
    Location <- MCLocation
    DeviceType <- MCDeviceType
    ServiceType <- MCServiceType
    Host <- MCHost
    Xml <- MCXml
    urlHost <- MCUrlHost
    urlPort <- MCUrlPort
    MaxULong <- MCMaxULong
    NoId = NoId
    Empty = Empty
    Reader <- MCReader
    NetEvent <- MCNetEvent
    FullUrl <- MCFullUrl
    Relative <- MCRelative
    services <- MCServices
    mayServe <- MCMayServe
    owner <- MCOwner
INVARIANTS
    TypeOK
    LibraryReleased
    FiledUnderOwnId
    LatestServiceListed
    AddressOfLocation
    DocumentOfDevice
    ServicesFollowed
PROPERTIES
    NothingLost
    RequestAnswered
CHECK_DEADLOCK FALSE
