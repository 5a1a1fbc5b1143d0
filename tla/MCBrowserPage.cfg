SPECIFICATION FairSpec
CONSTANTS
    d1 = d1  d2 = d2  c1 = c1  s1 = s1  s2 = s2
    DeviceId <- MCDeviceId
    ControlUrl <- MCControlUrl
    Slot <- MCSlot
    NoId = NoId
    DefaultRenderer = DefaultRenderer
    Empty = Empty
    Free = Free
INVARIANTS
    TypeOK
    DropdownIsCurrent
    TargetIsCurrent
PROPERTY ScanSettles
