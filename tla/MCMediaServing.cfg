SPECIFICATION Spec
CONSTANTS
    Client = {c1}
    File <- MCFile
    Nested <- MCNested
    Segment <- MCSegment
    MaxFiles = 2
INVARIANTS
    TypeOK
    PickIsServed
    CastIsServed
    AnnouncedIsServed
    ServedFromLibrary
