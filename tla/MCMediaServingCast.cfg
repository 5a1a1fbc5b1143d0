SPECIFICATION Spec
CONSTANTS
    Client = {c1}
    File <- MCFile
    Nested <- MCNested
    Segment <- MCSegment
    MaxFiles = 2
INVARIANT SentIsServed
