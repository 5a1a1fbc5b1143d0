SPECIFICATION FairSpec
CONSTANTS
    r1 = r1  r2 = r2  f1 = f1  s1 = s1  w1 = w1  w2 = w2
    Renderer <- MCRenderer
    DefaultRenderer = r1
    File <- MCFile
    StreamUrl <- MCStreamUrl
    Worker <- MCWorker
    Empty = Empty
    Null = Null
    NoJob = NoJob
INVARIANT TypeOK
PROPERTIES
    AnsweredMeansPlaying
    RequestAnswered
