SPECIFICATION FairSpec
CONSTANTS
    Publishers = {p1}
    Streams = {s1, s2}
    Closers = {c1, c2}
    None = None
    Lines = 3
    Buffer = 2
CHECK_DEADLOCK FALSE
INVARIANTS
    TypeOK
    OpenIffRegistered
    NeverStuck
PROPERTIES
    FeedSpec
    PublishReturns
    StreamsEnd
