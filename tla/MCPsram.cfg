SPECIFICATION MemSpec
CONSTANTS
    p1 = p1
    p2 = p2
    p3 = p3
    Ptrs = {p1, p2, p3}
    b1 = b1
    b2 = b2
    b3 = b3
    b4 = b4
    Bytes = {b1, b2, b3, b4}
    MaxPsram = 3
    Tags = {0, 2}
    NoRequest = NoRequest
    Objects = {1, 2, 3}
    Main = 9
    NoObject = 0
    MaxEntries = 1
    Programs <- MCPrograms
    Pairs <- MCPairs
    Hash <- MCHash
    Start <- MCStart
    LIMFORLAST = 1
    MAXINT = 15
    Seeds = {0, 1, 2, 3, 4, 5, 6, 7}
    Sizes = {1, 2, 3, 7}
    Ranks = {1, 2}
    AnyAnswer = AnyAnswer
    RANLIMIT = 4
    Skew = 1
INVARIANTS
    TypeOK
    UsageExact
    WithinLimit
    NoDanglingReference
    LengthIsBorder
    CollidingNodeAtHome
    SortOrders
PROPERTIES
    DeniedOnlyWhenFull
    EveryRequestAnswered
    FinalizesGarbage
    GarbageIsFreed
    TableIsMap
    SortEnds
