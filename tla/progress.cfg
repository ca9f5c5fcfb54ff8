SPECIFICATION FairSpec
CONSTANTS
    t1 = t1
    t2 = t2
    example = example
    lower = lower
    mixed = mixed
    TXT = TXT
    PTR = PTR
    Tasks <- MCTasks
    MessageIds = {1}
    Domains <- MCDomains
    Letters <- MCOneSpelling
    Lower = lower
    SupportedTypes = {TXT}
    OtherTypes = {}
    Queries <- MCOneQuery
    RecordIds = {r1}
    NewRecords = {}
    ApiNames <- MCAnyName
    Bodies <- MCBodies
    NumServers = 2
    Timeout = 1
    MaxTtl = 2
    NegativeTtl = 1
    MaxTime = 3
    NoEntry = NoEntry
    NoResponse = NoResponse
    NoRecord = NoRecord
    None = None
    Idle = Idle
    Garbage = Garbage
    NoQuestion = NoQuestion
    NoAnswer = NoAnswer
INVARIANT
    WaitBounded
PROPERTIES
    QueryEnds
    OnlyForward
