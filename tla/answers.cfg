SPECIFICATION Spec
CONSTANTS
    t1 = t1
    t2 = t2
    example = example
    lower = lower
    mixed = mixed
    TXT = TXT
    PTR = PTR
    Tasks <- MCTasks
    MessageIds = {1, 2}
    Domains <- MCDomains
    Letters <- MCLetters
    Lower = lower
    SupportedTypes = {TXT}
    OtherTypes = {PTR}
    Queries <- MCQueries
    RecordIds = {r1}
    NewRecords <- MCNewRecords
    ApiNames <- MCApiNames
    Bodies <- MCBodies
    NumServers = 1
    Timeout = 1
    MaxTtl = 2
    NegativeTtl = 1
    MaxTime = 1
    NoEntry = NoEntry
    NoResponse = NoResponse
    NoRecord = NoRecord
    None = None
    Idle = Idle
    Garbage = Garbage
    NoQuestion = NoQuestion
    NoAnswer = NoAnswer
SYMMETRY MCSymmetry
INVARIANT
    TypeOK
PROPERTY
    Service
