\* Two commands against a server that crashes once.
SPECIFICATION FairSpec
CONSTANTS
    lower = lower
    example = example
    coded = coded
    hashed = hashed
    spaced = spaced
    TXT = TXT
    txt = txt
    foreign = foreign
    d = d
    e = e
    escaped = escaped
    quoted = quoted
    i1 = i1
    i2 = i2
    c1 = c1
    c2 = c2
    c3 = c3
    Domains <- MCDomains
    Letters <- MCLetters
    Lower = lower
    RecordTypes <- MCTypes
    TypeTexts <- MCTypeTexts
    Data <- MCData
    InBody <- MCInBody
    InQuery <- MCInQuery
    NoRecord = NoRecord
    None = None
    BadType = BadType
    Unreadable = Unreadable
    Nothing = Nothing
    Ids <- MCIds
    Clients <- MCClients
    Asked <- MCAsked
    MaxCrashes = 1
INVARIANTS TypeOK EveryRecordAsked IdsKeepMeaning
PROPERTIES Promise CommandEnds Recovers
CHECK_DEADLOCK FALSE
