\* A list and a delete, among commands that change what there is.
SPECIFICATION Spec
CONSTANTS
    lower = lower
    example = example
    coded = coded
    hashed = hashed
    spaced = spaced
    TXT = TXT
    txt = txt
    foreign = foreign
    d = d
    e = e
    escaped = escaped
    quoted = quoted
    i1 = i1
    i2 = i2
    c1 = c1
    c2 = c2
    c3 = c3
    Domains <- MCDomains
    Letters <- MCLetters
    Lower = lower
    RecordTypes <- MCTypes
    TypeTexts <- MCTypeTexts
    Data <- MCData
    InBody <- MCInBody
    InQuery <- MCInQuery
    NoRecord = NoRecord
    None = None
    BadType = BadType
    Unreadable = Unreadable
    Nothing = Nothing
    Ids <- MCIds
    Clients <- MCThreeClients
    Asked <- MCAskedPreview
    MaxCrashes = 0
PROPERTY PreviewIsHonest
CHECK_DEADLOCK FALSE
