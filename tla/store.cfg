SPECIFICATION Spec
CONSTANTS
    example = example
    other = other
    lower = lower
    mixed = mixed
    Domains <- MCDomains
    Letters <- MCLetters
    Lower = lower
    Ids = {i1, i2, i3}
    RecordTypes = {A, TXT}
    Data = {d}
    NoRecord = NoRecord
    None = None
    BadType = BadType
INVARIANT
    TypeOK
PROPERTY
    ZonePromise
