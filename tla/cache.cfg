SPECIFICATION Spec
CONSTANTS
    example = example
    lower = lower
    mixed = mixed
    A = A
    AAAA = AAAA
    Domains <- MCDomains
    Letters <- MCLetters
    Lower = lower
    Types = {A, AAAA}
    Responses <- MCResponses
    MaxTtl = 2
    NegativeTtl = 3
    MaxTime = 2
    NoEntry = NoEntry
    NoResponse = NoResponse
INVARIANTS
    TypeOK
    ServedWithinEveryTtl
PROPERTY
    Promise
