SPECIFICATION Spec
CONSTANTS
    example = example
    lower = lower
    mixed = mixed
    A = A
    AAAA = AAAA
    Domains <- MCDomains
    Letters <- MCLetters
    Lower = lower
    Types = {A, AAAA}
    Responses <- MCResponses
    MaxTtl = 2
    NegativeTtl = 1
    MaxTime = 2
    NoEntry = NoEntry
    NoResponse = NoResponse
PROPERTY
    FlushDomainClears
