\* What data makes a record.
SPECIFICATION Spec
CONSTANTS
    Records <- MCRecords
    U16 <- MCU16
    Zeros <- MCZeros
    V4 <- MCV4
    V6 <- MCV6
    Names <- MCNames
    Root = "."
    Base64 <- MCBase64
    KeyOf <- MCKeyOf
    BadKey = "no key"
    ValueOf <- MCValueOf
    NoValue = NoValue
    Blank = ""
INVARIANTS TypeOK BuiltFits DocumentedBuilds BuiltAsWritten
CHECK_DEADLOCK FALSE
