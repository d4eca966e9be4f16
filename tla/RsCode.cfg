SPECIFICATION Spec
CONSTANTS
    GF_BITS = 4
    Pp <- PpOf4
    Codes <- SmallCodes
    Bytes <- SomeBytes
    Lost = Lost
CHECK_DEADLOCK FALSE
INVARIANTS WordOnPolynomial PackagesInPlace HalfInverted OnlyTooFewFail Recovered TablesAreField
PROPERTIES Terminates
