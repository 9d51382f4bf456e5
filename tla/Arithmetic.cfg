SPECIFICATION ArithmeticSpec
CONSTANTS
    Bits = 4
    Word = 3
    MaxVisits = 2
    Later <- Few
    Types <- AllTypes
    Points <- Numbers
    Alignments <- Classes
    Avoid <- AllPlaces
INVARIANTS TypeOK DeductionsHold DerivativeHolds DivisionExact TilesExact
CHECK_DEADLOCK FALSE
