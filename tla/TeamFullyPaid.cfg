SPECIFICATION Spec
CONSTANTS
    captain = captain
    Member = {captain, mate, friend}
    Player = {captain, mate, friend}
    Call = {c1, c2}
    NoCode = NoCode
    MaxRound = 2
    MaxUnderWay = 2
SYMMETRY Interchangeable
INVARIANTS
    FullyPaidIsBooked
CHECK_DEADLOCK FALSE
