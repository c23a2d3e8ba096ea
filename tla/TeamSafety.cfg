SPECIFICATION Spec
CONSTANTS
    captain = captain
    Member = {captain, mate}
    Player = {captain, mate}
    Call = {c1}
    NoCode = NoCode
    MaxRound = 2
    MaxUnderWay = 2
INVARIANTS
    TypeOK
    TopUpOnlyIfSettled
PROPERTIES
    SettledStaysSettled
    ImplementsSharePool
CHECK_DEADLOCK FALSE
