SPECIFICATION FairSpec
CONSTANTS
    captain = captain
    Member = {captain, mate}
    Player = {captain, mate}
    Call = {c1}
    NoCode = NoCode
    MaxRound = 2
    MaxUnderWay = 1
PROPERTIES
    EveryAskEnds
    UnpaidIsNoticed
CHECK_DEADLOCK FALSE
