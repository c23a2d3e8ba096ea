SPECIFICATION Spec
CONSTANTS
    official = official
    alias = alias
    other = other
    Ref <- Spellings
    Canonical <- BankSpelling
    Txn = {t1, t2}
    Target = {x1, x2}
    Run = {r1, r2}
    Nothing = Nothing

PROPERTIES
    OnlyOwnerUnverifies
CHECK_DEADLOCK FALSE
