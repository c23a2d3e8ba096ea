SPECIFICATION Spec
CONSTANTS
    official = official
    alias = alias
    other = other
    Ref <- Spellings
    Canonical <- BankSpelling
    Txn = {t1, t2}
    Target = {x1, x2}
    Run = {r1, r2, r3}
    Nothing = Nothing
SYMMETRY Interchangeable
INVARIANTS
    TypeOK
    VerifiedWasConfirmed
PROPERTIES
    ImplementsLedger
CHECK_DEADLOCK FALSE
