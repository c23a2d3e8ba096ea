SPECIFICATION Spec
CONSTANTS
    Slot = {s1}
    Hold = {h1, h2}
    Run = {r1, r2}
    NoHold = NoHold
    NoSlot = NoSlot
    PayWindow = 1
    MaxNow = 2
    MaxSweepCrashes = 1
SYMMETRY Interchangeable
INVARIANTS
    TypeOK
    BookingOnlyIfVerified
    HeldSlotHasPendingHold
    SoldSlotIsBooked
    DoubleSaleHasCause
PROPERTIES
    CancelledOnlyByOwnReversal
CHECK_DEADLOCK FALSE
