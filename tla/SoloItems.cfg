SPECIFICATION Spec
CONSTANTS
    Slot = {s1, s2}
    Hold = {h1}
    Run = {r1, r2}
    NoHold = NoHold
    NoSlot = NoSlot
    PayWindow = 1
    MaxNow = 1
    MaxSweepCrashes = 1
SYMMETRY Interchangeable
INVARIANTS
    BookedHoldIsComplete
    HeldSlotHasPendingHold
CHECK_DEADLOCK FALSE
