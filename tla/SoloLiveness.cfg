SPECIFICATION FairSpec
CONSTANTS
    Slot = {s1}
    Hold = {h1, h2}
    Run = {r1}
    NoHold = NoHold
    NoSlot = NoSlot
    PayWindow = 1
    MaxNow = 2
    MaxSweepCrashes = 1
PROPERTIES
    EveryHoldSettles
    HeldSlotIsFreed
CHECK_DEADLOCK FALSE
