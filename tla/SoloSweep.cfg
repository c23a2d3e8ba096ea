SPECIFICATION Spec
CONSTANTS
    Slot = {s1}
    Hold = {h1, h2}
    Run = {r1}
    NoHold = NoHold
    NoSlot = NoSlot
    PayWindow = 1
    MaxNow = 2
    MaxSweepCrashes = 0
PROPERTIES
    SweepFreesOnlyLapsedSlots
CHECK_DEADLOCK FALSE
