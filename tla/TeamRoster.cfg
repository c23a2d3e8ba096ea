SPECIFICATION RosterSpec
CONSTANTS
    User = {o, a, b}
    founder = o
    MaxCapacity = 2
    MaxVersion = 1
    MaxOps = 1
    MaxFamilies = 1
CONSTRAINT FewFamilies
INVARIANTS
    RosterTypeOK
    OwnerIsOneActiveMember
    LinkUsedWithinLimit
PROPERTIES
    RosterGrowsWithinCapacity
    OwnershipLostOnlyToStaleWrite
CHECK_DEADLOCK FALSE
