SPECIFICATION Spec
CONSTANTS
    alice = alice
    bob = bob
    rent = rent
    food = food
    gift = gift
    Address = {alice, bob}
    Index = Index
    Payment = {rent, food, gift}
    From <- MCFrom
    Key = {alice, bob, Index}
    Value <- MCValue
    Absent = Absent
    None = None
    Nobody = Nobody
    Missing = Missing
    Torn = Torn
    MaxFaults = 2
    MaxSilent = 1
    MaxAttempts = 2
INVARIANTS
    KeysAreKept
    ListedCanSign
    PaidOnce
    AddedIsKept
PROPERTIES
    StoreIsAtomic
CHECK_DEADLOCK FALSE
