SPECIFICATION BleFairSpec
CONSTANTS
    Addresses = {a1, a2}
    NoAddress = none
    MaxLinks = 2
    MaxSent = 3
    Items <- LinkNumbers
    End = 0
    Capacity = 2
INVARIANTS
    BleTypeOK
    LinksOwned
    QueueIsOfLink
PROPERTIES
    LossIsTold
