SPECIFICATION LockSpec
CONSTANTS
    tempest1 = tempest1
    tempest2 = tempest2
    tobiko = tobiko
    NoOwner = NoOwner
    Instances <- MCInstances
    Kind <- MCKind
    Name <- MCName
    Admitted = {}
INVARIANTS
    LockTypeOK
    HeldIsOwned
    CacheIsTruthful
PROPERTIES
    OnlyOwnerReleases
    ImplementsMutex
