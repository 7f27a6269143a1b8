SPECIFICATION FairSpec
CONSTANTS
    tempest = tempest
    tempest2 = tempest2
    tobiko = tobiko
    ansible = ansible
    horizon = horizon
    NoOwner = NoOwner
    Instances = {tempest, tempest2, horizon}
    Kind <- MCKind
    Name <- OwnNames
    Specs <- MixedSpecs
    Admitted = {}
    Networked = {}
    Missing <- NothingMissing
    Removable = {}
    Faults = {}
    MaxFaults = 0
    MaxStep = 2
    Lagging = FALSE
    LaggingCR = {}
CHECK_DEADLOCK FALSE
INVARIANTS
    SerialPodsOwnLock
PROPERTIES
    EventuallyFinished
    EventuallyReady
