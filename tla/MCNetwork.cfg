SPECIFICATION FairSpec
CONSTANTS
    tempest = tempest
    tempest2 = tempest2
    tobiko = tobiko
    ansible = ansible
    horizon = horizon
    NoOwner = NoOwner
    Instances = {tempest}
    Kind <- MCKind
    Name <- OwnNames
    Specs <- PlainSpecs
    Admitted = {}
    Networked = {tempest}
    Missing <- NothingMissing
    Removable = {}
    Faults = {}
    MaxFaults = 0
    MaxStep = 2
    Lagging = FALSE
    LaggingCR = {}
CHECK_DEADLOCK FALSE
PROPERTIES
    EventuallyReady
