SPECIFICATION FairSpec
CONSTANTS
    tempest = tempest
    tempest2 = tempest2
    tobiko = tobiko
    ansible = ansible
    horizon = horizon
    NoOwner = NoOwner
    Instances = {tempest}
    Kind <- MCKind
    Name <- OwnNames
    Specs <- GrownSpecs
    Admitted = {}
    Networked = {}
    Missing <- NothingMissing
    Removable = {}
    Faults = {}
    MaxFaults = 0
    MaxStep = 2
    Lagging = TRUE
    LaggingCR = {}
CHECK_DEADLOCK FALSE
PROPERTIES
    PodsRecreated
