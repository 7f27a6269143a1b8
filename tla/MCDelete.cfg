SPECIFICATION FairSpec
CONSTANTS
    tempest = tempest
    tempest2 = tempest2
    tobiko = tobiko
    ansible = ansible
    horizon = horizon
    NoOwner = NoOwner
    Instances = {tempest, ansible}
    Kind <- MCKind
    Name <- OwnNames
    Specs <- PlainSpecs
    Admitted <- Extraordinary
    Networked = {}
    Missing <- NothingMissing
    Removable = {tempest}
    Faults = {}
    MaxFaults = 0
    MaxStep = 2
    Lagging = FALSE
    LaggingCR = {}
CHECK_DEADLOCK FALSE
PROPERTIES
    GoneIsCleaned
    EventuallyFinished
