SPECIFICATION Spec
CONSTANTS
    tempest = tempest
    tempest2 = tempest2
    tobiko = tobiko
    ansible = ansible
    horizon = horizon
    NoOwner = NoOwner
    Instances = {tobiko, ansible}
    Kind <- MCKind
    Name <- OwnNames
    Specs <- PlainSpecs
    Admitted = {}
    Networked = {}
    Missing <- NothingMissing
    Removable = {ansible}
    Faults = {}
    MaxFaults = 0
    MaxStep = 2
    Lagging = FALSE
    LaggingCR = {}
CHECK_DEADLOCK FALSE
PROPERTIES
    LockReleasedByItsCreator
