SPECIFICATION FairSpec
CONSTANTS
    tempest = tempest
    tempest2 = tempest2
    tobiko = tobiko
    ansible = ansible
    horizon = horizon
    NoOwner = NoOwner
    Instances = {tempest, ansible}
    Kind <- MCKind
    Name <- OwnNames
    Specs <- RelaxedSpecs
    Admitted = {}
    Networked = {}
    Missing <- InputsMissing
    Removable = {}
    Faults = {"lockCreate", "lockDelete", "podCreate", "podDelete", "prepare", "patch", "restart", "podCreateReply"}
    MaxFaults = 1
    MaxStep = 2
    Lagging = FALSE
    LaggingCR = {}
CHECK_DEADLOCK FALSE
PROPERTIES
    EventuallyFinished
