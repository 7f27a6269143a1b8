SPECIFICATION FairSpec
CONSTANTS
    tempest = tempest
    longtempest = longtempest
    tobiko = tobiko
    tobiko2 = tobiko2
    ansible = ansible
    horizon = horizon
    longhorizon = longhorizon
    tempest3 = tempest3
    ansible3 = ansible3
    horizon3 = horizon3
    clashtempest = clashtempest
    clashtobiko = clashtobiko
    clashansible = clashansible
    Nobody = Nobody
    Instances = {tempest, longtempest, tobiko, tobiko2, ansible, horizon, longhorizon, tempest3, ansible3, horizon3, clashtempest, clashtobiko, clashansible}
    Kind <- MCKind
    Name <- OwnNames
    NameLength <- MCNameLength
    StepNameLength = 7
    ConfiguredImages = {}
    OpenstackName <- MCOpenstackName
    ExtraConfigmaps <- MCExtraConfigmaps
    ExtraMounts <- MCExtraMounts
    NotLabels = {"with.dot"}
    Populations <- MCPopulations
    Manifests <- MCManifests
    Lacking <- MCLacking
    Withdrawable <- MCWithdrawable
    Removable = {tempest, tobiko2, horizon}
    MaxUpdated = 1
    MaxFailures = 1
CHECK_DEADLOCK FALSE
INVARIANTS
    TypeOK
    ReadsWhatIsMeant
    PodsAsMeant
    PodsAccepted
    LogsNotShared
PROPERTIES
    RunsItsOwnConfig
    EventuallyTested
    MissingInputsReported
