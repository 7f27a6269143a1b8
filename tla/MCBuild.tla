------------------------------- MODULE MCBuild -------------------------------
(* Instances for model checking the way from a manifest to a pod.          *)
EXTENDS Build, TLC

CONSTANTS
    tempest, longtempest, tobiko, tobiko2, ansible, horizon, longhorizon,
    tempest3, ansible3, horizon3, clashtempest, clashtobiko, clashansible

MCKind ==
    tempest :> "Tempest" @@ longtempest :> "Tempest" @@ tobiko :> "Tobiko"
      @@ tobiko2 :> "Tobiko" @@ ansible :> "AnsibleTest" @@ horizon :> "HorizonTest"
      @@ longhorizon :> "HorizonTest" @@ tempest3 :> "Tempest"
      @@ ansible3 :> "AnsibleTest" @@ horizon3 :> "HorizonTest"
      @@ clashtempest :> "Tempest" @@ clashtobiko :> "Tobiko"
      @@ clashansible :> "AnsibleTest"

OwnNames == [i \in Instances |-> i]

(* One Tempest name just too long for its container, but not for the       *)
(* webhook, and a HorizonTest name too long for any.                       *)
MCNameLength ==
    [i \in Instances |-> CASE i = longtempest -> 51
                           [] i = longhorizon -> 64
                           [] OTHER           -> 50]

(* Names that the user gives.  A ConfigMap and a Secret of one name clash  *)
(* in a Tempest, not in a Tobiko; one ConfigMap is listed twice, or is the *)
(* one that is mounted anyway; a name is that of a volume of the operator, *)
(* or cannot be that of a volume; a path is taken.                         *)
MCOpenstackName ==
    [i \in Instances |->
       [ OpenStackConfigMap    |-> "openstack-config",
         OpenStackConfigSecret |-> IF i \in {tobiko, clashtempest}
                                   THEN "openstack-config"
                                   ELSE "openstack-config-secret" ]]
MCExtraConfigmaps ==
    [i \in Instances |->
       CASE i = clashtobiko ->
               [ main |-> <<Mount("kubeconfig", "/extra")>>,
                 step |-> <<Mount("with.dot", "/extra")>> ]
         [] i = clashansible ->
               [ main |-> <<Mount("twice", "/extra"), Mount("twice", "/more")>>,
                 step |-> <<Mount("openstack-config", "/extra")>> ]
         [] OTHER ->
               [ main |-> <<Mount("extra-of-spec", "/extra")>>,
                 step |-> << Mount("extra-of-step", "/extra"),
                             Mount("more-of-step", "/more") >> ]]
MCExtraMounts ==
    [i \in Instances |->
       [ volumes |-> <<[name |-> "extra-mount"]>>,
         mounts  |-> << Mount("extra-mount", "/mount"),
                        Mount("extra-mount",
                              IF i = longhorizon THEN "/tmp" ELSE "/again") >> ]]

(* Kinds that share nothing are looked at one by one.                      *)
MCPopulations ==
    {{tempest}, {longtempest}, {ansible}, {longhorizon}, {tobiko},
     {tobiko2, horizon}, {tempest3}, {ansible3}, {horizon3},
     {clashtempest}, {clashtobiko}, {clashansible}}

(* Objects that are missing when the instance is created, or are taken     *)
(* away: looked for in every step, in one step, or not at all; a key in a  *)
(* Secret.                                                                 *)
MCLacking ==
    { UserObject(tempest3, "OpenStackConfigSecret", "main"),
      UserObject(tempest3, "SSHKeySecretName", "main"),
      KeyIn(tempest3, "SSHKeySecretName", "step"),
      UserObject(ansible3, "OpenStackConfigMap", "main"),
      UserObject(ansible3, "WorkloadSSHKeySecretName", "main"),
      UserObject(horizon3, "KubeconfigSecretName", "main") }
MCWithdrawable ==
    { UserObject(tempest3, "SSHKeySecretName", "step"),
      UserObject(ansible3, "ExtraConfigmapsMounts", "extra-of-spec"),
      UserObject(horizon3, "OpenStackConfigMap", "main") }

(* All fields of a spec alike, but for those filled in, and all fields of  *)
(* a step alike.                                                           *)
Main(i, value) ==
    [f \in Fields(MCKind[i]) |-> IF f \in FilledIn THEN "main" ELSE value]
AllOf(i, value) == [f \in StepFields(MCKind[i]) |-> value]
Manifest(main, workflow) == [main |-> main, workflow |-> workflow]

(* With a workflow, debug mode is off in Tempest and Tobiko.               *)
NoDebug(i, main) ==
    IF MCKind[i] = "AnsibleTest" THEN main ELSE [main EXCEPT !["Debug"] = "empty"]

Plain(i) == <<Manifest(Main(i, "main"), <<>>), Manifest(Main(i, "empty"), <<>>)>>

OneAllOf(i, step) ==
    << Manifest(NoDebug(i, Main(i, "main")), <<AllOf(i, step)>>),
       Manifest(NoDebug(i, Main(i, "empty")), <<AllOf(i, step)>>) >>

(* Two steps of which one overrides and one inherits.                      *)
TwoSteps(i) ==
    <<Manifest(NoDebug(i, Main(i, "main")), <<AllOf(i, "step"), AllOf(i, "omitted")>>)>>

(* Two steps, one after the other, with one claim for both.                *)
SerialSteps(i) ==
    <<Manifest([NoDebug(i, Main(i, "main")) EXCEPT !["Parallel"] = "empty"],
               <<AllOf(i, "omitted"), AllOf(i, "omitted")>>)>>

(* In debug mode, which is refused.                                        *)
Debugging(i) == <<Manifest(Main(i, "main"), <<AllOf(i, "omitted")>>)>>

(* With one key of the two.                                                *)
OneKey(i) == <<Manifest([Main(i, "main") EXCEPT !["PrivateKey"] = "empty"], <<>>)>>

Workflows(i) ==
    OneAllOf(i, "omitted") \o OneAllOf(i, "empty") \o OneAllOf(i, "step")
      \o TwoSteps(i) \o Debugging(i)

MCManifests ==
    [i \in Instances |->
       CASE i = tobiko2     -> TwoSteps(i)
         [] i = horizon     -> <<Plain(i)[1]>>
         [] i = longhorizon -> Plain(i)
         [] i = tempest3    -> TwoSteps(i)
         [] i \in {ansible3, horizon3} -> <<Plain(i)[1]>>
         [] i \in {clashtempest, clashtobiko, clashansible} -> Plain(i) \o TwoSteps(i)
         [] i = tobiko      -> OneKey(i) \o Workflows(i) \o SerialSteps(i)
         [] OTHER           -> Plain(i) \o Workflows(i)]
=============================================================================
