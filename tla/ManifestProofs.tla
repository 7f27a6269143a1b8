--------------------------- MODULE ManifestProofs ---------------------------
(***************************************************************************)
(* Proofs about pods that hold for every manifest and whatever names the   *)
(* user chooses, and not only for those of a model: the API server accepts *)
(* each pod but for known reasons, and a pod carries what its step and its *)
(* spec say of the options that are part of it.                            *)
(***************************************************************************)
EXTENDS BuildProofs, FiniteSetTheorems

-----------------------------------------------------------------------------
(* Lists of volumes and mounts are concatenations of pieces.  Such a list  *)
(* has the values V in a field.                                            *)
Has(s, field, V) == (\E S : s \in Seq(S)) /\ Values(s, field) = V

LEMMA HasNothing == ASSUME NEW field PROVE Has(<<>>, field, {})
BY DEF Has, Values

LEMMA HasOne ==
  ASSUME NEW x, NEW field PROVE Has(<<x>>, field, {x[field]})
<1>1. <<x>> \in Seq({x}) /\ DOMAIN <<x>> = {1} /\ <<x>>[1] = x
  OBVIOUS
<1>2. Values(<<x>>, field) = {x[field]}
  BY <1>1 DEF Values
<1> QED
  BY <1>1, <1>2 DEF Has

LEMMA HasTwo ==
  ASSUME NEW x, NEW y, NEW field PROVE Has(<<x, y>>, field, {x[field], y[field]})
<1>1. <<x, y>> \in Seq({x, y}) /\ DOMAIN <<x, y>> = {1, 2}
      /\ <<x, y>>[1] = x /\ <<x, y>>[2] = y
  OBVIOUS
<1>2. Values(<<x, y>>, field) = {x[field], y[field]}
  BY <1>1 DEF Values
<1> QED
  BY <1>1, <1>2 DEF Has

LEMMA HasBoth ==
  ASSUME NEW s, NEW t, NEW field, NEW V, NEW W, Has(s, field, V), Has(t, field, W)
  PROVE  Has(s \o t, field, V \cup W)
<1>1. PICK S : s \in Seq(S)
  BY DEF Has
<1>2. PICK T : t \in Seq(T)
  BY DEF Has
<1>3. s \in Seq(S \cup T) /\ t \in Seq(S \cup T)
  BY <1>1, <1>2
<1>4. /\ s \o t \in Seq(S \cup T)
      /\ Len(s \o t) = Len(s) + Len(t)
      /\ \A n \in 1 .. Len(s) : (s \o t)[n] = s[n]
      /\ \A n \in 1 .. Len(t) : (s \o t)[Len(s) + n] = t[n]
  BY <1>3
<1>5. Values(s \o t, field) = V \cup W
  <2>1. ASSUME NEW v \in Values(s \o t, field) PROVE v \in V \cup W
    <3>1. PICK n \in 1 .. Len(s) + Len(t) : v = (s \o t)[n][field]
      BY <1>4, <2>1 DEF Values
    <3>2. CASE n <= Len(s)
      BY <1>3, <1>4, <3>1, <3>2 DEF Has, Values
    <3>3. CASE n > Len(s)
      <4>1. n - Len(s) \in 1 .. Len(t) /\ n = Len(s) + (n - Len(s))
        BY <1>3, <3>1, <3>3
      <4> QED
        BY <1>3, <1>4, <3>1, <4>1 DEF Has, Values
    <3> QED
      BY <1>3, <3>1, <3>2, <3>3
  <2>2. ASSUME NEW v \in V PROVE v \in Values(s \o t, field)
    <3>1. PICK n \in 1 .. Len(s) : v = s[n][field]
      BY <1>3, <2>2 DEF Has, Values
    <3>2. n \in 1 .. Len(s) + Len(t)
      BY <1>3, <3>1
    <3> QED
      BY <1>3, <1>4, <3>1, <3>2 DEF Values
  <2>3. ASSUME NEW v \in W PROVE v \in Values(s \o t, field)
    <3>1. PICK n \in 1 .. Len(t) : v = t[n][field]
      BY <1>3, <2>3 DEF Has, Values
    <3>2. Len(s) + n \in 1 .. Len(s) + Len(t)
      BY <1>3, <3>1
    <3> QED
      BY <1>3, <1>4, <3>1, <3>2 DEF Values
  <2> QED
    BY <2>1, <2>2, <2>3
<1> QED
  BY <1>4, <1>5 DEF Has

(* No two elements of such a list have one value.                          *)
Separate(s, field, V) ==
    /\ Has(s, field, V)
    /\ IsFiniteSet(V)
    /\ Cardinality(V) = Len(s)

LEMMA SeparateOne ==
  ASSUME NEW x, NEW field PROVE Separate(<<x>>, field, {x[field]})
BY HasOne, FS_Singleton DEF Separate

LEMMA SeparateBoth ==
  ASSUME NEW s, NEW t, NEW field, NEW V, NEW W,
         Separate(s, field, V), Separate(t, field, W), V \cap W = {}
  PROVE  Separate(s \o t, field, V \cup W)
<1>1. Has(s \o t, field, V \cup W)
  BY HasBoth DEF Separate
<1>2. IsFiniteSet(V \cup W) /\ Cardinality(V \cup W) = Cardinality(V) + Cardinality(W)
  <2>1. Cardinality(V \cap W) = 0
    BY FS_EmptySet
  <2>2. Cardinality(V) \in Nat /\ Cardinality(W) \in Nat
    BY FS_CardinalityType DEF Separate
  <2>3. IsFiniteSet(V) /\ IsFiniteSet(W)
    BY DEF Separate
  <2>4. /\ IsFiniteSet(V \cup W)
        /\ Cardinality(V \cup W) =
             Cardinality(V) + Cardinality(W) - Cardinality(V \cap W)
    BY <2>3, FS_Union
  <2> QED
    BY <2>1, <2>2, <2>4
<1>3. Len(s \o t) = Len(s) + Len(t)
  BY DEF Separate, Has
<1> QED
  BY <1>1, <1>2, <1>3 DEF Separate

LEMMA SeparateTwo ==
  ASSUME NEW x, NEW y, NEW field, x[field] # y[field]
  PROVE  Separate(<<x, y>>, field, {x[field], y[field]})
<1>1. \A u, v : u # v => IsFiniteSet({u, v}) /\ Cardinality({u, v}) = 2
  <2> SUFFICES ASSUME NEW u, NEW v, u # v
               PROVE  IsFiniteSet({u, v}) /\ Cardinality({u, v}) = 2
    OBVIOUS
  <2>1. IsFiniteSet({u}) /\ Cardinality({u}) = 1 /\ v \notin {u}
    BY FS_Singleton
  <2>2. IsFiniteSet({u} \cup {v}) /\ Cardinality({u} \cup {v}) = Cardinality({u}) + 1
    BY <2>1, FS_AddElement, Zenon
  <2>3. {u} \cup {v} = {u, v}
    OBVIOUS
  <2> QED
    BY <2>1, <2>2, <2>3
<1> QED
  BY <1>1, HasTwo DEF Separate

OnlyIf(c, V) == IF c THEN V ELSE {}

LEMMA SeparateWhen ==
  ASSUME NEW s, NEW field, NEW V, Separate(s, field, V), NEW c
  PROVE  Separate(When(c, s), field, OnlyIf(c, V))
<1>1. Separate(<<>>, field, {})
  BY HasNothing, FS_EmptySet DEF Separate
<1> QED
  BY <1>1 DEF When, OnlyIf

LEMMA HasWhen ==
  ASSUME NEW s, NEW field, NEW V, Has(s, field, V), NEW c
  PROVE  Has(When(c, s), field, OnlyIf(c, V))
BY HasNothing DEF When, OnlyIf

LEMMA DistinctList ==
  ASSUME NEW s, NEW field, NEW V, Separate(s, field, V)
  PROVE  Distinct(s, field) /\ Values(s, field) = V
BY DEF Separate, Has, Distinct

LEMMA VolumeFields ==
  ASSUME NEW n, NEW x
  PROVE  /\ Volume(n, x)["name"] = n
         /\ Mount(n, x)["name"] = n /\ Mount(n, x)["path"] = x
BY DEF Volume, Mount

LEMMA SeparateFour ==
  ASSUME NEW u, NEW v, NEW x, NEW y, NEW field,
         u[field] # v[field], x[field] # y[field],
         {u[field], v[field]} \cap {x[field], y[field]} = {}
  PROVE  Separate(<<u, v, x, y>>, field, {u[field], v[field], x[field], y[field]})
<1> DEFINE V == {u[field], v[field]}
           W == {x[field], y[field]}
<1>1. Separate(<<u, v>> \o <<x, y>>, field, V \cup W)
  <2>1. Separate(<<u, v>>, field, V) /\ Separate(<<x, y>>, field, W)
    BY SeparateTwo
  <2> HIDE DEF V, W
  <2> QED
    BY <2>1, SeparateBoth DEF V, W
<1>2. IsFiniteSet(V \cup W) /\ Cardinality(V \cup W) = 4
  BY <1>1 DEF Separate
<1>3. V \cup W = {u[field], v[field], x[field], y[field]}
  OBVIOUS
<1>4. /\ <<u, v, x, y>> \in Seq({u, v, x, y}) /\ DOMAIN <<u, v, x, y>> = {1, 2, 3, 4}
      /\ <<u, v, x, y>>[1] = u /\ <<u, v, x, y>>[2] = v
      /\ <<u, v, x, y>>[3] = x /\ <<u, v, x, y>>[4] = y
  OBVIOUS
<1>5. Values(<<u, v, x, y>>, field) = {u[field], v[field], x[field], y[field]}
  BY <1>4 DEF Values
<1> QED
  BY <1>2, <1>3, <1>4, <1>5 DEF Separate, Has

(* The same for volumes, by their names, and for mounts, by their paths.   *)
LEMMA OneVolume ==
  ASSUME NEW n, NEW x, NEW c
  PROVE  /\ Separate(<<Volume(n, x)>>, "name", {n})
         /\ Separate(When(c, <<Volume(n, x)>>), "name", OnlyIf(c, {n}))
<1>1. Separate(<<Volume(n, x)>>, "name", {n})
  BY VolumeFields, SeparateOne
<1> QED
  BY <1>1, SeparateWhen

LEMMA TwoVolumes ==
  ASSUME NEW m, NEW n, m # n, NEW x, NEW y, NEW c
  PROVE  /\ Separate(<<Volume(m, x), Volume(n, y)>>, "name", {m, n})
         /\ Separate(When(c, <<Volume(m, x), Volume(n, y)>>), "name", OnlyIf(c, {m, n}))
<1>1. Volume(m, x)["name"] = m /\ Volume(n, y)["name"] = n
  BY VolumeFields
<1>2. Separate(<<Volume(m, x), Volume(n, y)>>, "name", {m, n})
  BY <1>1, SeparateTwo
<1> QED
  BY <1>2, SeparateWhen

LEMMA OneMount ==
  ASSUME NEW n, NEW x, NEW c
  PROVE  /\ Separate(<<Mount(n, x)>>, "path", {x})
         /\ Separate(When(c, <<Mount(n, x)>>), "path", OnlyIf(c, {x}))
         /\ Has(<<Mount(n, x)>>, "name", {n})
         /\ Has(When(c, <<Mount(n, x)>>), "name", OnlyIf(c, {n}))
<1>1. Separate(<<Mount(n, x)>>, "path", {x}) /\ Has(<<Mount(n, x)>>, "name", {n})
  BY VolumeFields, SeparateOne, HasOne
<1> QED
  BY <1>1, SeparateWhen, HasWhen

LEMMA TwoMounts ==
  ASSUME NEW m, NEW n, NEW x, NEW y, x # y, NEW c
  PROVE  /\ Separate(<<Mount(m, x), Mount(n, y)>>, "path", {x, y})
         /\ Separate(When(c, <<Mount(m, x), Mount(n, y)>>), "path", OnlyIf(c, {x, y}))
         /\ Has(<<Mount(m, x), Mount(n, y)>>, "name", {m, n})
         /\ Has(When(c, <<Mount(m, x), Mount(n, y)>>), "name", OnlyIf(c, {m, n}))
<1>1. /\ Mount(m, x)["name"] = m /\ Mount(n, y)["name"] = n
      /\ Mount(m, x)["path"] = x /\ Mount(n, y)["path"] = y
  BY VolumeFields
<1>2. /\ Separate(<<Mount(m, x), Mount(n, y)>>, "path", {x, y})
      /\ Has(<<Mount(m, x), Mount(n, y)>>, "name", {m, n})
  BY <1>1, SeparateTwo, HasTwo
<1> QED
  BY <1>2, SeparateWhen, HasWhen

-----------------------------------------------------------------------------
(* Lists that the user gives: nothing in them repeats if it is distinct.   *)
LEMMA HasValues ==
  ASSUME NEW S, NEW s \in Seq(S), NEW field
  PROVE  Has(s, field, Values(s, field)) /\ IsFiniteSet(Values(s, field))
<1>1. Has(s, field, Values(s, field))
  BY DEF Has
<1>2. IsFiniteSet(1 .. Len(s))
  BY FS_Interval
<1>3. IsFiniteSet({s[n][field] : n \in 1 .. Len(s)})
  <2> DEFINE D == 1 .. Len(s)
             T == {s[n][field] : n \in D}
             h == [n \in D |-> s[n][field]]
  <2>1. h \in Surjection(D, T)
    BY DEF Surjection
  <2> HIDE DEF D, T, h
  <2>2. IsFiniteSet(T)
    BY <1>2, <2>1, FS_Surjection DEF D
  <2> QED
    BY <2>2 DEF D, T
<1>4. Values(s, field) = {s[n][field] : n \in 1 .. Len(s)}
  BY DEF Values
<1> QED
  BY <1>1, <1>3, <1>4

LEMMA SeparateIfDistinct ==
  ASSUME NEW S, NEW s \in Seq(S), NEW field, Distinct(s, field)
  PROVE  Separate(s, field, Values(s, field))
BY HasValues DEF Separate, Distinct

-----------------------------------------------------------------------------
(* The names that users give to the two objects of CommonOpenstackConfig.  *)
ConfigMapName(i) == OpenstackName[i]["OpenStackConfigMap"]
SecretName(i) == OpenstackName[i]["OpenStackConfigSecret"]

LEMMA UserNamesOfKind ==
  ASSUME NEW i \in Instances
  PROVE  /\ Kind[i] \in {"Tempest", "AnsibleTest"} =>
              /\ UserNames(i) = {ConfigMapName(i), SecretName(i)}
              /\ ~UsesClouds(i)
         /\ Kind[i] \in {"Tobiko", "HorizonTest"} =>
              UserNames(i) = {SecretName(i)} /\ UsesClouds(i)
<1> USE DEF UserNames, UsesClouds, CommonOpenstackConfig, ConfigMapName, SecretName
<1>1. CASE Kind[i] \in {"Tempest", "AnsibleTest"}
  BY <1>1
<1>2. CASE Kind[i] \in {"Tobiko", "HorizonTest"}
  BY <1>2
<1> QED
  BY <1>1, <1>2, KindAssumption DEF Kinds

(* The names of the volumes of a kind, and the paths of its mounts.        *)
KindNames(i, merged) ==
    CASE Kind[i] = "Tempest" ->
            {"config-data", ConfigMapName(i)}
              \cup OnlyIf(Given(merged["SSHKeySecretName"]), {"ssh-key"})
      [] Kind[i] = "Tobiko" ->
            {"tobiko-config", "test-operator-clouds-config"}
              \cup OnlyIf(mountKeys(merged), {"tobiko-private-key", "tobiko-public-key"})
              \cup OnlyIf(Given(merged["KubeconfigSecretName"]), {"kubeconfig"})
      [] Kind[i] = "HorizonTest" ->
            {"horizontest-config", "test-operator-clouds-config"}
              \cup OnlyIf(Given(merged["KubeconfigSecretName"]), {"kubeconfig"})
      [] Kind[i] = "AnsibleTest" ->
            {ConfigMapName(i), "compute-ssh-secret"}
              \cup OnlyIf(Given(merged["WorkloadSSHKeySecretName"]),
                         {"workload-ssh-secret"})

(* The user has not given these objects a name that the operator uses.     *)
OwnNamesFree(i) == UserNames(i) \cap OperatorNames[Kind[i]] = {}

LEMMA KindVolumesSeparate ==
  ASSUME NEW i \in Instances, NEW merged, NEW k, OwnNamesFree(i)
  PROVE  Separate(KindVolumes(i, merged, k), "name", KindNames(i, merged))
<1> DEFINE Ssh == OnlyIf(Given(merged["SSHKeySecretName"]), {"ssh-key"})
           Keys == OnlyIf(mountKeys(merged), {"tobiko-private-key", "tobiko-public-key"})
           Kube == OnlyIf(Given(merged["KubeconfigSecretName"]), {"kubeconfig"})
           Workload == OnlyIf(Given(merged["WorkloadSSHKeySecretName"]),
                              {"workload-ssh-secret"})
<1>1. /\ Ssh \subseteq {"ssh-key"} /\ Keys \subseteq {"tobiko-private-key", "tobiko-public-key"}
      /\ Kube \subseteq {"kubeconfig"} /\ Workload \subseteq {"workload-ssh-secret"}
  BY DEF OnlyIf
<1>2. CASE Kind[i] = "Tempest"
  <2>0. /\ "config-data" # ConfigMapName(i) /\ "ssh-key" # ConfigMapName(i)
        /\ CreateOpenstackConfigMapVolume(i, merged) =
             Volume(ConfigMapName(i), Named(i, merged, "OpenStackConfigMap"))
    BY <1>2, UserNamesOfKind DEF OwnNamesFree, OperatorNames,
       CreateOpenstackConfigMapVolume, ConfigMapName
  <2>1. Separate(<< Volume("config-data", OwnConfigMap(i, "custom-data", k)),
                    CreateOpenstackConfigMapVolume(i, merged) >>,
                 "name", {"config-data", ConfigMapName(i)})
    BY <2>0, TwoVolumes
  <2>2. Separate(When(Given(merged["SSHKeySecretName"]),
                      <<Volume("ssh-key", Named(i, merged, "SSHKeySecretName"))>>),
                 "name", Ssh)
    BY OneVolume
  <2> HIDE DEF Ssh
  <2>3. {"config-data", ConfigMapName(i)} \cap Ssh = {}
    BY <1>1, <2>0
  <2>4. Separate(TempestVolumes(i, merged, k), "name",
                 {"config-data", ConfigMapName(i)} \cup Ssh)
    BY <2>1, <2>2, <2>3, SeparateBoth DEF TempestVolumes
  <2> QED
    BY <1>2, <2>4 DEF KindVolumes, KindNames, Ssh
<1>3. CASE Kind[i] = "Tobiko"
  <2>1. Separate(<< Volume("tobiko-config", OwnConfigMap(i, "config", k)),
                    Volume("test-operator-clouds-config", CloudsConfigMap) >>,
                 "name", {"tobiko-config", "test-operator-clouds-config"})
    BY TwoVolumes
  <2>2. Separate(When(mountKeys(merged),
                      << Volume("tobiko-private-key", OwnConfigMap(i, "private-key", k)),
                         Volume("tobiko-public-key", OwnConfigMap(i, "public-key", k)) >>),
                 "name", Keys)
    BY TwoVolumes
  <2>3. Separate(When(Given(merged["KubeconfigSecretName"]),
                      <<Volume("kubeconfig", Named(i, merged, "KubeconfigSecretName"))>>),
                 "name", Kube)
    BY OneVolume
  <2> HIDE DEF Keys, Kube
  <2>4. /\ {"tobiko-config", "test-operator-clouds-config"} \cap Keys = {}
        /\ ({"tobiko-config", "test-operator-clouds-config"} \cup Keys) \cap Kube = {}
    BY <1>1
  <2>5. Separate(TobikoVolumes(i, merged, k), "name",
                 ({"tobiko-config", "test-operator-clouds-config"} \cup Keys) \cup Kube)
    BY <2>1, <2>2, <2>3, <2>4, SeparateBoth DEF TobikoVolumes
  <2> QED
    BY <1>3, <2>5 DEF KindVolumes, KindNames, Keys, Kube
<1>4. CASE Kind[i] = "HorizonTest"
  <2>1. Separate(<< Volume("horizontest-config", OwnConfigMap(i, "horizontest", 0)),
                    Volume("test-operator-clouds-config", CloudsConfigMap) >>,
                 "name", {"horizontest-config", "test-operator-clouds-config"})
    BY TwoVolumes
  <2>2. Separate(When(Given(merged["KubeconfigSecretName"]),
                      <<Volume("kubeconfig", Named(i, merged, "KubeconfigSecretName"))>>),
                 "name", Kube)
    BY OneVolume
  <2> HIDE DEF Kube
  <2>3. {"horizontest-config", "test-operator-clouds-config"} \cap Kube = {}
    BY <1>1
  <2>4. Separate(HorizonTestVolumes(i, merged), "name",
                 {"horizontest-config", "test-operator-clouds-config"} \cup Kube)
    BY <2>1, <2>2, <2>3, SeparateBoth DEF HorizonTestVolumes
  <2> QED
    BY <1>4, <2>4 DEF KindVolumes, KindNames, Kube
<1>5. CASE Kind[i] = "AnsibleTest"
  <2>0. /\ "compute-ssh-secret" # ConfigMapName(i) /\ "workload-ssh-secret" # ConfigMapName(i)
        /\ CreateOpenstackConfigMapVolume(i, merged) =
             Volume(ConfigMapName(i), Named(i, merged, "OpenStackConfigMap"))
    BY <1>5, UserNamesOfKind DEF OwnNamesFree, OperatorNames,
       CreateOpenstackConfigMapVolume, ConfigMapName
  <2>1. Separate(<< CreateOpenstackConfigMapVolume(i, merged),
                    Volume("compute-ssh-secret",
                           Named(i, merged, "ComputeSSHKeySecretName")) >>,
                 "name", {ConfigMapName(i), "compute-ssh-secret"})
    BY <2>0, TwoVolumes
  <2>2. Separate(When(Given(merged["WorkloadSSHKeySecretName"]),
                      <<Volume("workload-ssh-secret",
                               Named(i, merged, "WorkloadSSHKeySecretName"))>>),
                 "name", Workload)
    BY OneVolume
  <2> HIDE DEF Workload
  <2>3. {ConfigMapName(i), "compute-ssh-secret"} \cap Workload = {}
    BY <1>1, <2>0
  <2>4. Separate(AnsibleTestVolumes(i, merged), "name",
                 {ConfigMapName(i), "compute-ssh-secret"} \cup Workload)
    BY <2>1, <2>2, <2>3, SeparateBoth DEF AnsibleTestVolumes
  <2> QED
    BY <1>5, <2>4 DEF KindVolumes, KindNames, Workload
<1> QED
  BY <1>2, <1>3, <1>4, <1>5, KindAssumption DEF Kinds

(* All paths at which volumes of a kind are mounted.                       *)
KindPaths ==
    { "/etc/test_operator", "tobiko.conf", "/etc/clouds.yaml", "~/clouds.yaml",
      "id_ecdsa", "id_ecdsa.pub", ".kube/config", ".ssh/compute_id",
      "test_keypair.key" }

LEMMA KindMountsSeparate ==
  ASSUME NEW i \in Instances, NEW merged
  PROVE  /\ \E P \in SUBSET (KindPaths \cap OperatorPaths[Kind[i]]) :
               Separate(KindMounts(i, merged), "path", P)
         /\ \E N \in SUBSET KindNames(i, merged) : Has(KindMounts(i, merged), "name", N)
<1> DEFINE Ssh(V) == OnlyIf(Given(merged["SSHKeySecretName"]), V)
           Keys(V) == OnlyIf(mountKeys(merged), V)
           Kube(V) == OnlyIf(Given(merged["KubeconfigSecretName"]), V)
           Workload(V) == OnlyIf(Given(merged["WorkloadSSHKeySecretName"]), V)
           Clouds == {"/etc/clouds.yaml", "~/clouds.yaml"}
<1>1. \A V : /\ Ssh(V) \subseteq V /\ Keys(V) \subseteq V
             /\ Kube(V) \subseteq V /\ Workload(V) \subseteq V
  BY DEF OnlyIf
<1>2. \A n : /\ Separate(CloudsMounts(n), "path", Clouds)
             /\ Has(CloudsMounts(n), "name", {n, n})
  BY TwoMounts DEF CloudsMounts
<1>3. /\ Separate(When(Given(merged["SSHKeySecretName"]), <<Mount("ssh-key", "id_ecdsa")>>),
                  "path", Ssh({"id_ecdsa"}))
      /\ Has(When(Given(merged["SSHKeySecretName"]), <<Mount("ssh-key", "id_ecdsa")>>),
             "name", Ssh({"ssh-key"}))
  BY OneMount
<1>4. /\ Separate(When(Given(merged["KubeconfigSecretName"]),
                       <<Mount("kubeconfig", ".kube/config")>>),
                  "path", Kube({".kube/config"}))
      /\ Has(When(Given(merged["KubeconfigSecretName"]),
                  <<Mount("kubeconfig", ".kube/config")>>),
             "name", Kube({"kubeconfig"}))
  BY OneMount
<1>5. /\ Separate(When(mountKeys(merged), << Mount("tobiko-private-key", "id_ecdsa"),
                                             Mount("tobiko-public-key", "id_ecdsa.pub") >>),
                  "path", Keys({"id_ecdsa", "id_ecdsa.pub"}))
      /\ Has(When(mountKeys(merged), << Mount("tobiko-private-key", "id_ecdsa"),
                                        Mount("tobiko-public-key", "id_ecdsa.pub") >>),
             "name", Keys({"tobiko-private-key", "tobiko-public-key"}))
  BY TwoMounts
<1>6. /\ Separate(When(Given(merged["WorkloadSSHKeySecretName"]),
                       <<Mount("workload-ssh-secret", "test_keypair.key")>>),
                  "path", Workload({"test_keypair.key"}))
      /\ Has(When(Given(merged["WorkloadSSHKeySecretName"]),
                  <<Mount("workload-ssh-secret", "test_keypair.key")>>),
             "name", Workload({"workload-ssh-secret"}))
  BY OneMount
<1>7. CASE Kind[i] = "Tempest"
  <2>1. /\ Separate(<<Mount("config-data", "/etc/test_operator")>>,
                    "path", {"/etc/test_operator"})
        /\ Has(<<Mount("config-data", "/etc/test_operator")>>, "name", {"config-data"})
    BY OneMount
  <2>2. KindNames(i, merged) = {"config-data", ConfigMapName(i)} \cup Ssh({"ssh-key"})
    BY <1>7 DEF KindNames
  <2>3. KindMounts(i, merged) = TempestMounts(i, merged)
    BY <1>7 DEF KindMounts
  <2> HIDE DEF Ssh, Clouds
  <2>4. Has(TempestMounts(i, merged), "name",
            ({"config-data"} \cup {ConfigMapName(i), ConfigMapName(i)})
              \cup Ssh({"ssh-key"}))
    BY <1>2, <1>3, <2>1, HasBoth DEF TempestMounts, ConfigMapName
  <2>5. /\ {"/etc/test_operator"} \cap Clouds = {}
        /\ ({"/etc/test_operator"} \cup Clouds) \cap Ssh({"id_ecdsa"}) = {}
    BY <1>1 DEF Clouds
  <2>6. Separate(TempestMounts(i, merged), "path",
                 ({"/etc/test_operator"} \cup Clouds) \cup Ssh({"id_ecdsa"}))
    BY <1>2, <1>3, <2>1, <2>5, SeparateBoth DEF TempestMounts, ConfigMapName
  <2>7. ({"/etc/test_operator"} \cup Clouds) \cup Ssh({"id_ecdsa"}) \subseteq
          KindPaths \cap OperatorPaths[Kind[i]]
    BY <1>1, <1>7 DEF Clouds, KindPaths, OperatorPaths, CommonPaths
  <2>8. ({"config-data"} \cup {ConfigMapName(i), ConfigMapName(i)})
          \cup Ssh({"ssh-key"}) \subseteq KindNames(i, merged)
    BY <2>2
  <2> QED
    BY <2>3, <2>4, <2>6, <2>7, <2>8
<1>8. CASE Kind[i] = "Tobiko"
  <2>1. /\ Separate(<<Mount("tobiko-config", "tobiko.conf")>>, "path", {"tobiko.conf"})
        /\ Has(<<Mount("tobiko-config", "tobiko.conf")>>, "name", {"tobiko-config"})
    BY OneMount
  <2>2. KindNames(i, merged) = {"tobiko-config", "test-operator-clouds-config"}
          \cup Keys({"tobiko-private-key", "tobiko-public-key"}) \cup Kube({"kubeconfig"})
    BY <1>8 DEF KindNames
  <2>3. KindMounts(i, merged) = TobikoMounts(merged)
    BY <1>8 DEF KindMounts
  <2> HIDE DEF Keys, Kube, Clouds
  <2>4. Has(TobikoMounts(merged), "name",
            (({"tobiko-config"} \cup {"test-operator-clouds-config", "test-operator-clouds-config"})
              \cup Keys({"tobiko-private-key", "tobiko-public-key"})) \cup Kube({"kubeconfig"}))
    BY <1>2, <1>4, <1>5, <2>1, HasBoth DEF TobikoMounts
  <2>5. /\ {"tobiko.conf"} \cap Clouds = {}
        /\ ({"tobiko.conf"} \cup Clouds) \cap Keys({"id_ecdsa", "id_ecdsa.pub"}) = {}
        /\ (({"tobiko.conf"} \cup Clouds) \cup Keys({"id_ecdsa", "id_ecdsa.pub"}))
             \cap Kube({".kube/config"}) = {}
    BY <1>1 DEF Clouds
  <2>6. Separate(TobikoMounts(merged), "path",
                 (({"tobiko.conf"} \cup Clouds) \cup Keys({"id_ecdsa", "id_ecdsa.pub"}))
                   \cup Kube({".kube/config"}))
    BY <1>2, <1>4, <1>5, <2>1, <2>5, SeparateBoth DEF TobikoMounts
  <2>7. (({"tobiko.conf"} \cup Clouds) \cup Keys({"id_ecdsa", "id_ecdsa.pub"}))
          \cup Kube({".kube/config"}) \subseteq
          KindPaths \cap OperatorPaths[Kind[i]]
    BY <1>1, <1>8 DEF Clouds, KindPaths, OperatorPaths, CommonPaths
  <2>8. (({"tobiko-config"} \cup {"test-operator-clouds-config", "test-operator-clouds-config"})
          \cup Keys({"tobiko-private-key", "tobiko-public-key"})) \cup Kube({"kubeconfig"})
          \subseteq KindNames(i, merged)
    BY <2>2
  <2> QED
    BY <2>3, <2>4, <2>6, <2>7, <2>8
<1>9. CASE Kind[i] = "HorizonTest"
  <2>1. KindNames(i, merged) = {"horizontest-config", "test-operator-clouds-config"} \cup Kube({"kubeconfig"})
    BY <1>9 DEF KindNames
  <2>2. KindMounts(i, merged) = HorizonTestMounts(merged)
    BY <1>9 DEF KindMounts
  <2> HIDE DEF Kube, Clouds
  <2>3. Has(HorizonTestMounts(merged), "name", {"test-operator-clouds-config", "test-operator-clouds-config"} \cup Kube({"kubeconfig"}))
    BY <1>2, <1>4, HasBoth DEF HorizonTestMounts
  <2>4. Clouds \cap Kube({".kube/config"}) = {}
    BY <1>1 DEF Clouds
  <2>5. Separate(HorizonTestMounts(merged), "path", Clouds \cup Kube({".kube/config"}))
    BY <1>2, <1>4, <2>4, SeparateBoth DEF HorizonTestMounts
  <2>6. Clouds \cup Kube({".kube/config"}) \subseteq
          KindPaths \cap OperatorPaths[Kind[i]]
    BY <1>1, <1>9 DEF Clouds, KindPaths, OperatorPaths, CommonPaths
  <2>7. {"test-operator-clouds-config", "test-operator-clouds-config"} \cup Kube({"kubeconfig"}) \subseteq KindNames(i, merged)
    BY <2>1
  <2> QED
    BY <2>2, <2>3, <2>5, <2>6, <2>7
<1>10. CASE Kind[i] = "AnsibleTest"
  <2>1. /\ Separate(<<Mount("compute-ssh-secret", ".ssh/compute_id")>>,
                    "path", {".ssh/compute_id"})
        /\ Has(<<Mount("compute-ssh-secret", ".ssh/compute_id")>>,
               "name", {"compute-ssh-secret"})
    BY OneMount
  <2>2. KindNames(i, merged) = {ConfigMapName(i), "compute-ssh-secret"}
                                 \cup Workload({"workload-ssh-secret"})
    BY <1>10 DEF KindNames
  <2>3. KindMounts(i, merged) = AnsibleTestMounts(i, merged)
    BY <1>10 DEF KindMounts
  <2> HIDE DEF Workload, Clouds
  <2>4. Has(AnsibleTestMounts(i, merged), "name",
            ({ConfigMapName(i), ConfigMapName(i)} \cup {"compute-ssh-secret"})
              \cup Workload({"workload-ssh-secret"}))
    BY <1>2, <1>6, <2>1, HasBoth DEF AnsibleTestMounts, ConfigMapName
  <2>5. /\ Clouds \cap {".ssh/compute_id"} = {}
        /\ (Clouds \cup {".ssh/compute_id"}) \cap Workload({"test_keypair.key"}) = {}
    BY <1>1 DEF Clouds
  <2>6. Separate(AnsibleTestMounts(i, merged), "path",
                 (Clouds \cup {".ssh/compute_id"}) \cup Workload({"test_keypair.key"}))
    BY <1>2, <1>6, <2>1, <2>5, SeparateBoth DEF AnsibleTestMounts, ConfigMapName
  <2>7. (Clouds \cup {".ssh/compute_id"}) \cup Workload({"test_keypair.key"})
          \subseteq
          KindPaths \cap OperatorPaths[Kind[i]]
    BY <1>1, <1>10 DEF Clouds, KindPaths, OperatorPaths, CommonPaths
  <2>8. ({ConfigMapName(i), ConfigMapName(i)} \cup {"compute-ssh-secret"})
          \cup Workload({"workload-ssh-secret"}) \subseteq KindNames(i, merged)
    BY <2>2
  <2> QED
    BY <2>3, <2>4, <2>6, <2>7, <2>8
<1> QED
  BY <1>7, <1>8, <1>9, <1>10, KindAssumption DEF Kinds

-----------------------------------------------------------------------------
(* What the user lists has the names that the volumes get.                 *)
ExtraNames(i, merged) == Values(UserVolumes(i, merged), "name")

LEMMA SameValues ==
  ASSUME NEW S, NEW s \in Seq(S), NEW T, NEW t \in Seq(T), NEW field,
         Len(t) = Len(s), \A n \in 1 .. Len(s) : t[n][field] = s[n][field]
  PROVE  Has(t, field, Values(s, field))
<1>1. DOMAIN s = 1 .. Len(s) /\ DOMAIN t = 1 .. Len(s)
  OBVIOUS
<1>2. Values(t, field) = Values(s, field)
  BY <1>1 DEF Values
<1> QED
  BY <1>2 DEF Has

LEMMA LengthOfBoth ==
  ASSUME NEW S, NEW s \in Seq(S), NEW T, NEW t \in Seq(T)
  PROVE  Len(s \o t) = Len(s) + Len(t)
<1>1. s \in Seq(S \cup T) /\ t \in Seq(S \cup T)
  OBVIOUS
<1> QED
  BY <1>1

(* The lists of the user, and the volumes that are made of them.           *)
Lists(i, merged, a, b, m, u, v) ==
    /\ UserVolumes(i, merged) = a \o b /\ UserMounts(i, merged) = m \o b
    /\ ExtraVolumes(i, merged) = u \o v /\ ExtraVolumeMounts(i, merged) = m \o b
    /\ a \in Seq([name : STRING]) /\ b \in Seq(Mounts) /\ m \in Seq(Mounts)
    /\ Len(u) = Len(a) /\ Has(u, "name", Values(a, "name"))
    /\ Len(v) = Len(b) /\ Has(v, "name", Values(b, "name"))

LEMMA UserLists ==
  ASSUME NEW i \in Instances, NEW merged
  PROVE  \E a, b, m, u, v : Lists(i, merged, a, b, m, u, v)
<1> DEFINE c == Given(merged["ExtraMounts"])
           d == Given(merged["ExtraConfigmapsMounts"])
           cms == ExtraConfigmaps[i][merged["ExtraConfigmapsMounts"]]
           a == IF c THEN ExtraMounts[i].volumes ELSE <<>>
           b == IF d THEN cms ELSE <<>>
           m == IF c THEN ExtraMounts[i].mounts ELSE <<>>
           u == AppendExtraMountsVolumes(i, merged["ExtraMounts"])
           v == AppendExtraConfigmapsVolumes(i, merged["ExtraConfigmapsMounts"])
<1>1. /\ ExtraMounts[i].volumes \in Seq([name : STRING])
      /\ ExtraMounts[i].mounts \in Seq(Mounts)
  BY ExtraMountsAssumption
<1>2. d => cms \in Seq(Mounts)
  BY ExtraConfigmapsAssumption DEF Given
<1>3. a \in Seq([name : STRING]) /\ b \in Seq(Mounts) /\ m \in Seq(Mounts)
  BY <1>1, <1>2
<1>4. Len(u) = Len(a) /\ Has(u, "name", Values(a, "name"))
  <2>1. CASE c
    <3> DEFINE s == ExtraMounts[i].volumes
    <3>1. u = [n \in 1 .. Len(s) |-> Volume(s[n].name, Elsewhere)]
      BY <1>1, <2>1 DEF AppendExtraMountsVolumes, When
    <3>2. \A n \in 1 .. Len(s) : u[n]["name"] = s[n]["name"]
      BY <3>1 DEF Volume
    <3>3. u \in Seq({Volume(s[n].name, Elsewhere) : n \in 1 .. Len(s)})
      BY <1>1, <3>1
    <3>4. Len(u) = Len(s)
      BY <1>1, <3>1
    <3>5. a = s
      BY <2>1
    <3> HIDE DEF u, a, s
    <3>6. s \in Seq([name : STRING])
      BY <1>1 DEF s
    <3>7. Has(u, "name", Values(s, "name"))
      BY <3>2, <3>3, <3>4, <3>6, SameValues
    <3> QED
      BY <3>4, <3>5, <3>7
  <2>2. CASE ~c
    <3>1. u = <<>> /\ a = <<>>
      BY <2>2 DEF AppendExtraMountsVolumes, When
    <3> QED
      BY <3>1, HasNothing DEF Has
  <2> QED
    BY <2>1, <2>2
<1>5. Len(v) = Len(b) /\ Has(v, "name", Values(b, "name"))
  <2>1. CASE d
    <3> DEFINE made(n) == Volume(cms[n].name,
                                 UserObject(i, "ExtraConfigmapsMounts", cms[n].name))
    <3>1. v = [n \in 1 .. Len(cms) |-> made(n)]
      BY <1>2, <2>1 DEF AppendExtraConfigmapsVolumes, When
    <3>2. \A n \in 1 .. Len(cms) : v[n]["name"] = cms[n]["name"]
      BY <3>1 DEF Volume
    <3>3. v \in Seq({made(n) : n \in 1 .. Len(cms)})
      BY <1>2, <2>1, <3>1
    <3>4. Len(v) = Len(cms)
      BY <1>2, <2>1, <3>1
    <3>5. b = cms
      BY <2>1
    <3>6. cms \in Seq(Mounts)
      BY <1>2, <2>1
    <3> HIDE DEF v, b, cms, made
    <3>7. Has(v, "name", Values(cms, "name"))
      BY <3>2, <3>3, <3>4, <3>6, SameValues
    <3> QED
      BY <3>4, <3>5, <3>7
  <2>2. CASE ~d
    <3>1. v = <<>> /\ b = <<>>
      BY <2>2 DEF AppendExtraConfigmapsVolumes, When
    <3> QED
      BY <3>1, HasNothing DEF Has
  <2> QED
    BY <2>1, <2>2
<1>6. /\ UserVolumes(i, merged) = a \o b /\ UserMounts(i, merged) = m \o b
      /\ ExtraVolumes(i, merged) = u \o v /\ ExtraVolumeMounts(i, merged) = m \o b
  BY DEF UserVolumes, UserMounts, ExtraVolumes, ExtraVolumeMounts,
     AppendExtraMountsVolumeMounts, AppendExtraConfigmapsVolumeMounts, When
<1> HIDE DEF a, b, m, u, v
<1>7. Lists(i, merged, a, b, m, u, v)
  BY <1>3, <1>4, <1>5, <1>6 DEF Lists
<1> QED
  BY <1>7

LEMMA ExtrasSeparate ==
  ASSUME NEW i \in Instances, NEW merged,
         ~NamesClash(i, merged), ~MountsClash(i, merged)
  PROVE  /\ Separate(ExtraVolumes(i, merged), "name", ExtraNames(i, merged))
         /\ Has(ExtraVolumeMounts(i, merged), "name",
                Values(UserMounts(i, merged), "name"))
         /\ Separate(ExtraVolumeMounts(i, merged), "path",
                     Values(UserMounts(i, merged), "path"))
<1>0. PICK a, b, m, u, v : Lists(i, merged, a, b, m, u, v)
  BY UserLists
<1>1. /\ UserVolumes(i, merged) = a \o b /\ UserMounts(i, merged) = m \o b
      /\ ExtraVolumes(i, merged) = u \o v /\ ExtraVolumeMounts(i, merged) = m \o b
      /\ a \in Seq([name : STRING]) /\ b \in Seq(Mounts) /\ m \in Seq(Mounts)
      /\ Len(u) = Len(a) /\ Has(u, "name", Values(a, "name"))
      /\ Len(v) = Len(b) /\ Has(v, "name", Values(b, "name"))
  BY <1>0 DEF Lists
<1>2. /\ Distinct(UserVolumes(i, merged), "name")
      /\ Distinct(UserMounts(i, merged), "path")
  BY DEF NamesClash, MountsClash
<1>3. Has(a \o b, "name", Values(a, "name") \cup Values(b, "name"))
  BY <1>1, HasValues, HasBoth
<1>4. ExtraNames(i, merged) = Values(a, "name") \cup Values(b, "name")
  BY <1>1, <1>3 DEF ExtraNames, Has
<1>5. Has(ExtraVolumes(i, merged), "name", ExtraNames(i, merged))
  <2>1. Has(u \o v, "name", Values(a, "name") \cup Values(b, "name"))
    BY <1>1, HasBoth
  <2> QED
    BY <1>1, <1>4, <2>1
<1>6. Len(ExtraVolumes(i, merged)) = Len(UserVolumes(i, merged))
  <2>1. PICK S : u \in Seq(S)
    BY <1>1 DEF Has
  <2>2. PICK T : v \in Seq(T)
    BY <1>1 DEF Has
  <2>3. Len(u \o v) = Len(u) + Len(v)
    BY <2>1, <2>2, LengthOfBoth
  <2>4. Len(a \o b) = Len(a) + Len(b)
    BY <1>1, LengthOfBoth, Zenon
  <2> QED
    BY <1>1, <2>3, <2>4
<1>7. Separate(UserVolumes(i, merged), "name", ExtraNames(i, merged))
  <2>1. \E S : UserVolumes(i, merged) \in Seq(S)
    BY <1>1, <1>3 DEF Has
  <2> QED
    BY <1>2, <2>1, SeparateIfDistinct DEF ExtraNames
<1>8. Separate(ExtraVolumes(i, merged), "name", ExtraNames(i, merged))
  BY <1>5, <1>6, <1>7 DEF Separate
<1>9. m \o b \in Seq(Mounts)
  BY <1>1
<1> QED
  BY <1>1, <1>2, <1>8, <1>9, HasValues, SeparateIfDistinct

-----------------------------------------------------------------------------
(* The rest of the lists is the same for all kinds.                        *)
SharedNames(i) ==
    { SecretName(i), "test-operator-logs", "test-operator-ephemeral-workdir",
      "test-operator-ephemeral-temporary" }
SharedPaths == {"secure.yaml", "external_files", "workdir", "/tmp"}

(* All names of the volumes of a pod.                                      *)
VolumeNames(i, merged, certs) ==
    ((KindNames(i, merged) \cup SharedNames(i)) \cup OnlyIf(certs, {"ca-certs"}))
      \cup ExtraNames(i, merged)

LEMMA NamesApart ==
  ASSUME NEW i \in Instances, NEW merged, ~NamesClash(i, merged)
  PROVE  /\ OwnNamesFree(i)
         /\ SecretName(i) \notin OperatorNames[Kind[i]]
         /\ KindNames(i, merged) \cap SharedNames(i) = {}
         /\ "ca-certs" \notin KindNames(i, merged) \cup SharedNames(i)
         /\ KindNames(i, merged) \cup SharedNames(i) \cup {"ca-certs"} \subseteq
              OperatorNames[Kind[i]] \cup UserNames(i)
         /\ UserNames(i) \subseteq KindNames(i, merged) \cup SharedNames(i)
<1>1. OwnNamesFree(i)
  BY DEF NamesClash, OwnNamesFree
<1>2. ~UsesClouds(i) => ConfigMapName(i) # SecretName(i)
  BY DEF NamesClash, ConfigMapName, SecretName
<1> USE DEF SharedNames
<1>3. CASE Kind[i] = "Tempest"
  <2>1. UserNames(i) = {ConfigMapName(i), SecretName(i)} /\ ~UsesClouds(i)
    BY <1>3, UserNamesOfKind
  <2>2. OperatorNames[Kind[i]] = CommonNames \cup {"config-data", "ssh-key"}
    BY <1>3 DEF OperatorNames
  <2>3. PICK V \in SUBSET {"ssh-key"} :
          KindNames(i, merged) = {"config-data", ConfigMapName(i)} \cup V
    BY <1>3 DEF KindNames, OnlyIf
  <2> QED
    BY <1>1, <1>2, <2>1, <2>2, <2>3 DEF OwnNamesFree, CommonNames
<1>4. CASE Kind[i] = "Tobiko"
  <2>1. UserNames(i) = {SecretName(i)}
    BY <1>4, UserNamesOfKind
  <2>2. OperatorNames[Kind[i]] = CommonNames
          \cup { "tobiko-config", "tobiko-private-key", "tobiko-public-key", "kubeconfig",
                 "test-operator-clouds-config" }
    BY <1>4 DEF OperatorNames
  <2>3. PICK V \in SUBSET {"tobiko-private-key", "tobiko-public-key", "kubeconfig"} :
          KindNames(i, merged) = {"tobiko-config", "test-operator-clouds-config"} \cup V
    <3>1. KindNames(i, merged) = {"tobiko-config", "test-operator-clouds-config"} \cup
            (OnlyIf(mountKeys(merged), {"tobiko-private-key", "tobiko-public-key"})
               \cup OnlyIf(Given(merged["KubeconfigSecretName"]), {"kubeconfig"}))
      BY <1>4 DEF KindNames
    <3>2. OnlyIf(mountKeys(merged), {"tobiko-private-key", "tobiko-public-key"})
            \cup OnlyIf(Given(merged["KubeconfigSecretName"]), {"kubeconfig"})
            \subseteq {"tobiko-private-key", "tobiko-public-key", "kubeconfig"}
      BY DEF OnlyIf
    <3> QED
      BY <3>1, <3>2
  <2> QED
    BY <1>1, <2>1, <2>2, <2>3 DEF OwnNamesFree, CommonNames
<1>5. CASE Kind[i] = "HorizonTest"
  <2>1. UserNames(i) = {SecretName(i)}
    BY <1>5, UserNamesOfKind
  <2>2. OperatorNames[Kind[i]] = CommonNames
          \cup {"horizontest-config", "kubeconfig", "test-operator-clouds-config"}
    BY <1>5 DEF OperatorNames
  <2>3. PICK V \in SUBSET {"kubeconfig"} :
          KindNames(i, merged) = {"horizontest-config", "test-operator-clouds-config"} \cup V
    BY <1>5 DEF KindNames, OnlyIf
  <2> QED
    BY <1>1, <2>1, <2>2, <2>3 DEF OwnNamesFree, CommonNames
<1>6. CASE Kind[i] = "AnsibleTest"
  <2>1. UserNames(i) = {ConfigMapName(i), SecretName(i)} /\ ~UsesClouds(i)
    BY <1>6, UserNamesOfKind
  <2>2. OperatorNames[Kind[i]] =
          CommonNames \cup {"compute-ssh-secret", "workload-ssh-secret"}
    BY <1>6 DEF OperatorNames
  <2>3. PICK V \in SUBSET {"workload-ssh-secret"} :
          KindNames(i, merged) = {ConfigMapName(i), "compute-ssh-secret"} \cup V
    BY <1>6 DEF KindNames, OnlyIf
  <2> QED
    BY <1>1, <1>2, <2>1, <2>2, <2>3 DEF OwnNamesFree, CommonNames
<1> QED
  BY <1>3, <1>4, <1>5, <1>6, KindAssumption DEF Kinds

LEMMA VolumesAccepted ==
  ASSUME NEW i \in Instances, NEW spec, NEW k, NEW certs \in BOOLEAN,
         ~StepExtras(i, spec, k),
         ~NamesClash(i, StepSpec(Kind[i], spec, k)),
         ~MountsClash(i, StepSpec(Kind[i], spec, k))
  PROVE  /\ Separate(GetVolumes(i, spec, k, certs), "name",
                     VolumeNames(i, StepSpec(Kind[i], spec, k), certs))
         /\ VolumeNames(i, StepSpec(Kind[i], spec, k), certs) \cap NotLabels = {}
<1> DEFINE merged == StepSpec(Kind[i], spec, k)
           common == << CreateOpenstackConfigSecretVolume(i, merged),
                        Volume("test-operator-logs", LogsClaim(i, pvcIndex(i, spec, k))),
                        Volume("test-operator-ephemeral-workdir", Elsewhere),
                        Volume("test-operator-ephemeral-temporary", Elsewhere) >>
           ca == When(certs, <<Volume("ca-certs", Elsewhere)>>)
           last == When(StepExtras(i, spec, k), AppendExtraConfigmapsVolumes(i, "step"))
           Certs == OnlyIf(certs, {"ca-certs"})
<1>1. GetVolumes(i, spec, k, certs) =
        ((((KindVolumes(i, merged, k) \o common) \o ca) \o ExtraVolumes(i, merged)) \o last)
  BY DEF GetVolumes
<1>2. Separate(common, "name", SharedNames(i))
  <2>1. SecretName(i) \notin CommonNames
    <3>1. SecretName(i) \notin OperatorNames[Kind[i]]
      BY NamesApart
    <3>2. CommonNames \subseteq OperatorNames[Kind[i]]
      BY KindAssumption DEF OperatorNames, Kinds
    <3> QED
      BY <3>1, <3>2
  <2>2. CreateOpenstackConfigSecretVolume(i, merged)["name"] = SecretName(i)
    BY VolumeFields DEF CreateOpenstackConfigSecretVolume, SecretName
  <2>3. \A x : /\ Volume("test-operator-logs", x)["name"] = "test-operator-logs"
               /\ Volume("test-operator-ephemeral-workdir", x)["name"] =
                    "test-operator-ephemeral-workdir"
               /\ Volume("test-operator-ephemeral-temporary", x)["name"] =
                    "test-operator-ephemeral-temporary"
    BY VolumeFields
  <2> QED
    BY <2>1, <2>2, <2>3, SeparateFour DEF SharedNames, CommonNames
<1>3. Separate(ca, "name", Certs)
  BY OneVolume
<1>4. Separate(last, "name", {})
  BY HasNothing, FS_EmptySet DEF Separate, When
<1>5. Separate(KindVolumes(i, merged, k), "name", KindNames(i, merged))
  BY NamesApart, KindVolumesSeparate
<1>6. Separate(ExtraVolumes(i, merged), "name", ExtraNames(i, merged))
  BY ExtrasSeparate
<1>7. /\ KindNames(i, merged) \cap SharedNames(i) = {}
      /\ "ca-certs" \notin KindNames(i, merged) \cup SharedNames(i)
      /\ KindNames(i, merged) \cup SharedNames(i) \cup {"ca-certs"} \subseteq
           OperatorNames[Kind[i]] \cup UserNames(i)
  BY NamesApart
<1>8. /\ ExtraNames(i, merged) \cap UserNames(i) = {}
      /\ (ExtraNames(i, merged) \cup UserNames(i))
           \cap (OperatorNames[Kind[i]] \cup NotLabels) = {}
  BY DEF NamesClash, ExtraNames
<1>9. Certs \subseteq {"ca-certs"}
  BY DEF OnlyIf
<1>10. OperatorNames[Kind[i]] \cap NotLabels = {}
  BY NotLabelsAssumption, KindAssumption
<1>11. VolumeNames(i, merged, certs) =
         ((KindNames(i, merged) \cup SharedNames(i)) \cup Certs) \cup ExtraNames(i, merged)
  BY DEF VolumeNames
<1> HIDE DEF merged, common, ca, last, Certs
<1>12. /\ (KindNames(i, merged) \cup SharedNames(i)) \cap Certs = {}
       /\ ((KindNames(i, merged) \cup SharedNames(i)) \cup Certs)
            \cap ExtraNames(i, merged) = {}
       /\ VolumeNames(i, merged, certs) \cap {} = {}
  BY <1>7, <1>8, <1>9
<1>13. Separate(((KindVolumes(i, merged, k) \o common) \o ca) \o ExtraVolumes(i, merged),
                "name", VolumeNames(i, merged, certs))
  <2>1. Separate(KindVolumes(i, merged, k) \o common, "name",
                 KindNames(i, merged) \cup SharedNames(i))
    BY <1>2, <1>5, <1>7, SeparateBoth
  <2>2. Separate((KindVolumes(i, merged, k) \o common) \o ca, "name",
                 (KindNames(i, merged) \cup SharedNames(i)) \cup Certs)
    BY <1>3, <1>12, <2>1, SeparateBoth
  <2> QED
    BY <1>6, <1>11, <1>12, <2>2, SeparateBoth
<1>14. Separate(GetVolumes(i, spec, k, certs), "name",
                VolumeNames(i, merged, certs) \cup {})
  BY <1>1, <1>4, <1>12, <1>13, SeparateBoth
<1>15. VolumeNames(i, merged, certs) \cup {} = VolumeNames(i, merged, certs)
  OBVIOUS
<1>16. VolumeNames(i, merged, certs) \cap NotLabels = {}
  BY <1>7, <1>8, <1>9, <1>10, <1>11
<1> QED
  BY <1>14, <1>15, <1>16 DEF merged

LEMMA MountsAccepted ==
  ASSUME NEW i \in Instances, NEW spec, NEW k, NEW certs \in BOOLEAN,
         ~StepExtras(i, spec, k),
         ~NamesClash(i, StepSpec(Kind[i], spec, k)),
         ~MountsClash(i, StepSpec(Kind[i], spec, k))
  PROVE  /\ \E P : Separate(GetVolumeMounts(i, spec, k, certs), "path", P)
         /\ \E N \in SUBSET VolumeNames(i, StepSpec(Kind[i], spec, k), certs) :
               Has(GetVolumeMounts(i, spec, k, certs), "name", N)
<1> DEFINE merged == StepSpec(Kind[i], spec, k)
           kind == KindMounts(i, merged)
           common == << Mount(OpenstackName[i]["OpenStackConfigSecret"], "secure.yaml"),
                        Mount("test-operator-logs", "external_files"),
                        Mount("test-operator-ephemeral-workdir", "workdir"),
                        Mount("test-operator-ephemeral-temporary", "/tmp") >>
           ca == When(certs, <<Mount("ca-certs", "tls-ca-bundle.pem")>>)
           trust == When(certs /\ Kind[i] # "Tempest",
                         <<Mount("ca-certs", "ca-bundle.trust.crt")>>)
           extra == ExtraVolumeMounts(i, merged)
           last == When(StepExtras(i, spec, k), AppendExtraConfigmapsVolumeMounts(i, "step"))
           CA == OnlyIf(certs, {"tls-ca-bundle.pem"})
           Trust == OnlyIf(certs /\ Kind[i] # "Tempest", {"ca-bundle.trust.crt"})
           Certs == OnlyIf(certs, {"ca-certs"})
           TrustCerts == OnlyIf(certs /\ Kind[i] # "Tempest", {"ca-certs"})
           X == Values(UserMounts(i, merged), "path")
           M == Values(UserMounts(i, merged), "name")
<1>1. GetVolumeMounts(i, spec, k, certs) =
        (((((kind \o common) \o ca) \o trust) \o extra) \o last)
  BY DEF GetVolumeMounts
<1>2. Separate(common, "path", SharedPaths) /\ Has(common, "name", SharedNames(i))
  <2>1. Separate(common, "path", SharedPaths)
    BY SeparateFour, VolumeFields DEF SharedPaths
  <2>2. Has(common, "name", SharedNames(i))
    <3> DEFINE one == << Mount(OpenstackName[i]["OpenStackConfigSecret"], "secure.yaml"),
                         Mount("test-operator-logs", "external_files") >>
               two == << Mount("test-operator-ephemeral-workdir", "workdir"),
                         Mount("test-operator-ephemeral-temporary", "/tmp") >>
    <3>1. /\ Has(one, "name", {SecretName(i), "test-operator-logs"})
          /\ Has(two, "name", { "test-operator-ephemeral-workdir",
                                "test-operator-ephemeral-temporary" })
      BY TwoMounts DEF SecretName
    <3>2. common = one \o two
      OBVIOUS
    <3>3. SharedNames(i) = {SecretName(i), "test-operator-logs"} \cup
             {"test-operator-ephemeral-workdir", "test-operator-ephemeral-temporary"}
      BY DEF SharedNames
    <3> HIDE DEF one, two, common
    <3>4. Has(one \o two, "name", {SecretName(i), "test-operator-logs"} \cup
             {"test-operator-ephemeral-workdir", "test-operator-ephemeral-temporary"})
      BY <3>1, HasBoth
    <3> QED
      BY <3>2, <3>3, <3>4
  <2> QED
    BY <2>1, <2>2
<1>3. /\ Separate(ca, "path", CA) /\ Has(ca, "name", Certs)
      /\ Separate(trust, "path", Trust) /\ Has(trust, "name", TrustCerts)
  BY OneMount
<1>4. Separate(last, "path", {}) /\ Has(last, "name", {})
  BY HasNothing, FS_EmptySet DEF Separate, When
<1>5. PICK P \in SUBSET (KindPaths \cap OperatorPaths[Kind[i]]) : Separate(kind, "path", P)
  BY KindMountsSeparate
<1>6. PICK N \in SUBSET KindNames(i, merged) : Has(kind, "name", N)
  BY KindMountsSeparate
<1>7. Separate(extra, "path", X) /\ Has(extra, "name", M)
  BY ExtrasSeparate
<1>8. /\ X \cap OperatorPaths[Kind[i]] = {}
      /\ M \subseteq ExtraNames(i, merged) \cup UserNames(i)
  BY DEF MountsClash, ExtraNames
<1>9. /\ CA \subseteq {"tls-ca-bundle.pem"} /\ Trust \subseteq {"ca-bundle.trust.crt"}
      /\ TrustCerts \subseteq Certs
  BY DEF OnlyIf
<1>10. VolumeNames(i, merged, certs) =
         ((KindNames(i, merged) \cup SharedNames(i)) \cup Certs) \cup ExtraNames(i, merged)
  BY DEF VolumeNames
<1>11. SharedPaths \cup {"tls-ca-bundle.pem", "ca-bundle.trust.crt"} \subseteq
         OperatorPaths[Kind[i]]
  BY KindAssumption DEF SharedPaths, OperatorPaths, CommonPaths, Kinds
<1>12. UserNames(i) \subseteq KindNames(i, merged) \cup SharedNames(i)
  BY NamesApart
<1> HIDE DEF merged, kind, common, ca, trust, extra, last, CA, Trust, Certs, TrustCerts, X, M
<1>13. /\ P \cap SharedPaths = {}
       /\ (P \cup SharedPaths) \cap CA = {}
       /\ ((P \cup SharedPaths) \cup CA) \cap Trust = {}
  BY <1>5, <1>9 DEF KindPaths, SharedPaths
<1>14. /\ (((P \cup SharedPaths) \cup CA) \cup Trust) \cap X = {}
       /\ ((((P \cup SharedPaths) \cup CA) \cup Trust) \cup X) \cap {} = {}
  BY <1>5, <1>8, <1>9, <1>11
<1>15. Separate(((((kind \o common) \o ca) \o trust) \o extra) \o last, "path",
                ((((P \cup SharedPaths) \cup CA) \cup Trust) \cup X) \cup {})
  <2>1. Separate((kind \o common) \o ca, "path", (P \cup SharedPaths) \cup CA)
    BY <1>2, <1>3, <1>5, <1>13, SeparateBoth
  <2>2. Separate((((kind \o common) \o ca) \o trust) \o extra, "path",
                 (((P \cup SharedPaths) \cup CA) \cup Trust) \cup X)
    BY <1>3, <1>7, <1>13, <1>14, <2>1, SeparateBoth
  <2> QED
    BY <1>4, <1>14, <2>2, SeparateBoth
<1>16. Has(((((kind \o common) \o ca) \o trust) \o extra) \o last, "name",
           ((((N \cup SharedNames(i)) \cup Certs) \cup TrustCerts) \cup M) \cup {})
  <2>1. Has((kind \o common) \o ca, "name", (N \cup SharedNames(i)) \cup Certs)
    BY <1>2, <1>3, <1>6, HasBoth
  <2>2. Has((((kind \o common) \o ca) \o trust) \o extra, "name",
            (((N \cup SharedNames(i)) \cup Certs) \cup TrustCerts) \cup M)
    BY <1>3, <1>7, <2>1, HasBoth
  <2> QED
    BY <1>4, <2>2, HasBoth
<1>17. ((((N \cup SharedNames(i)) \cup Certs) \cup TrustCerts) \cup M) \cup {}
         \subseteq VolumeNames(i, merged, certs)
  BY <1>6, <1>8, <1>9, <1>10, <1>12
<1> QED
  BY <1>1, <1>15, <1>16, <1>17 DEF merged

(* The pods of an instance whose name the webhook accepted, for any spec   *)
(* that a manifest may have.                                               *)
LEMMA AcceptedUnlessKnown ==
  ASSUME NEW i \in Instances, NEW g \in DOMAIN Manifests[i],
         NEW k \in Steps(SpecOf(i, g)), NEW certs \in BOOLEAN,
         Kind[i] # "HorizonTest" => ValidatePodName(i),
         ~KnownRejection(i, SpecOf(i, g), k)
  PROVE  Accepted(i, BuildTestPod(i, SpecOf(i, g), k, certs))
<1> DEFINE spec == SpecOf(i, g)
           merged == StepSpec(Kind[i], spec, k)
           pod == BuildTestPod(i, spec, k, certs)
<1>1. ~StepExtras(i, spec, k) /\ ~NamesClash(i, merged) /\ ~MountsClash(i, merged)
  BY DEF KnownRejection
<1>2. /\ Distinct(GetVolumes(i, spec, k, certs), "name")
      /\ Values(GetVolumes(i, spec, k, certs), "name") = VolumeNames(i, merged, certs)
      /\ VolumeNames(i, merged, certs) \cap NotLabels = {}
  BY <1>1, VolumesAccepted, DistinctList
<1>3. /\ Distinct(GetVolumeMounts(i, spec, k, certs), "path")
      /\ Values(GetVolumeMounts(i, spec, k, certs), "name") \subseteq
           VolumeNames(i, merged, certs)
  BY <1>1, MountsAccepted, DistinctList DEF Has
<1>4. ContainerNameLength(i) <= DNS1123LabelMaxLength
  BY NameLengthAssumption DEF ContainerNameLength, KnownRejection, ValidatePodName,
     DNS1123LabelMaxLength
<1>5. GetContainerImage(i, merged) # "empty"
  <2>1. CASE Kind[i] = "HorizonTest"
    <3>1. merged = spec.main
      BY <2>1 DEF StepSpec, Config, HorizonTestConfig
    <3>2. Given(merged["ContainerImage"])
      BY <2>1, <3>1 DEF KnownRejection
    <3> QED
      BY <3>2 DEF GetContainerImage, Given
  <2>2. CASE Kind[i] # "HorizonTest"
    <3>1. Kind[i] \in RelatedImages
      BY <2>2, KindAssumption DEF Kinds, RelatedImages
    <3> QED
      BY <3>1 DEF GetContainerImage, Given
  <2> QED
    BY <2>1, <2>2
<1>6. /\ pod.Image = GetContainerImage(i, merged)
      /\ pod.Volumes = GetVolumes(i, spec, k, certs)
      /\ pod.VolumeMounts = GetVolumeMounts(i, spec, k, certs)
  BY DEF BuildTestPod
<1> HIDE DEF pod, merged, spec
<1>7. Accepted(i, pod)
  BY <1>2, <1>3, <1>4, <1>5, <1>6 DEF Accepted
<1> QED
  BY <1>7 DEF pod, spec

(* Only custom resources whose name was validated have passes: a spec is   *)
(* updated without a check, but a name cannot change.                      *)
NamesValidated ==
    \A i \in Instances : (crs[i] # 0 \/ pc[i] # "idle") /\ Kind[i] # "HorizonTest"
       => ValidatePodName(i)

LEMMA NamesValidatedHolds == Spec => []NamesValidated
<1>1. Init => NamesValidated
  BY DEF Init, NamesValidated
<1>2. UserInv /\ PodsShaped /\ PassesShaped /\ NamesValidated /\ [Next]_vars => NamesValidated'
  <2> SUFFICES ASSUME UserInv, PodsShaped, PassesShaped, NamesValidated, [Next]_vars,
                      NEW j \in Instances, crs'[j] # 0 \/ pc'[j] # "idle",
                      Kind[j] # "HorizonTest"
               PROVE  ValidatePodName(j)
    BY DEF NamesValidated, ValidatePodName
  <2>1. CASE crs[j] # 0 \/ pc[j] # "idle"
    BY <2>1 DEF NamesValidated
  <2>2. CASE crs[j] = 0 /\ pc[j] = "idle"
    <3>1. pc'[j] = "idle"
      BY <2>2, PassStep DEF Ends, Proceeds, StartPass, Exists
    <3>2. crs'[j] # 0
      BY <3>1
    <3>3. Create(j)
      <4>1. crs' = crs \/ \E i \in Instances : Create(i) \/ Update(i)
        BY DEF Next, vars, User, Delete, Pass, Recreate, StartPass, ValidateInputs,
               EnsureLogsPVCExists, EnsureCloudsConfigMapExists, CreateClouds,
               generateServiceConfigMaps, generateServiceConfigMapsFails, BuildPod,
               Collect, Kubelet, StartPod, EndPod, RemovePod, Provide, Withdraw,
               SyncClouds, CollectClouds, crVars
      <4>2. PICK i \in Instances : Create(i) \/ Update(i)
        BY <2>2, <3>2, <4>1
      <4>3. \A m \in Instances \ {i} : crs'[m] = crs[m]
        BY <4>2 DEF Create, Update, UserInv
      <4>4. i = j
        BY <2>2, <3>2, <4>3
      <4> QED
        BY <2>2, <4>2, <4>4 DEF Update, Exists
    <3> QED
      BY <3>3, KindAssumption DEF Create, ValidateCreate, ValidateTempest, ValidateTobiko,
         ValidateAnsibleTest, Kinds
  <2> QED
    BY <2>1, <2>2
<1> QED
  BY <1>1, <1>2, ShapesHold, PTL DEF Spec

(* A pod that a pass builds is accepted by the API server, from whatever   *)
(* manifest and at whatever step, unless for one of the reasons that are   *)
(* known (KnownRejection): the lists of volumes and of mounts agree and    *)
(* repeat nothing, there is an image, and the name fits (GetVolumes and    *)
(* GetVolumeMounts of the four kinds, volumes.go; ValidateCreate).         *)
THEOREM PodsAreAccepted ==
  ASSUME NamesDiffer
  PROVE  Spec => []PodsAccepted
<1>1. PassesShaped /\ ManifestInv /\ NamesValidated => PodsAccepted
  <2> SUFFICES ASSUME PassesShaped, ManifestInv, NamesValidated,
                      NEW i \in Instances, pc[i] = "create", NEW certs \in BOOLEAN,
                      ~KnownRejection(i, SpecInHand(i), mem[i].step)
               PROVE  Built[i][mem[i].cr][mem[i].step][certs].accepted
    BY DEF PodsAccepted
  <2>1. /\ mem[i].cr \in DOMAIN Manifests[i]
        /\ mem[i].step \in Steps(SpecOf(i, mem[i].cr))
    BY DEF ManifestInv, PassesOfManifests, SpecInHand
  <2>2. Accepted(i, BuildTestPod(i, SpecOf(i, mem[i].cr), mem[i].step, certs))
    BY <2>1, AcceptedUnlessKnown DEF NamesValidated, SpecInHand
  <2> QED
    BY <2>1, <2>2 DEF Built, SpecOf
<1> QED
  BY <1>1, ManifestInvHolds, NamesValidatedHolds, PTL DEF AloneInv

-----------------------------------------------------------------------------
(* What lists of volumes and mounts consist of.                            *)
Consists(s, V) == (\E S : s \in Seq(S)) /\ Range(s) = V

LEMMA ListOfOne ==
  ASSUME NEW x PROVE Consists(<<x>>, {x})
<1>1. <<x>> \in Seq({x}) /\ DOMAIN <<x>> = {1} /\ <<x>>[1] = x
  OBVIOUS
<1> QED
  BY <1>1 DEF Consists, Range

LEMMA ListOfTwo ==
  ASSUME NEW x, NEW y PROVE Consists(<<x, y>>, {x, y})
<1>1. /\ <<x, y>> \in Seq({x, y}) /\ DOMAIN <<x, y>> = {1, 2}
      /\ <<x, y>>[1] = x /\ <<x, y>>[2] = y
  OBVIOUS
<1> QED
  BY <1>1 DEF Consists, Range

LEMMA ListOfFour ==
  ASSUME NEW u, NEW v, NEW x, NEW y
  PROVE  Consists(<<u, v, x, y>>, {u, v, x, y})
<1>1. /\ <<u, v, x, y>> \in Seq({u, v, x, y}) /\ DOMAIN <<u, v, x, y>> = {1, 2, 3, 4}
      /\ <<u, v, x, y>>[1] = u /\ <<u, v, x, y>>[2] = v
      /\ <<u, v, x, y>>[3] = x /\ <<u, v, x, y>>[4] = y
  OBVIOUS
<1> QED
  BY <1>1 DEF Consists, Range

LEMMA ListOfBoth ==
  ASSUME NEW s, NEW t, NEW V, NEW W, Consists(s, V), Consists(t, W)
  PROVE  Consists(s \o t, V \cup W)
<1>1. PICK S : s \in Seq(S)
  BY DEF Consists
<1>2. PICK T : t \in Seq(T)
  BY DEF Consists
<1>3. s \in Seq(S \cup T) /\ t \in Seq(S \cup T)
  BY <1>1, <1>2
<1>4. /\ s \o t \in Seq(S \cup T)
      /\ Len(s \o t) = Len(s) + Len(t)
      /\ \A n \in 1 .. Len(s) : (s \o t)[n] = s[n]
      /\ \A n \in 1 .. Len(t) : (s \o t)[Len(s) + n] = t[n]
      /\ Len(s) \in Nat /\ Len(t) \in Nat
  BY <1>3
<1>5. /\ DOMAIN s = 1 .. Len(s) /\ DOMAIN t = 1 .. Len(t)
      /\ DOMAIN (s \o t) = 1 .. Len(s) + Len(t)
  BY <1>3, <1>4
<1>6. ASSUME NEW x \in Range(s \o t) PROVE x \in Range(s) \cup Range(t)
  <2>1. PICK n \in 1 .. Len(s) + Len(t) : x = (s \o t)[n]
    BY <1>5, <1>6 DEF Range
  <2>2. CASE n <= Len(s)
    BY <1>4, <1>5, <2>1, <2>2 DEF Range
  <2>3. CASE n > Len(s)
    <3>1. n - Len(s) \in 1 .. Len(t) /\ n = Len(s) + (n - Len(s))
      BY <1>4, <2>1, <2>3
    <3>2. x = t[n - Len(s)]
      BY <1>4, <2>1, <3>1
    <3> QED
      BY <1>5, <3>1, <3>2 DEF Range
  <2> QED
    BY <1>4, <2>1, <2>2, <2>3
<1>7. ASSUME NEW x \in Range(s) PROVE x \in Range(s \o t)
  <2>1. PICK n \in 1 .. Len(s) : x = s[n]
    BY <1>5, <1>7 DEF Range
  <2>2. n \in 1 .. Len(s) + Len(t) /\ (s \o t)[n] = x
    BY <1>4, <2>1
  <2> QED
    BY <1>5, <2>2 DEF Range
<1>8. ASSUME NEW x \in Range(t) PROVE x \in Range(s \o t)
  <2>1. PICK n \in 1 .. Len(t) : x = t[n]
    BY <1>5, <1>8 DEF Range
  <2>2. Len(s) + n \in 1 .. Len(s) + Len(t) /\ (s \o t)[Len(s) + n] = x
    BY <1>4, <2>1
  <2> QED
    BY <1>5, <2>2 DEF Range
<1>9. Range(s \o t) = Range(s) \cup Range(t)
  BY <1>6, <1>7, <1>8
<1> QED
  BY <1>4, <1>9 DEF Consists

LEMMA ListOfThree ==
  ASSUME NEW s, NEW t, NEW u, NEW A, NEW B, NEW C,
         Consists(s, A), Consists(t, B), Consists(u, C)
  PROVE  Consists((s \o t) \o u, (A \cup B) \cup C)
<1>1. Consists(s \o t, A \cup B)
  BY ListOfBoth
<1> QED
  BY <1>1, ListOfBoth

LEMMA ListWhen ==
  ASSUME NEW s, NEW c, NEW V, Consists(s, V)
  PROVE  Consists(When(c, s), OnlyIf(c, V))
<1>1. <<>> \in Seq({}) /\ Range(<<>>) = {}
  BY DEF Range
<1> QED
  BY <1>1 DEF Consists, When, OnlyIf

LEMMA ListWhenOne ==
  ASSUME NEW x, NEW c PROVE Consists(When(c, <<x>>), OnlyIf(c, {x}))
BY ListOfOne, ListWhen

(* The object that field h names is among them, and mounted.               *)
Mounted(i, merged, h, V, M) ==
    \E v \in V, m \in M : v.source = UserObject(i, h, merged[h]) /\ m.name = v.name

(* Objects that no option is about, and those that a field names.          *)
Unnamed(x) == x \notin UserObjects \/ x[2] \notin MountedOptions
OfField(i, merged, x) ==
    \E h \in ReferringFields : Given(merged[h]) /\ x = UserObject(i, h, merged[h])

LEMMA OwnObjects ==
  ASSUME NEW i, NEW k
  PROVE  /\ \A infix \in {"custom-data", "config", "private-key", "public-key",
                          "horizontest"} : Unnamed(OwnConfigMap(i, infix, k))
         /\ Unnamed(LogsClaim(i, k)) /\ Unnamed(Elsewhere) /\ Unnamed(CloudsConfigMap)
<1>1. \A infix : OwnConfigMap(i, infix, k)[2] = infix
  BY DEF OwnConfigMap
<1>2. LogsClaim(i, k)[2] = "logs"
  BY DEF LogsClaim
<1>3. \A o \in UserObjects : Len(o) \in {3, 4}
  BY DEF UserObjects, UserObject, KeyIn
<1>4. Len(Elsewhere) = 1 /\ Len(CloudsConfigMap) = 1
  BY DEF Elsewhere, CloudsConfigMap
<1> QED
  BY <1>1, <1>2, <1>3, <1>4 DEF Unnamed, MountedOptions, ReferringFields

LEMMA VolumeParts ==
  ASSUME NEW n, NEW x
  PROVE  /\ Volume(n, x).name = n /\ Volume(n, x).source = x
         /\ Mount(n, x).name = n
BY DEF Volume, Mount

(* The fields of each kind that name objects.                              *)
LEMMA FieldsOfKind ==
  ASSUME NEW i \in Instances, NEW h \in Fields(Kind[i]) \cap ReferringFields
  PROVE  /\ Kind[i] = "Tempest" =>
              h \in CommonOpenstackConfig \cup {"SSHKeySecretName"}
         /\ Kind[i] \in {"Tobiko", "HorizonTest"} =>
              h \in CommonOpenstackConfig \cup {"KubeconfigSecretName"}
         /\ Kind[i] = "AnsibleTest" =>
              h \in CommonOpenstackConfig \cup
                      {"ComputeSSHKeySecretName", "WorkloadSSHKeySecretName"}
<1> USE DEF Fields, StepFields, SpecOnlyFields, Step, ReferringFields, CommonOptions,
        WorkflowCommonOptions, CommonOpenstackConfig
<1>1. ASSUME Kind[i] = "Tempest"
      PROVE  h \in CommonOpenstackConfig \cup {"SSHKeySecretName"}
  BY <1>1 DEF WorkflowTempestSpec, TempestSpec, WorkflowTempestRunSpec, TempestRunSpec,
     WorkflowTempestconfRunSpec, TempestconfRunSpec
<1>2. ASSUME Kind[i] = "Tobiko"
      PROVE  h \in CommonOpenstackConfig \cup {"KubeconfigSecretName"}
  BY <1>2 DEF TobikoWorkflowSpec, TobikoSpec
<1>3. ASSUME Kind[i] = "HorizonTest"
      PROVE  h \in CommonOpenstackConfig \cup {"KubeconfigSecretName"}
  BY <1>3 DEF NoStep, HorizonTestSpec
<1>4. ASSUME Kind[i] = "AnsibleTest"
      PROVE  h \in CommonOpenstackConfig \cup
                     {"ComputeSSHKeySecretName", "WorkloadSSHKeySecretName"}
  BY <1>4 DEF AnsibleTestWorkflowSpec, AnsibleTestSpec
<1> QED
  BY <1>1, <1>2, <1>3, <1>4

(* The lists of a kind, by what they should have.                          *)
KindListsRight(i, merged, V, M) ==
    /\ \A v \in V : Unnamed(v.source) \/ OfField(i, merged, v.source)
    /\ \A h \in (Fields(Kind[i]) \cap ReferringFields) \ {"OpenStackConfigSecret"} :
          \/ ~Given(merged[h])
          \/ h = "OpenStackConfigMap" /\ UsesClouds(i)
          \/ Mounted(i, merged, h, V, M)
    /\ UsesClouds(i) => \E v \in V, m \in M : v.source = CloudsConfigMap /\ m.name = v.name

LEMMA KindLists ==
  ASSUME NEW i \in Instances, NEW merged, NEW k,
         \A h \in FilledIn \cap Fields(Kind[i]) : Given(merged[h])
  PROVE  \E V, M : /\ Consists(KindVolumes(i, merged, k), V)
                   /\ Consists(KindMounts(i, merged), M)
                   /\ KindListsRight(i, merged, V, M)
<1> DEFINE O(h) == UserObject(i, h, merged[h])
<1>1. \A h : Named(i, merged, h) = O(h)
  BY DEF Named
<1>2. \A h \in ReferringFields : Given(merged[h]) => OfField(i, merged, O(h))
  BY DEF OfField
<1>3. {"OpenStackConfigMap", "OpenStackConfigSecret", "SSHKeySecretName",
       "KubeconfigSecretName", "ComputeSSHKeySecretName", "WorkloadSSHKeySecretName"}
        = ReferringFields
  BY DEF ReferringFields
<1>4. \A n : Consists(CloudsMounts(n),
                      {Mount(n, "/etc/clouds.yaml"), Mount(n, "~/clouds.yaml")})
  BY ListOfTwo DEF CloudsMounts
<1>5. CASE Kind[i] = "Tempest"
  <2> DEFINE c == Given(merged["SSHKeySecretName"])
             ssh == Volume("ssh-key", O("SSHKeySecretName"))
             cm == Volume(ConfigMapName(i), O("OpenStackConfigMap"))
             data == Volume("config-data", OwnConfigMap(i, "custom-data", k))
             mssh == Mount("ssh-key", "id_ecdsa")
             mcm == Mount(ConfigMapName(i), "/etc/clouds.yaml")
  <2>1. KindVolumes(i, merged, k) = <<data, cm>> \o When(c, <<ssh>>)
    BY <1>1, <1>5 DEF KindVolumes, TempestVolumes, CreateOpenstackConfigMapVolume,
       ConfigMapName
  <2>2. KindMounts(i, merged) =
          (<<Mount("config-data", "/etc/test_operator")>> \o CloudsMounts(ConfigMapName(i)))
             \o When(c, <<mssh>>)
    BY <1>5 DEF KindMounts, TempestMounts, ConfigMapName
  <2> HIDE DEF c, ssh, cm, data, mssh, mcm, O
  <2> DEFINE V == {data, cm} \cup OnlyIf(c, {ssh})
             M == ({Mount("config-data", "/etc/test_operator")}
                     \cup {mcm, Mount(ConfigMapName(i), "~/clouds.yaml")})
                    \cup OnlyIf(c, {mssh})
  <2>3. Consists(KindVolumes(i, merged, k), V)
    <3> DEFINE s == <<data, cm>>
               t == When(c, <<ssh>>)
               A == {data, cm}
               B == OnlyIf(c, {ssh})
    <3>1. Consists(s, A) /\ Consists(t, B)
      BY ListOfTwo, ListWhenOne
    <3>2. KindVolumes(i, merged, k) = s \o t /\ V = A \cup B
      BY <2>1
    <3> HIDE DEF s, t, A, B, V
    <3> QED
      BY <3>1, <3>2, ListOfBoth
  <2>4. Consists(KindMounts(i, merged), M)
    <3> DEFINE s == <<Mount("config-data", "/etc/test_operator")>>
               t == CloudsMounts(ConfigMapName(i))
               u == When(c, <<mssh>>)
               A == {Mount("config-data", "/etc/test_operator")}
               B == {mcm, Mount(ConfigMapName(i), "~/clouds.yaml")}
               C == OnlyIf(c, {mssh})
    <3>1. Consists(s, A) /\ Consists(u, C)
      BY ListOfOne, ListWhenOne
    <3>2. Consists(t, B)
      BY <1>4 DEF mcm
    <3>3. KindMounts(i, merged) = (s \o t) \o u /\ M = (A \cup B) \cup C
      BY <2>2
    <3> HIDE DEF s, t, u, A, B, C, M
    <3> QED
      BY <3>1, <3>2, <3>3, ListOfThree
  <2>5. /\ data.source = OwnConfigMap(i, "custom-data", k) /\ ssh.name = mssh.name
        /\ cm.source = O("OpenStackConfigMap") /\ cm.name = mcm.name
        /\ ssh.source = O("SSHKeySecretName")
    BY VolumeParts DEF data, cm, ssh, mcm, mssh
  <2>6. Given(merged["OpenStackConfigMap"])
    BY <1>5 DEF FilledIn, CommonOpenstackConfig, Fields, StepFields, Step,
       WorkflowTempestSpec
  <2>7. \A v \in V : Unnamed(v.source) \/ OfField(i, merged, v.source)
    BY <1>2, <1>3, <2>5, <2>6, OwnObjects DEF OnlyIf, c
  <2>8. /\ Mounted(i, merged, "OpenStackConfigMap", V, M)
        /\ c => Mounted(i, merged, "SSHKeySecretName", V, M)
    BY <2>5 DEF Mounted, OnlyIf, O
  <2>9. ~UsesClouds(i)
    BY <1>5 DEF UsesClouds
  <2>10. \A h \in (Fields(Kind[i]) \cap ReferringFields) \ {"OpenStackConfigSecret"} :
           h \in {"OpenStackConfigMap", "SSHKeySecretName"}
    BY <1>5, FieldsOfKind DEF CommonOpenstackConfig
  <2> HIDE DEF V, M
  <2>11. KindListsRight(i, merged, V, M)
    BY <2>7, <2>8, <2>9, <2>10 DEF KindListsRight, c
  <2> QED
    BY <2>3, <2>4, <2>11
<1>6. CASE Kind[i] = "Tobiko"
  <2> DEFINE c == Given(merged["KubeconfigSecretName"])
             d == mountKeys(merged)
             kube == Volume("kubeconfig", O("KubeconfigSecretName"))
             conf == Volume("tobiko-config", OwnConfigMap(i, "config", k))
             clouds1 == Volume("test-operator-clouds-config", CloudsConfigMap)
             private == Volume("tobiko-private-key", OwnConfigMap(i, "private-key", k))
             public == Volume("tobiko-public-key", OwnConfigMap(i, "public-key", k))
             mkube == Mount("kubeconfig", ".kube/config")
             mclouds == Mount("test-operator-clouds-config", "/etc/clouds.yaml")
             keys == << Mount("tobiko-private-key", "id_ecdsa"),
                        Mount("tobiko-public-key", "id_ecdsa.pub") >>
  <2>1. KindVolumes(i, merged, k) =
          (<<conf, clouds1>> \o When(d, <<private, public>>)) \o When(c, <<kube>>)
    BY <1>1, <1>6 DEF KindVolumes, TobikoVolumes
  <2>2. KindMounts(i, merged) =
          ((<<Mount("tobiko-config", "tobiko.conf")>>
              \o CloudsMounts("test-operator-clouds-config")) \o When(d, keys))
             \o When(c, <<mkube>>)
    BY <1>6 DEF KindMounts, TobikoMounts
  <2>3. PICK K : Consists(When(d, keys), K)
    BY ListOfTwo, ListWhen
  <2> HIDE DEF c, d, kube, conf, clouds1, private, public, mkube, mclouds, keys, O
  <2> DEFINE V == ({conf, clouds1} \cup OnlyIf(d, {private, public}))
                    \cup OnlyIf(c, {kube})
             M == (({Mount("tobiko-config", "tobiko.conf")}
                      \cup {mclouds, Mount("test-operator-clouds-config", "~/clouds.yaml")})
                     \cup K) \cup OnlyIf(c, {mkube})
  <2>4. Consists(KindVolumes(i, merged, k), V)
    <3> DEFINE s == <<conf, clouds1>>
               t == When(d, <<private, public>>)
               u == When(c, <<kube>>)
               A == {conf, clouds1}
               B == OnlyIf(d, {private, public})
               C == OnlyIf(c, {kube})
    <3>1. Consists(s, A) /\ Consists(u, C)
      BY ListOfTwo, ListWhenOne
    <3>2. Consists(t, B)
      BY ListOfTwo, ListWhen
    <3>3. KindVolumes(i, merged, k) = (s \o t) \o u /\ V = (A \cup B) \cup C
      BY <2>1
    <3> HIDE DEF s, t, u, A, B, C, V
    <3> QED
      BY <3>1, <3>2, <3>3, ListOfThree
  <2>5. Consists(KindMounts(i, merged), M)
    <3> DEFINE s == <<Mount("tobiko-config", "tobiko.conf")>>
               t == CloudsMounts("test-operator-clouds-config")
               u == When(d, keys)
               w == When(c, <<mkube>>)
               A == {Mount("tobiko-config", "tobiko.conf")}
               B == {mclouds, Mount("test-operator-clouds-config", "~/clouds.yaml")}
               D == OnlyIf(c, {mkube})
    <3>1. Consists(s, A) /\ Consists(w, D)
      BY ListOfOne, ListWhenOne
    <3>2. Consists(t, B)
      BY <1>4 DEF mclouds
    <3>3. Consists(u, K)
      BY <2>3
    <3>4. KindMounts(i, merged) = ((s \o t) \o u) \o w /\ M = ((A \cup B) \cup K) \cup D
      BY <2>2
    <3> HIDE DEF s, t, u, w, A, B, D, M
    <3>5. Consists((s \o t) \o u, (A \cup B) \cup K)
      BY <3>1, <3>2, <3>3, ListOfThree
    <3> QED
      BY <3>1, <3>4, <3>5, ListOfBoth
  <2>6. /\ conf.source = OwnConfigMap(i, "config", k) /\ kube.name = mkube.name
        /\ clouds1.source = CloudsConfigMap /\ clouds1.name = mclouds.name
        /\ private.source = OwnConfigMap(i, "private-key", k)
        /\ public.source = OwnConfigMap(i, "public-key", k)
        /\ kube.source = O("KubeconfigSecretName")
    BY VolumeParts DEF conf, clouds1, private, public, kube, mclouds, mkube
  <2>7. \A v \in V : Unnamed(v.source) \/ OfField(i, merged, v.source)
    BY <1>2, <1>3, <2>6, OwnObjects DEF OnlyIf, c
  <2>8. /\ c => Mounted(i, merged, "KubeconfigSecretName", V, M)
        /\ \E v \in V, m \in M : v.source = CloudsConfigMap /\ m.name = v.name
    BY <2>6 DEF Mounted, OnlyIf, O
  <2>9. UsesClouds(i)
    BY <1>6 DEF UsesClouds
  <2>10. \A h \in (Fields(Kind[i]) \cap ReferringFields) \ {"OpenStackConfigSecret"} :
           h \in {"OpenStackConfigMap", "KubeconfigSecretName"}
    BY <1>6, FieldsOfKind DEF CommonOpenstackConfig
  <2> HIDE DEF V, M
  <2>11. KindListsRight(i, merged, V, M)
    BY <2>7, <2>8, <2>9, <2>10 DEF KindListsRight, c
  <2> QED
    BY <2>4, <2>5, <2>11
<1>7. CASE Kind[i] = "HorizonTest"
  <2> DEFINE c == Given(merged["KubeconfigSecretName"])
             kube == Volume("kubeconfig", O("KubeconfigSecretName"))
             conf == Volume("horizontest-config", OwnConfigMap(i, "horizontest", 0))
             clouds1 == Volume("test-operator-clouds-config", CloudsConfigMap)
             mkube == Mount("kubeconfig", ".kube/config")
             mclouds == Mount("test-operator-clouds-config", "/etc/clouds.yaml")
  <2>1. KindVolumes(i, merged, k) = <<conf, clouds1>> \o When(c, <<kube>>)
    BY <1>1, <1>7 DEF KindVolumes, HorizonTestVolumes
  <2>2. KindMounts(i, merged) =
          CloudsMounts("test-operator-clouds-config") \o When(c, <<mkube>>)
    BY <1>7 DEF KindMounts, HorizonTestMounts
  <2> HIDE DEF c, kube, conf, clouds1, mkube, mclouds, O
  <2> DEFINE V == {conf, clouds1} \cup OnlyIf(c, {kube})
             M == {mclouds, Mount("test-operator-clouds-config", "~/clouds.yaml")}
                    \cup OnlyIf(c, {mkube})
  <2>3. Consists(KindVolumes(i, merged, k), V)
    <3> DEFINE s == <<conf, clouds1>>
               t == When(c, <<kube>>)
               A == {conf, clouds1}
               B == OnlyIf(c, {kube})
    <3>1. Consists(s, A) /\ Consists(t, B)
      BY ListOfTwo, ListWhenOne
    <3>2. KindVolumes(i, merged, k) = s \o t /\ V = A \cup B
      BY <2>1
    <3> HIDE DEF s, t, A, B, V
    <3> QED
      BY <3>1, <3>2, ListOfBoth
  <2>4. Consists(KindMounts(i, merged), M)
    <3> DEFINE s == CloudsMounts("test-operator-clouds-config")
               t == When(c, <<mkube>>)
               A == {mclouds, Mount("test-operator-clouds-config", "~/clouds.yaml")}
               B == OnlyIf(c, {mkube})
    <3>1. Consists(s, A)
      BY <1>4 DEF mclouds
    <3>2. Consists(t, B)
      BY ListWhenOne
    <3>3. KindMounts(i, merged) = s \o t /\ M = A \cup B
      BY <2>2
    <3> HIDE DEF s, t, A, B, M
    <3> QED
      BY <3>1, <3>2, <3>3, ListOfBoth
  <2>5. /\ conf.source = OwnConfigMap(i, "horizontest", 0) /\ kube.name = mkube.name
        /\ clouds1.source = CloudsConfigMap /\ clouds1.name = mclouds.name
        /\ kube.source = O("KubeconfigSecretName")
    BY VolumeParts DEF conf, clouds1, kube, mclouds, mkube
  <2>6. \A v \in V : Unnamed(v.source) \/ OfField(i, merged, v.source)
    BY <1>2, <1>3, <2>5, OwnObjects DEF OnlyIf, c
  <2>7. /\ c => Mounted(i, merged, "KubeconfigSecretName", V, M)
        /\ \E v \in V, m \in M : v.source = CloudsConfigMap /\ m.name = v.name
    BY <2>5 DEF Mounted, OnlyIf, O
  <2>8. UsesClouds(i)
    BY <1>7 DEF UsesClouds
  <2>9. \A h \in (Fields(Kind[i]) \cap ReferringFields) \ {"OpenStackConfigSecret"} :
          h \in {"OpenStackConfigMap", "KubeconfigSecretName"}
    BY <1>7, FieldsOfKind DEF CommonOpenstackConfig
  <2> HIDE DEF V, M
  <2>10. KindListsRight(i, merged, V, M)
    BY <2>6, <2>7, <2>8, <2>9 DEF KindListsRight, c
  <2> QED
    BY <2>3, <2>4, <2>10
<1>8. CASE Kind[i] = "AnsibleTest"
  <2> DEFINE c == Given(merged["WorkloadSSHKeySecretName"])
             work == Volume("workload-ssh-secret", O("WorkloadSSHKeySecretName"))
             cm == Volume(ConfigMapName(i), O("OpenStackConfigMap"))
             comp == Volume("compute-ssh-secret", O("ComputeSSHKeySecretName"))
             mwork == Mount("workload-ssh-secret", "test_keypair.key")
             mcm == Mount(ConfigMapName(i), "/etc/clouds.yaml")
             mcomp == Mount("compute-ssh-secret", ".ssh/compute_id")
  <2>1. KindVolumes(i, merged, k) = <<cm, comp>> \o When(c, <<work>>)
    BY <1>1, <1>8 DEF KindVolumes, AnsibleTestVolumes, CreateOpenstackConfigMapVolume,
       ConfigMapName
  <2>2. KindMounts(i, merged) =
          (CloudsMounts(ConfigMapName(i)) \o <<mcomp>>) \o When(c, <<mwork>>)
    BY <1>8 DEF KindMounts, AnsibleTestMounts, ConfigMapName
  <2> HIDE DEF c, work, cm, comp, mwork, mcm, mcomp, O
  <2> DEFINE V == {cm, comp} \cup OnlyIf(c, {work})
             M == ({mcm, Mount(ConfigMapName(i), "~/clouds.yaml")} \cup {mcomp})
                    \cup OnlyIf(c, {mwork})
  <2>3. Consists(KindVolumes(i, merged, k), V)
    <3> DEFINE s == <<cm, comp>>
               t == When(c, <<work>>)
               A == {cm, comp}
               B == OnlyIf(c, {work})
    <3>1. Consists(s, A) /\ Consists(t, B)
      BY ListOfTwo, ListWhenOne
    <3>2. KindVolumes(i, merged, k) = s \o t /\ V = A \cup B
      BY <2>1
    <3> HIDE DEF s, t, A, B, V
    <3> QED
      BY <3>1, <3>2, ListOfBoth
  <2>4. Consists(KindMounts(i, merged), M)
    <3> DEFINE s == CloudsMounts(ConfigMapName(i))
               t == <<mcomp>>
               u == When(c, <<mwork>>)
               A == {mcm, Mount(ConfigMapName(i), "~/clouds.yaml")}
               B == {mcomp}
               C == OnlyIf(c, {mwork})
    <3>1. Consists(s, A)
      BY <1>4 DEF mcm
    <3>2. Consists(t, B) /\ Consists(u, C)
      BY ListOfOne, ListWhenOne
    <3>3. KindMounts(i, merged) = (s \o t) \o u /\ M = (A \cup B) \cup C
      BY <2>2
    <3> HIDE DEF s, t, u, A, B, C, M
    <3> QED
      BY <3>1, <3>2, <3>3, ListOfThree
  <2>5. /\ comp.source = O("ComputeSSHKeySecretName") /\ comp.name = mcomp.name
        /\ cm.source = O("OpenStackConfigMap") /\ cm.name = mcm.name
        /\ work.source = O("WorkloadSSHKeySecretName") /\ work.name = mwork.name
    BY VolumeParts DEF comp, cm, work, mcm, mwork, mcomp
  <2>6. Given(merged["OpenStackConfigMap"]) /\ Given(merged["ComputeSSHKeySecretName"])
    BY <1>8 DEF FilledIn, CommonOpenstackConfig, Fields, StepFields, Step,
       AnsibleTestWorkflowSpec
  <2>7. \A v \in V : Unnamed(v.source) \/ OfField(i, merged, v.source)
    BY <1>2, <1>3, <2>5, <2>6 DEF OnlyIf, c
  <2>8. /\ Mounted(i, merged, "OpenStackConfigMap", V, M)
        /\ Mounted(i, merged, "ComputeSSHKeySecretName", V, M)
        /\ c => Mounted(i, merged, "WorkloadSSHKeySecretName", V, M)
    BY <2>5 DEF Mounted, OnlyIf, O
  <2>9. ~UsesClouds(i)
    BY <1>8 DEF UsesClouds
  <2>10. \A h \in (Fields(Kind[i]) \cap ReferringFields) \ {"OpenStackConfigSecret"} :
           h \in { "OpenStackConfigMap", "ComputeSSHKeySecretName",
                   "WorkloadSSHKeySecretName" }
    BY <1>8, FieldsOfKind DEF CommonOpenstackConfig
  <2> HIDE DEF V, M
  <2>11. KindListsRight(i, merged, V, M)
    BY <2>7, <2>8, <2>9, <2>10 DEF KindListsRight, c
  <2> QED
    BY <2>3, <2>4, <2>11
<1> QED
  BY <1>5, <1>6, <1>7, <1>8, KindAssumption DEF Kinds

(* What a list of ConfigMaps adds: a volume and a mount for each of them.  *)
ListRight(i, value, A, B) ==
    LET refers == Refers(i, "ExtraConfigmapsMounts", value) IN
    /\ \A v \in A : v.source \in refers
    /\ \A o \in refers : \E v \in A, m \in B : v.source = o /\ m.name = v.name

LEMMA ConfigmapLists ==
  ASSUME NEW i \in Instances, NEW value
  PROVE  \E A, B : /\ Consists(AppendExtraConfigmapsVolumes(i, value), A)
                   /\ Consists(AppendExtraConfigmapsVolumeMounts(i, value), B)
                   /\ ListRight(i, value, A, B)
<1> DEFINE x == "ExtraConfigmapsMounts"
           cms == ExtraConfigmaps[i][value]
           made(n) == Volume(cms[n].name, UserObject(i, x, cms[n].name))
           vs == AppendExtraConfigmapsVolumes(i, value)
           ms == AppendExtraConfigmapsVolumeMounts(i, value)
<1>1. CASE Given(value)
  <2>1. cms \in Seq(Mounts)
    BY <1>1, ExtraConfigmapsAssumption DEF Given
  <2>2. DOMAIN cms = 1 .. Len(cms) /\ Len(cms) \in Nat
    BY <2>1
  <2>3. vs = [n \in 1 .. Len(cms) |-> made(n)] /\ ms = cms
    BY <1>1, <2>2 DEF AppendExtraConfigmapsVolumes, AppendExtraConfigmapsVolumeMounts, When
  <2>4. vs \in Seq({made(n) : n \in 1 .. Len(cms)})
    BY <2>2, <2>3
  <2>5. Consists(vs, Range(vs)) /\ Consists(ms, Range(ms))
    BY <2>1, <2>3, <2>4 DEF Consists
  <2>6. \A n \in 1 .. Len(cms) : /\ vs[n].name = cms[n].name
                                 /\ vs[n].source = UserObject(i, x, cms[n].name)
    BY <2>3 DEF Volume
  <2>7. Refers(i, x, value) = {UserObject(i, x, cms[n].name) : n \in 1 .. Len(cms)}
    BY <1>1, <2>2 DEF Refers, Values
  <2>8. /\ Range(vs) = {vs[n] : n \in 1 .. Len(cms)}
        /\ Range(ms) = {cms[n] : n \in 1 .. Len(cms)}
    BY <2>2, <2>3 DEF Range
  <2> HIDE DEF vs, ms, cms, x
  <2>9. \A v \in Range(vs) : v.source \in Refers(i, x, value)
    BY <2>6, <2>7, <2>8
  <2>10. ASSUME NEW o \in Refers(i, x, value)
         PROVE  \E v \in Range(vs), m \in Range(ms) : v.source = o /\ m.name = v.name
    <3>1. PICK n \in 1 .. Len(cms) : o = UserObject(i, x, cms[n].name)
      BY <2>7
    <3>2. /\ vs[n] \in Range(vs) /\ cms[n] \in Range(ms)
          /\ vs[n].source = o /\ cms[n].name = vs[n].name
      BY <2>6, <2>8, <3>1
    <3> QED
      BY <3>2
  <2> QED
    BY <2>5, <2>9, <2>10 DEF ListRight, vs, ms, x
<1>2. CASE ~Given(value)
  <2>1. vs = <<>> /\ ms = <<>> /\ Refers(i, x, value) = {}
    BY <1>2 DEF AppendExtraConfigmapsVolumes, AppendExtraConfigmapsVolumeMounts, When, Refers
  <2>2. Consists(<<>>, {})
    BY DEF Consists, Range
  <2>3. ListRight(i, value, {}, {})
    BY <2>1 DEF ListRight
  <2> QED
    BY <2>1, <2>2, <2>3
<1> QED
  BY <1>1, <1>2

LEMMA ExtraMountsLists ==
  ASSUME NEW i \in Instances, NEW value
  PROVE  \E A, B : /\ Consists(AppendExtraMountsVolumes(i, value), A)
                   /\ Consists(AppendExtraMountsVolumeMounts(i, value), B)
                   /\ \A v \in A : v.source = Elsewhere
                   /\ Given(value) => B = Range(ExtraMounts[i].mounts)
<1> DEFINE s == ExtraMounts[i].volumes
           vs == AppendExtraMountsVolumes(i, value)
           ms == AppendExtraMountsVolumeMounts(i, value)
<1>1. CASE Given(value)
  <2>1. s \in Seq([name : STRING]) /\ ExtraMounts[i].mounts \in Seq(Mounts)
    BY ExtraMountsAssumption
  <2>2. DOMAIN s = 1 .. Len(s) /\ Len(s) \in Nat
    BY <2>1
  <2>3. /\ vs = [n \in 1 .. Len(s) |-> Volume(s[n].name, Elsewhere)]
        /\ ms = ExtraMounts[i].mounts
    BY <1>1, <2>2 DEF AppendExtraMountsVolumes, AppendExtraMountsVolumeMounts, When
  <2>4. vs \in Seq({Volume(s[n].name, Elsewhere) : n \in 1 .. Len(s)})
    BY <2>2, <2>3
  <2>5. Consists(vs, Range(vs)) /\ Consists(ms, Range(ms))
    BY <2>1, <2>3, <2>4 DEF Consists
  <2>6. \A v \in Range(vs) : v.source = Elsewhere
    BY <2>3 DEF Volume, Range
  <2> QED
    BY <2>3, <2>5, <2>6
<1>2. CASE ~Given(value)
  <2>1. vs = <<>> /\ ms = <<>>
    BY <1>2 DEF AppendExtraMountsVolumes, AppendExtraMountsVolumeMounts, When
  <2>2. Consists(<<>>, {})
    BY DEF Consists, Range
  <2> QED
    BY <1>2, <2>1, <2>2
<1> QED
  BY <1>1, <1>2

(* What is given for a step of an AnsibleTest is what the merge has, so    *)
(* adding it twice adds no other object.                                   *)
LEMMA StepExtrasMerged ==
  ASSUME NEW i \in Instances, NEW g \in DOMAIN Manifests[i],
         NEW k \in Steps(SpecOf(i, g)), StepExtras(i, SpecOf(i, g), k)
  PROVE  StepSpec(Kind[i], SpecOf(i, g), k)["ExtraConfigmapsMounts"] = "step"
<1> DEFINE spec == SpecOf(i, g)
           x == "ExtraConfigmapsMounts"
<1>1. /\ Kind[i] = "AnsibleTest" /\ spec.workflow # <<>>
      /\ Given(spec.workflow[k + 1][x])
  BY DEF StepExtras
<1>2. spec.workflow \in Seq([StepFields(Kind[i]) -> StepValues])
  BY DefaultedSpec DEF ManifestType
<1>3. k \in Nat /\ k < Len(spec.workflow)
  BY <1>1, <1>2 DEF Steps, WorkflowLength
<1>4. x \in StepFields(Kind[i]) /\ x \in Step[Kind[i]].nil /\ x \in Fields(Kind[i])
  BY <1>1 DEF Fields, StepFields, Step, AnsibleTestWorkflowSpec, WorkflowCommonOptions
<1>5. spec.workflow[k + 1][x] = "step"
  BY <1>1, <1>2, <1>3, <1>4 DEF Given, StepValues
<1>6. ~Deviates(Kind[i], x, "step")
  BY <1>1 DEF Deviates, Step, AnsibleTestWorkflowSpec, CommonOpenstackConfig
<1>7. StepSpec(Kind[i], spec, k)[x] = Meant(i, spec, k, x)
  BY <1>4, <1>5, <1>6, MergedIsMeant
<1> QED
  BY <1>3, <1>4, <1>5, <1>7 DEF Meant

(* The names that a definition fills in are given after the merge, too.    *)
LEMMA FilledInAfterMerge ==
  ASSUME NEW i \in Instances, NEW g \in DOMAIN Manifests[i],
         NEW k \in Steps(SpecOf(i, g)), NEW f \in FilledIn \cap Fields(Kind[i])
  PROVE  Given(StepSpec(Kind[i], SpecOf(i, g), k)[f])
<1> DEFINE spec == SpecOf(i, g)
<1>1. spec.main[f] = "main"
  BY DefaultedSpec
<1>2. spec.workflow \in Seq([StepFields(Kind[i]) -> StepValues])
  BY DefaultedSpec DEF ManifestType
<1>5. k \in Nat
  BY DEF Steps
<1>3. CASE Config[Kind[i]].SupportsWorkflow /\ k < Len(spec.workflow)
  <2>1. StepSpec(Kind[i], spec, k) = MergeSections(Kind[i], spec.main, spec.workflow[k + 1])
    BY <1>3 DEF StepSpec
  <2>2. CASE f \in SpecOnlyFields[Kind[i]] \cup Step[Kind[i]].struct
    BY <1>1, <2>1, <2>2 DEF MergeSections, Given
  <2>3. CASE f \notin SpecOnlyFields[Kind[i]] \cup Step[Kind[i]].struct
    <3>1. f = "ComputeSSHKeySecretName" /\ f \in Step[Kind[i]].string
      <4>1. f \in StepFields(Kind[i])
        BY <2>3 DEF Fields
      <4>2. Kind[i] # "HorizonTest"
        BY <4>1 DEF StepFields, Step, NoStep
      <4>3. Step[Kind[i]].struct = CommonOpenstackConfig
        BY <4>2, KindAssumption DEF Kinds, Step, WorkflowTempestSpec, TobikoWorkflowSpec,
           AnsibleTestWorkflowSpec
      <4>4. f = "ComputeSSHKeySecretName"
        BY <2>3, <4>3 DEF FilledIn
      <4>5. Kind[i] # "Tempest" /\ Kind[i] # "Tobiko"
        BY <4>1, <4>4 DEF StepFields, Step, WorkflowTempestSpec, TobikoWorkflowSpec,
           WorkflowCommonOptions, WorkflowTempestRunSpec, TempestRunSpec,
           WorkflowTempestconfRunSpec, TempestconfRunSpec, CommonOpenstackConfig
      <4>6. Kind[i] = "AnsibleTest"
        BY <4>2, <4>5, KindAssumption DEF Kinds
      <4> QED
        BY <4>4, <4>6 DEF Step, AnsibleTestWorkflowSpec
    <3>2. f \in StepFields(Kind[i])
      BY <3>1 DEF StepFields
    <3>3. spec.workflow[k + 1][f] \in StepValues
      BY <1>2, <1>3, <1>5, <3>2
    <3>4. Stored(f, spec.workflow[k + 1][f]) = spec.workflow[k + 1][f]
      BY <3>1 DEF Stored, DefaultedFields
    <3> QED
      BY <1>1, <2>1, <3>1, <3>3, <3>4 DEF MergeSections, IsEmpty, Zero, Given, StepValues
  <2> QED
    BY <2>2, <2>3
<1>4. CASE ~(Config[Kind[i]].SupportsWorkflow /\ k < Len(spec.workflow))
  BY <1>1, <1>4 DEF StepSpec, Given
<1> QED
  BY <1>3, <1>4

-----------------------------------------------------------------------------
(* The lists of the whole pod, by what they should have.                   *)
PodListsRight(i, merged, V, M) ==
    LET refers == Refers(i, "ExtraConfigmapsMounts", merged["ExtraConfigmapsMounts"]) IN
    /\ \A v \in V : \/ Unnamed(v.source)
                    \/ OfField(i, merged, v.source)
                    \/ v.source \in refers
    /\ \A h \in Fields(Kind[i]) \cap ReferringFields :
          \/ ~Given(merged[h])
          \/ h = "OpenStackConfigMap" /\ UsesClouds(i)
          \/ Mounted(i, merged, h, V, M)
    /\ \A o \in refers : \E v \in V, m \in M : v.source = o /\ m.name = v.name
    /\ UsesClouds(i) => \E v \in V, m \in M : v.source = CloudsConfigMap /\ m.name = v.name
    /\ Given(merged["ExtraMounts"]) => Range(ExtraMounts[i].mounts) \subseteq M

LEMMA SharedLists ==
  ASSUME NEW i, NEW merged, NEW c
  PROVE  LET f == "OpenStackConfigSecret" IN
         \E A, B :
           /\ Consists(<< CreateOpenstackConfigSecretVolume(i, merged),
                          Volume("test-operator-logs", LogsClaim(i, c)),
                          Volume("test-operator-ephemeral-workdir", Elsewhere),
                          Volume("test-operator-ephemeral-temporary", Elsewhere) >>, A)
           /\ Consists(<< Mount(OpenstackName[i][f], "secure.yaml"),
                          Mount("test-operator-logs", "external_files"),
                          Mount("test-operator-ephemeral-workdir", "workdir"),
                          Mount("test-operator-ephemeral-temporary", "/tmp") >>, B)
           /\ \A v \in A : Unnamed(v.source) \/ v.source = UserObject(i, f, merged[f])
           /\ Mounted(i, merged, f, A, B)
<1> DEFINE f == "OpenStackConfigSecret"
           secret == CreateOpenstackConfigSecretVolume(i, merged)
           logs == Volume("test-operator-logs", LogsClaim(i, c))
           work == Volume("test-operator-ephemeral-workdir", Elsewhere)
           temp == Volume("test-operator-ephemeral-temporary", Elsewhere)
           msecret == Mount(OpenstackName[i][f], "secure.yaml")
           mlogs == Mount("test-operator-logs", "external_files")
           mwork == Mount("test-operator-ephemeral-workdir", "workdir")
           mtemp == Mount("test-operator-ephemeral-temporary", "/tmp")
<1>1. /\ secret.source = UserObject(i, f, merged[f]) /\ secret.name = msecret.name
      /\ logs.source = LogsClaim(i, c) /\ work.source = Elsewhere
      /\ temp.source = Elsewhere
  BY VolumeParts DEF CreateOpenstackConfigSecretVolume, Named
<1>2. Unnamed(LogsClaim(i, c)) /\ Unnamed(Elsewhere)
  BY OwnObjects
<1> HIDE DEF secret, logs, work, temp, msecret, mlogs, mwork, mtemp
<1> DEFINE A == {secret, logs, work, temp}
           B == {msecret, mlogs, mwork, mtemp}
<1>3. Consists(<<secret, logs, work, temp>>, A) /\ Consists(<<msecret, mlogs, mwork, mtemp>>, B)
  BY ListOfFour
<1>4. \A v \in A : Unnamed(v.source) \/ v.source = UserObject(i, f, merged[f])
  BY <1>1, <1>2
<1>5. Mounted(i, merged, f, A, B)
  BY <1>1 DEF Mounted
<1> HIDE DEF A, B
<1> QED
  BY <1>3, <1>4, <1>5 DEF secret, logs, work, temp, msecret, mlogs, mwork, mtemp

LEMMA PodLists ==
  ASSUME NEW i \in Instances, NEW g \in DOMAIN Manifests[i],
         NEW k \in Steps(SpecOf(i, g)), NEW certs \in BOOLEAN
  PROVE  \E V, M : /\ Consists(GetVolumes(i, SpecOf(i, g), k, certs), V)
                   /\ Consists(GetVolumeMounts(i, SpecOf(i, g), k, certs), M)
                   /\ PodListsRight(i, StepSpec(Kind[i], SpecOf(i, g), k), V, M)
<1> DEFINE spec == SpecOf(i, g)
           merged == StepSpec(Kind[i], spec, k)
           x == "ExtraConfigmapsMounts"
           again == StepExtras(i, spec, k)
           ca == Volume("ca-certs", Elsewhere)
           mca == Mount("ca-certs", "tls-ca-bundle.pem")
           mtrust == Mount("ca-certs", "ca-bundle.trust.crt")
           f == "OpenStackConfigSecret"
           c == pvcIndex(i, spec, k)
           vs1 == KindVolumes(i, merged, k)
           vs2 == << CreateOpenstackConfigSecretVolume(i, merged),
                     Volume("test-operator-logs", LogsClaim(i, c)),
                     Volume("test-operator-ephemeral-workdir", Elsewhere),
                     Volume("test-operator-ephemeral-temporary", Elsewhere) >>
           vs3 == When(certs, <<ca>>)
           vs4 == AppendExtraMountsVolumes(i, merged["ExtraMounts"])
           vs5 == AppendExtraConfigmapsVolumes(i, merged[x])
           vs6 == When(again, AppendExtraConfigmapsVolumes(i, "step"))
           ms1 == KindMounts(i, merged)
           ms2 == << Mount(OpenstackName[i][f], "secure.yaml"),
                     Mount("test-operator-logs", "external_files"),
                     Mount("test-operator-ephemeral-workdir", "workdir"),
                     Mount("test-operator-ephemeral-temporary", "/tmp") >>
           ms3 == When(certs, <<mca>>)
           trusted == certs /\ Kind[i] # "Tempest"
           msT == When(trusted, <<mtrust>>)
           ms4 == AppendExtraMountsVolumeMounts(i, merged["ExtraMounts"])
           ms5 == AppendExtraConfigmapsVolumeMounts(i, merged[x])
           ms6 == When(again, AppendExtraConfigmapsVolumeMounts(i, "step"))
<1>1. GetVolumes(i, spec, k, certs) =
        (((vs1 \o vs2) \o vs3) \o (vs4 \o vs5)) \o vs6
  BY DEF GetVolumes, ExtraVolumes
<1>2. GetVolumeMounts(i, spec, k, certs) =
        ((((ms1 \o ms2) \o ms3) \o msT) \o (ms4 \o ms5)) \o ms6
  BY DEF GetVolumeMounts, ExtraVolumeMounts
<1>3. \A h \in FilledIn \cap Fields(Kind[i]) : Given(merged[h])
  BY FilledInAfterMerge
<1>4. PICK V1, M1 : /\ Consists(vs1, V1) /\ Consists(ms1, M1)
                    /\ KindListsRight(i, merged, V1, M1)
  BY <1>3, KindLists
<1>5. PICK V2, M2 : /\ Consists(vs2, V2) /\ Consists(ms2, M2)
                    /\ \A v \in V2 : Unnamed(v.source) \/ v.source = UserObject(i, f, merged[f])
                    /\ Mounted(i, merged, f, V2, M2)
  BY SharedLists
<1>6. PICK V4, M4 : /\ Consists(vs4, V4) /\ Consists(ms4, M4)
                    /\ \A v \in V4 : v.source = Elsewhere
                    /\ Given(merged["ExtraMounts"]) => M4 = Range(ExtraMounts[i].mounts)
  BY ExtraMountsLists
<1>7. PICK V5, M5 : Consists(vs5, V5) /\ Consists(ms5, M5) /\ ListRight(i, merged[x], V5, M5)
  BY ConfigmapLists
<1>8. PICK V6, M6 : /\ Consists(AppendExtraConfigmapsVolumes(i, "step"), V6)
                    /\ Consists(AppendExtraConfigmapsVolumeMounts(i, "step"), M6)
                    /\ ListRight(i, "step", V6, M6)
  BY ConfigmapLists
<1> DEFINE V3 == OnlyIf(certs, {ca})
           M3 == OnlyIf(certs, {mca})
           MT == OnlyIf(trusted, {mtrust})
           W6 == OnlyIf(again, V6)
           N6 == OnlyIf(again, M6)
           V == (((V1 \cup V2) \cup V3) \cup (V4 \cup V5)) \cup W6
           M == ((((M1 \cup M2) \cup M3) \cup MT) \cup (M4 \cup M5)) \cup N6
<1>9. Consists(vs3, V3) /\ Consists(ms3, M3) /\ Consists(msT, MT)
  BY ListWhenOne
<1>10. Consists(vs6, W6) /\ Consists(ms6, N6)
  BY <1>8, ListWhen
<1>11. \A v \in V3 : Unnamed(v.source)
  BY VolumeParts, OwnObjects DEF OnlyIf
<1>12. Unnamed(Elsewhere)
  BY OwnObjects
<1>13. \A v \in W6 : v.source \in Refers(i, x, merged[x])
  BY <1>8, StepExtrasMerged DEF ListRight, OnlyIf
<1>14. f \in Fields(Kind[i]) /\ Given(merged[f])
  <2>1. f \in Fields(Kind[i])
    BY KindAssumption DEF Kinds, Fields, StepFields, SpecOnlyFields, Step,
       CommonOpenstackConfig, WorkflowTempestSpec, TobikoWorkflowSpec, HorizonTestSpec,
       AnsibleTestWorkflowSpec
  <2> QED
    BY <1>3, <2>1 DEF FilledIn, CommonOpenstackConfig
<1>15. f \in ReferringFields
  BY DEF ReferringFields
<1> HIDE DEF spec, merged, x, again, f, vs1, vs2, vs3, vs4, vs5, vs6, ms1, ms2, ms3, msT,
       ms4, ms5, ms6, V3, M3, MT, W6, N6
<1>16. Consists((((vs1 \o vs2) \o vs3) \o (vs4 \o vs5)) \o vs6, V)
  <2>1. Consists((vs1 \o vs2) \o vs3, (V1 \cup V2) \cup V3)
    BY <1>4, <1>5, <1>9, ListOfThree
  <2>2. Consists(vs4 \o vs5, V4 \cup V5)
    BY <1>6, <1>7, ListOfBoth
  <2> QED
    BY <1>10, <2>1, <2>2, ListOfThree
<1>17. Consists(((((ms1 \o ms2) \o ms3) \o msT) \o (ms4 \o ms5)) \o ms6, M)
  <2>1. Consists((ms1 \o ms2) \o ms3, (M1 \cup M2) \cup M3)
    BY <1>4, <1>5, <1>9, ListOfThree
  <2>2. Consists(ms4 \o ms5, M4 \cup M5)
    BY <1>6, <1>7, ListOfBoth
  <2>3. Consists(((ms1 \o ms2) \o ms3) \o msT, ((M1 \cup M2) \cup M3) \cup MT)
    BY <1>9, <2>1, ListOfBoth
  <2> QED
    BY <1>10, <2>2, <2>3, ListOfThree
<1>18. /\ V1 \subseteq V /\ V2 \subseteq V /\ V4 \subseteq V /\ V5 \subseteq V
       /\ M1 \subseteq M /\ M2 \subseteq M /\ M4 \subseteq M /\ M5 \subseteq M
  OBVIOUS
<1>19. \A v \in V : v \in V1 \/ v \in V2 \/ v \in V3 \/ v \in V4 \/ v \in V5 \/ v \in W6
  OBVIOUS
<1> HIDE DEF V, M
<1>20. \A v \in V : \/ Unnamed(v.source)
                    \/ OfField(i, merged, v.source)
                    \/ v.source \in Refers(i, x, merged[x])
  BY <1>4, <1>5, <1>6, <1>7, <1>11, <1>12, <1>13, <1>14, <1>15, <1>19
     DEF KindListsRight, ListRight, OfField, x
<1>21. \A h \in Fields(Kind[i]) \cap ReferringFields :
          \/ ~Given(merged[h])
          \/ h = "OpenStackConfigMap" /\ UsesClouds(i)
          \/ Mounted(i, merged, h, V, M)
  <2>1. Mounted(i, merged, f, V, M)
    BY <1>5, <1>18 DEF Mounted
  <2>2. \A h : Mounted(i, merged, h, V1, M1) => Mounted(i, merged, h, V, M)
    BY <1>18 DEF Mounted
  <2> QED
    BY <1>4, <2>1, <2>2 DEF KindListsRight, f
<1>22. \A o \in Refers(i, x, merged[x]) :
          \E v \in V, m \in M : v.source = o /\ m.name = v.name
  BY <1>7, <1>18 DEF ListRight, x
<1>23. UsesClouds(i) => \E v \in V, m \in M : v.source = CloudsConfigMap /\ m.name = v.name
  BY <1>4, <1>18 DEF KindListsRight
<1>24. Given(merged["ExtraMounts"]) => Range(ExtraMounts[i].mounts) \subseteq M
  BY <1>6, <1>18
<1>25. PodListsRight(i, merged, V, M)
  BY <1>20, <1>21, <1>22, <1>23, <1>24 DEF PodListsRight, x
<1> QED
  BY <1>1, <1>2, <1>16, <1>17, <1>25 DEF merged, spec

(* The mounted ones of the volumes V come from the objects in S.           *)
MountedFrom(S, V, M) ==
    \A o : o \in S <=> \E v \in V, m \in M : v.source = o /\ m.name = v.name

LEMMA SourcesOfLists ==
  ASSUME NEW pod, NEW vs, NEW ms, NEW V, NEW M, Consists(vs, V), Consists(ms, M),
         pod.Volumes = vs, pod.VolumeMounts = ms
  PROVE  MountedFrom(Sources(pod), V, M)
<1> SUFFICES ASSUME NEW o
             PROVE  o \in Sources(pod) <=>
                      \E v \in V, m \in M : v.source = o /\ m.name = v.name
  BY DEF MountedFrom
<1>1. /\ V = {vs[n] : n \in DOMAIN vs}
      /\ M = {ms[n] : n \in DOMAIN ms}
  BY DEF Consists, Range
<1>2. Values(ms, "name") = {ms[n].name : n \in DOMAIN ms}
  BY DEF Values
<1>3. Sources(pod) = {vs[n].source : n \in {l \in DOMAIN vs : vs[l].name \in Values(ms, "name")}}
  BY DEF Sources
<1>4. ASSUME o \in Sources(pod)
      PROVE  \E v \in V, m \in M : v.source = o /\ m.name = v.name
  <2>1. PICK n \in DOMAIN vs : vs[n].source = o /\ vs[n].name \in Values(ms, "name")
    BY <1>3, <1>4
  <2>2. PICK l \in DOMAIN ms : ms[l].name = vs[n].name
    BY <1>2, <2>1
  <2> QED
    BY <1>1, <2>1, <2>2
<1>5. ASSUME NEW v \in V, NEW m \in M, v.source = o /\ m.name = v.name
      PROVE  o \in Sources(pod)
  <2>1. PICK n \in DOMAIN vs : v = vs[n]
    BY <1>1
  <2>2. PICK l \in DOMAIN ms : m = ms[l]
    BY <1>1
  <2>3. vs[n].name \in Values(ms, "name") /\ vs[n].source = o
    BY <1>2, <1>5, <2>1, <2>2
  <2> QED
    BY <1>3, <2>3
<1> QED
  BY <1>4, <1>5

(* What an option refers to is among the objects of the user, under its    *)
(* own field.                                                              *)
LEMMA ReferredObjects ==
  ASSUME NEW i \in Instances, NEW f \in MountedOptions, NEW value,
         NEW o \in Refers(i, f, value)
  PROVE  o \in UserObjects /\ o[2] = f
<1>1. Given(value)
  BY DEF Refers
<1>2. CASE f = "ExtraConfigmapsMounts"
  <2>1. value \in {"main", "step"}
    BY <1>1 DEF Given
  <2>2. PICK n \in DOMAIN ExtraConfigmaps[i][value] :
          o = UserObject(i, f, ExtraConfigmaps[i][value][n].name)
    BY <1>1, <1>2 DEF Refers, Values
  <2>3. o \in {UserObject(i, "ExtraConfigmapsMounts", ExtraConfigmaps[i][value][l].name) :
                 l \in DOMAIN ExtraConfigmaps[i][value]}
    BY <1>2, <2>2
  <2>4. o \in UserObjects
    <3> DEFINE listed(j, v) ==
                 {UserObject(j, "ExtraConfigmapsMounts", ExtraConfigmaps[j][v][l].name) :
                    l \in DOMAIN ExtraConfigmaps[j][v]}
               all == UNION {listed(j, v) : j \in Instances, v \in {"main", "step"}}
    <3>1. all \subseteq UserObjects
      BY DEF UserObjects
    <3>2. o \in listed(i, value)
      BY <2>3
    <3> HIDE DEF listed
    <3>3. o \in all
      BY <2>1, <3>2
    <3> QED
      BY <3>1, <3>3
  <2>5. o[2] = f
    BY <2>2 DEF UserObject
  <2> QED
    BY <2>4, <2>5
<1>3. CASE f # "ExtraConfigmapsMounts"
  <2>1. o = UserObject(i, f, value) /\ f \in ReferringFields /\ value \in {"main", "step"}
    BY <1>1, <1>3 DEF Refers, MountedOptions, Given
  <2>2. o \in UserObjects
    BY <2>1 DEF UserObjects
  <2>3. o[2] = f
    BY <2>1 DEF UserObject
  <2> QED
    BY <2>2, <2>3
<1> QED
  BY <1>2, <1>3

LEMMA MountsWhatIsNamed ==
  ASSUME NEW i \in Instances, NEW g \in DOMAIN Manifests[i],
         NEW k \in Steps(SpecOf(i, g)), NEW certs \in BOOLEAN,
         NEW f \in Fields(Kind[i]) \cap MountedOptions
  PROVE  LET merged == StepSpec(Kind[i], SpecOf(i, g), k)
             pod    == BuildTestPod(i, SpecOf(i, g), k, certs)
         IN  IF f = "OpenStackConfigMap" /\ UsesClouds(i)
             THEN CloudsConfigMap \in Sources(pod)
             ELSE {o \in Sources(pod) \cap UserObjects : o[2] = f} = Refers(i, f, merged[f])
<1> DEFINE spec == SpecOf(i, g)
           merged == StepSpec(Kind[i], spec, k)
           pod == BuildTestPod(i, spec, k, certs)
           x == "ExtraConfigmapsMounts"
<1>1. /\ pod.Volumes = GetVolumes(i, spec, k, certs)
      /\ pod.VolumeMounts = GetVolumeMounts(i, spec, k, certs)
  BY DEF BuildTestPod
<1>2. PICK V, M : /\ Consists(GetVolumes(i, spec, k, certs), V)
                  /\ Consists(GetVolumeMounts(i, spec, k, certs), M)
                  /\ PodListsRight(i, merged, V, M)
  BY PodLists
<1> HIDE DEF spec, merged, pod
<1>3. \A o : o \in Sources(pod) <=> \E v \in V, m \in M : v.source = o /\ m.name = v.name
  <2> DEFINE vs == GetVolumes(i, spec, k, certs)
             ms == GetVolumeMounts(i, spec, k, certs)
  <2>1. pod.Volumes = vs /\ pod.VolumeMounts = ms
    BY <1>1
  <2>2. Consists(vs, V) /\ Consists(ms, M)
    BY <1>2
  <2> HIDE DEF vs, ms
  <2>3. MountedFrom(Sources(pod), V, M)
    BY <2>1, <2>2, SourcesOfLists
  <2> QED
    BY <2>3 DEF MountedFrom
<1>4. CASE f = "OpenStackConfigMap" /\ UsesClouds(i)
  <2>1. CloudsConfigMap \in Sources(pod)
    BY <1>2, <1>3, <1>4 DEF PodListsRight
  <2> QED
    BY <1>4, <2>1 DEF pod, spec
<1>5. CASE ~(f = "OpenStackConfigMap" /\ UsesClouds(i))
  <2>1. ASSUME NEW o \in Sources(pod) \cap UserObjects, o[2] = f
        PROVE  o \in Refers(i, f, merged[f])
    <3>1. PICK v \in V : v.source = o
      BY <1>3
    <3>2. ~Unnamed(o)
      BY <2>1 DEF Unnamed
    <3>3. OfField(i, merged, o) \/ o \in Refers(i, x, merged[x])
      BY <1>2, <3>1, <3>2 DEF PodListsRight
    <3>4. CASE OfField(i, merged, o)
      <4>1. PICK h \in ReferringFields : Given(merged[h]) /\ o = UserObject(i, h, merged[h])
        BY <3>4 DEF OfField
      <4>2. h = f
        BY <2>1, <4>1 DEF UserObject
      <4>3. f # x
        BY <4>2 DEF ReferringFields
      <4> QED
        BY <4>1, <4>2, <4>3 DEF Refers
    <3>5. CASE o \in Refers(i, x, merged[x])
      <4>1. x \in MountedOptions
        BY DEF MountedOptions
      <4>2. o[2] = x
        BY <3>5, <4>1, ReferredObjects
      <4> QED
        BY <2>1, <3>5, <4>2
    <3> QED
      BY <3>3, <3>4, <3>5
  <2>2. ASSUME NEW o \in Refers(i, f, merged[f])
        PROVE  o \in Sources(pod) \cap UserObjects /\ o[2] = f
    <3>1. o \in UserObjects /\ o[2] = f
      BY ReferredObjects
    <3>2. CASE f = x
      BY <1>2, <1>3, <2>2, <3>1, <3>2 DEF PodListsRight
    <3>3. CASE f # x
      <4>1. f \in ReferringFields /\ Given(merged[f]) /\ o = UserObject(i, f, merged[f])
        BY <2>2, <3>3 DEF Refers, MountedOptions
      <4>2. Mounted(i, merged, f, V, M)
        BY <1>2, <1>5, <4>1 DEF PodListsRight
      <4> QED
        BY <1>3, <3>1, <4>1, <4>2 DEF Mounted
    <3> QED
      BY <3>2, <3>3
  <2>3. {o \in Sources(pod) \cap UserObjects : o[2] = f} = Refers(i, f, merged[f])
    BY <2>1, <2>2
  <2> QED
    BY <1>5, <2>3 DEF pod, merged, spec
<1> QED
  BY <1>4, <1>5

LEMMA OptionCarried ==
  ASSUME NEW i \in Instances, NEW g \in DOMAIN Manifests[i],
         NEW k \in Steps(SpecOf(i, g)), NEW certs \in BOOLEAN,
         NEW f \in Fields(Kind[i]) \cap PodOptions, Documented(i, SpecOf(i, g), k, f)
  PROVE  Carries(i, BuildTestPod(i, SpecOf(i, g), k, certs), f, Meant(i, SpecOf(i, g), k, f))
<1> DEFINE spec == SpecOf(i, g)
           merged == StepSpec(Kind[i], spec, k)
           pod == BuildTestPod(i, spec, k, certs)
<1>1. merged[f] = Meant(i, spec, k, f)
  BY MergedIsMeant DEF Documented
<1>2. CASE f \in CopiedOptions
  <2>1. f = "NetworkAttachments" => NeedsNetworkAttachments(Kind[i])
    <3>1. Kind[i] \in {"HorizonTest", "AnsibleTest"} => "NetworkAttachments" \notin Fields(Kind[i])
      BY DEF Fields, StepFields, SpecOnlyFields, Step, NoStep, HorizonTestSpec, CommonOptions,
         WorkflowCommonOptions, CommonOpenstackConfig, AnsibleTestWorkflowSpec, AnsibleTestSpec
    <3>2. Kind[i] \in {"Tempest", "Tobiko"} => NeedsNetworkAttachments(Kind[i])
      BY DEF NeedsNetworkAttachments, Config, TempestConfig, TobikoConfig
    <3> QED
      BY <3>1, <3>2, KindAssumption DEF Kinds
  <2>2. pod[f] = merged[f]
    BY <1>2, <2>1 DEF BuildTestPod, CopiedOptions
  <2>3. f \notin MountedOptions /\ f \notin {"ContainerImage", "Privileged", "ExtraMounts"}
    BY <1>2 DEF MountedOptions, ReferringFields, CopiedOptions
  <2> HIDE DEF pod, merged
  <2>4. Carries(i, pod, f, merged[f])
    BY <1>2, <2>2, <2>3 DEF Carries
  <2> QED
    BY <1>1, <2>4 DEF pod
<1>3. CASE f \in MountedOptions
  <2>1. f \notin CopiedOptions /\ f \notin {"ContainerImage", "Privileged", "ExtraMounts"}
    BY <1>3 DEF MountedOptions, ReferringFields, CopiedOptions
  <2>2. IF f = "OpenStackConfigMap" /\ UsesClouds(i)
        THEN CloudsConfigMap \in Sources(pod)
        ELSE {o \in Sources(pod) \cap UserObjects : o[2] = f} = Refers(i, f, merged[f])
    BY <1>3, MountsWhatIsNamed
  <2> HIDE DEF pod, merged
  <2>3. Carries(i, pod, f, merged[f])
    BY <1>3, <2>1, <2>2 DEF Carries
  <2> QED
    BY <1>1, <2>3 DEF pod
<1>4. CASE f = "ContainerImage"
  <2>1. Given(merged[f]) => pod.Image = merged[f]
    BY <1>4 DEF BuildTestPod, GetContainerImage
  <2> HIDE DEF pod, merged
  <2>2. Carries(i, pod, f, merged[f])
    BY <1>4, <2>1 DEF Carries, CopiedOptions, MountedOptions, ReferringFields
  <2> QED
    BY <1>1, <2>2 DEF pod
<1>5. CASE f = "Privileged"
  <2>1. /\ pod.SecurityContext.AllowPrivilegeEscalation = Given(merged[f])
        /\ pod.SecurityContext.RunAsNonRoot = ~Given(merged[f])
        /\ pod.AutomountToken = Given(merged[f])
    BY <1>5 DEF BuildTestPod, GetSecurityContext
  <2> HIDE DEF pod, merged
  <2>2. Carries(i, pod, f, merged[f])
    BY <1>5, <2>1 DEF Carries, CopiedOptions, MountedOptions, ReferringFields
  <2> QED
    BY <1>1, <2>2 DEF pod
<1>6. CASE f = "ExtraMounts"
  <2>1. Given(merged[f]) => Range(ExtraMounts[i].mounts) \subseteq Range(pod.VolumeMounts)
    <3>1. pod.VolumeMounts = GetVolumeMounts(i, spec, k, certs)
      BY DEF BuildTestPod
    <3>2. PICK V, M : /\ Consists(GetVolumeMounts(i, spec, k, certs), M)
                      /\ PodListsRight(i, merged, V, M)
      BY PodLists
    <3> QED
      BY <1>6, <3>1, <3>2 DEF PodListsRight, Consists
  <2> HIDE DEF pod, merged
  <2>2. Carries(i, pod, f, merged[f])
    BY <1>6, <2>1 DEF Carries, CopiedOptions, MountedOptions, ReferringFields
  <2> QED
    BY <1>1, <2>2 DEF pod
<1> QED
  BY <1>2, <1>3, <1>4, <1>5, <1>6 DEF PodOptions

(* Whatever the manifests, the updates and the interleaving of the passes: *)
(* the pod that a pass builds mounts the ConfigMaps and Secrets that its   *)
(* step names, or else the spec, and no others of the user, and has the    *)
(* image, the networks, the placement and the rights that they say         *)
(* (BuildTestPod, util/common.go:77, and GetVolumes of each kind, after    *)
(* MergeSections, common.go:950), but for the deviations of MergeSections  *)
(* that are known.  NamesDiffer, as pods are found by the name of the      *)
(* instance only.                                                          *)
THEOREM PodsCarryWhatIsMeant == ASSUME NamesDiffer PROVE Spec => []PodsAsMeant
<1>1. ManifestInv => PodsAsMeant
  <2> SUFFICES ASSUME ManifestInv, NEW i \in Instances, pc[i] = "create"
               PROVE  AllCarried[i][mem[i].cr][mem[i].step]
    BY DEF PodsAsMeant
  <2> DEFINE spec == SpecOf(i, mem[i].cr)
             k == mem[i].step
  <2>1. mem[i].cr \in DOMAIN Manifests[i] /\ k \in Steps(spec)
    BY DEF ManifestInv, PassesOfManifests, SpecInHand
  <2>2. \A f \in Fields(Kind[i]) \cap PodOptions, certs \in BOOLEAN :
           \/ ~Documented(i, spec, k, f)
           \/ Carries(i, BuildTestPod(i, spec, k, certs), f, Meant(i, spec, k, f))
    BY <2>1, OptionCarried
  <2> QED
    BY <2>1, <2>2 DEF AllCarried, SpecOf
<1> QED
  BY <1>1, ManifestInvHolds, PTL
=============================================================================
