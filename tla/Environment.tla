----------------------------- MODULE Environment -----------------------------
(***************************************************************************)
(* How the options of a spec, after the merge, reach the container: as     *)
(* environment variables and as files (setTempestConfigVars and the        *)
(* Prepare functions of the other kinds), and what the container reads     *)
(* there.  A variable or a file is named by the option that it carries.    *)
(***************************************************************************)
EXTENDS Merge, SequencesExt

Given(value) == value \in {"main", "step"}

(* Variables or files of two functions; the first prevails.                *)
u ++ v ==
    [x \in DOMAIN u \cup DOMAIN v |-> IF x \in DOMAIN u THEN u[x] ELSE v[x]]

(* What the given fields are: texts, with one for an option that is zero.  *)
FormatBool(value) == IF Given(value) THEN "true" ELSE "false"
StringOrPlaceholder(value, placeholder) ==
    IF Given(value) THEN value ELSE placeholder

SetBoolEnvVars(merged, F) == [f \in F |-> FormatBool(merged[f])]
SetStringEnvVars(merged, F) == [f \in F |-> StringOrPlaceholder(merged[f], "")]
(* Variables that are left unset for an option that is zero.               *)
SetGiven(merged, F) == [f \in {g \in F : Given(merged[g])} |-> merged[f]]
SetFileEnvVars(merged, F) == [f \in {g \in F : Given(merged[g])} |-> "path"]

-----------------------------------------------------------------------------
(* Lists of records become one variable for each attribute, in which the   *)
(* values are separated by commas.  A text is a sequence of tokens here.   *)
Attributes ==
    [ ExternalPlugin |-> {"Repository", "ChangeRepository", "ChangeRefspec"},
      ExtraImages    |-> { "URL", "OsCloud", "ContainerFormat", "ID", "Name",
                           "DiskFormat", "ImageCreationTimeout", "Flavor.ID",
                           "Flavor.Name", "Flavor.OsCloud", "Flavor.RAM",
                           "Flavor.Disk", "Flavor.Vcpus" },
      ExtraRPMs      |-> {"Name"} ]

(* Those that are written as "-" when they are zero; all others are "".    *)
Dashed == { "ChangeRepository", "ChangeRefspec", "Flavor.RAM", "Flavor.Disk",
            "Flavor.Vcpus" }

(* The attribute that every entry of a list has.                           *)
Required ==
    [ExternalPlugin |-> "Repository", ExtraImages |-> "URL", ExtraRPMs |-> "Name"]

(* The lists that manifests give: entries with all attributes and entries  *)
(* with the required one only; for each, the attributes it has.            *)
Entries(f, value) ==
    CASE value = "main" -> <<{Required[f]}, Attributes[f], {Required[f]}>>
      [] value = "step" -> <<Attributes[f], {Required[f]}>>
      [] OTHER          -> <<>>

(* The value of attribute a in an entry.                                   *)
AttributeText(entry, a) ==
    IF a \in entry THEN <<a>> ELSE IF a \in Dashed THEN <<"-">> ELSE <<>>

(* Mistake: nothing at all is added for an empty value.                    *)
SetDictEnvVarWithoutBlanks(entries, a) ==
    FlattenSeq([n \in DOMAIN entries |->
                  IF a \in entries[n] \cup Dashed
                  THEN AttributeText(entries[n], a) \o <<",">> ELSE <<>>])

SetDictEnvVar(entries, a) ==
    FlattenSeq([n \in DOMAIN entries |-> AttributeText(entries[n], a) \o <<",">>])

Dictionaries(merged, F) ==
    [f \in F |-> [a \in Attributes[f] |->
                    SetDictEnvVar(Entries(f, merged[f]), a)]]

(* What a text has before its n-th comma and after the one before.         *)
CommaAt(text, n) ==
    CHOOSE p \in 0 .. Len(text) :
       /\ p > 0 => text[p] = ","
       /\ Cardinality({q \in 1 .. p : text[q] = ","}) = n
Piece(text, n) == SubSeq(text, CommaAt(text, n - 1) + 1, CommaAt(text, n) - 1)
Pieces(text) == Cardinality({q \in DOMAIN text : text[q] = ","})

(* The entries that the container puts together from the variables, as far *)
(* as it finds a piece for each in all of them.                            *)
ReadEntries(texts, f) ==
    [n \in 1 .. Pieces(texts[Required[f]]) |->
       {a \in Attributes[f] : /\ n <= Pieces(texts[a])
                              /\ Piece(texts[a], n) \notin {<<>>, <<"-">>}}]

-----------------------------------------------------------------------------
NoVariables == [f \in {} |-> ""]

(* setTempestConfigVars, setTempestconfConfigVars and the rest of          *)
(* generateServiceConfigMaps.                                              *)
TempestFiles == {"WorkerFile", "IncludeList", "ExcludeList", "ExpectedFailuresList"}
TempestconfFiles == {"DeployerInput", "TestAccounts", "Profile"}

setTempestConfigVars(merged) ==
    SetFileEnvVars(merged, TempestFiles)
      ++ SetBoolEnvVars(merged, {"Serial", "RunParallel", "Smoke"})
      ++ SetGiven(merged, {"Concurrency"})

setTempestconfConfigVars(merged) ==
    SetFileEnvVars(merged, TempestconfFiles)
      ++ SetBoolEnvVars(merged, { "Create", "CollectTiming", "Insecure",
             "NoDefaultDeployer", "ConfDebug", "Verbose", "NonAdmin",
             "RetryImage", "ConvertToRaw" })
      ++ SetStringEnvVars(merged, { "Timeout", "FlavorMinMem", "FlavorMinDisk",
             "Out", "CreateAccountsFile", "GenerateProfile", "ImageDiskFormat",
             "Image", "NetworkID", "Append", "Remove", "Overrides" })

TempestEnvVars(merged) ==
    setTempestConfigVars(merged)
      ++ setTempestconfConfigVars(merged)
      ++ SetBoolEnvVars(merged, { "Debug", "Cleanup", "RerunFailedTests",
                                  "RerunOverrideStatus" })
      ++ SetStringEnvVars(merged, {"TimingDataUrl"})

TempestLists == {"ExternalPlugin", "ExtraImages", "ExtraRPMs"}

(* ConfigOverwrite, when it is given, has a file of its own and one of the *)
(* name that is used for ExcludeList.                                      *)
OverwrittenFiles == {"ExcludeList", "ConfigOverwrite"}

customData(merged) ==
    (IF Given(merged["ConfigOverwrite"])
     THEN [f \in OverwrittenFiles |-> merged["ConfigOverwrite"]]
     ELSE NoVariables)
      ++ SetGiven(merged, TempestFiles \cup TempestconfFiles)

(* PreventCreate is written "True" or not at all.                          *)
PrepareTobikoEnvVars(merged) ==
    SetBoolEnvVars(merged, {"Debug"})
      ++ [f \in {"PreventCreate"} |-> IF Given(merged[f]) THEN "True" ELSE ""]
      ++ SetStringEnvVars(merged, {"Testenv", "Version"})
      ++ SetGiven(merged, {"NumProcesses", "Patch"})

(* The files of Tobiko: the keys are mounted only when both are given.     *)
TobikoKeys == {"PrivateKey", "PublicKey"}
TobikoFiles == {"Config"} \cup TobikoKeys

mountKeys(merged) == Given(merged["PrivateKey"]) /\ Given(merged["PublicKey"])

(* Two options in one variable, as words.                                  *)
PreparePytestAddopts(merged) ==
    LET given(f) == IF Given(merged[f]) THEN <<merged[f]>> ELSE <<>>
    IN  IF Given(merged["SkipRegexList"])
        THEN given("PytestAddopts") \o <<"--skipregex">> \o given("SkipRegexList")
        ELSE given("PytestAddopts")

(* What pytest makes of them: the word after the option, and any other.    *)
ReadPytestAddopts(words) ==
    LET skip(p) == \/ words[p] = "--skipregex"
                   \/ p > 1 /\ words[p - 1] = "--skipregex"
        word(P) == IF P = {} THEN "empty" ELSE words[Max(P)]
    IN  [ SkipRegexList |-> word({p \in 2 .. Len(words) : skip(p - 1) /\ skip(p)}),
          PytestAddopts |-> word({p \in DOMAIN words : ~skip(p)}) ]

PrepareAnsibleEnv(merged) ==
    SetBoolEnvVars(merged, {"Debug"})
      ++ SetStringEnvVars(merged, { "AnsibleExtraVars", "AnsibleVarFiles",
             "AnsibleInventory", "AnsibleGitRepo", "AnsibleGitBranch",
             "AnsiblePlaybookPath", "AnsibleCollections" })

(* What is said of the image, the project, its user and the flavor does    *)
(* not come from the spec.                                                 *)
FixedOptions == { "ImageUrl", "ProjectName", "User", "Password", "FlavorName",
                  "LogsDirectoryName" }

PrepareHorizonTestEnvVars(merged) ==
    SetBoolEnvVars(merged, {"Debug"})
      ++ SetStringEnvVars(merged, { "AdminUsername", "AdminPassword",
             "DashboardUrl", "AuthUrl", "RepoUrl", "HorizonRepoBranch",
             "ExtraFlag", "ProjectNameXpath", "ProjectTextXpath" })
      ++ [f \in FixedOptions |-> "fixed"]

-----------------------------------------------------------------------------
(* All that the container of a kind is given.                              *)
Environment(kind, merged) ==
    CASE kind = "Tempest" ->
            [ vars  |-> TempestEnvVars(merged),
              files |-> customData(merged),
              lists |-> Dictionaries(merged, TempestLists),
              words |-> <<>> ]
      [] kind = "Tobiko" ->
            [ vars  |-> PrepareTobikoEnvVars(merged),
              files |-> SetStringEnvVars(merged,
                           IF mountKeys(merged) THEN TobikoFiles ELSE {"Config"}),
              lists |-> NoVariables,
              words |-> PreparePytestAddopts(merged) ]
      [] kind = "AnsibleTest" ->
            [ vars  |-> PrepareAnsibleEnv(merged),
              files |-> NoVariables,
              lists |-> NoVariables,
              words |-> <<>> ]
      [] kind = "HorizonTest" ->
            [ vars  |-> PrepareHorizonTestEnvVars(merged),
              files |-> NoVariables,
              lists |-> NoVariables,
              words |-> <<>> ]

(* What the container reads of option f: the variable, or the file that it *)
(* names; the files of Tobiko and those of ConfigOverwrite need no         *)
(* variable.  An option that is in none of them reads as empty.            *)
Reads(e, f) ==
    LET text ==
          CASE f \in DOMAIN e.vars -> e.vars[f]
            [] f \in (TobikoFiles \cup {"ConfigOverwrite"}) \cap DOMAIN e.files ->
                  e.files[f]
            [] f \in {"SkipRegexList", "PytestAddopts"} -> ReadPytestAddopts(e.words)[f]
            [] OTHER -> ""
    IN  CASE text = "path"             -> e.files[f]
          [] text \in {"", "false"}    -> "empty"
          [] text \in {"true", "True"} -> "on"
          [] OTHER                     -> text
=============================================================================
