----------------------------- MODULE Conditions -----------------------------
(***************************************************************************)
(* The status conditions of a test custom resource: a function from the    *)
(* conditions it has to their status.  A resource that was never           *)
(* reconciled has none.                                                    *)
(***************************************************************************)
EXTENDS Resources

Statuses == {"True", "False", "Unknown"}

ConditionTypes ==
    {"Ready", "InputReady", "ServiceConfigReady", "NetworkAttachmentsReady",
     "DeploymentReady"}

NoConditions == [c \in {} |-> "Unknown"]

ConditionsOf(kind) == Config[kind].InitialConditions

InitialConditions(kind) == [c \in ConditionsOf(kind) |-> "Unknown"]

AllConditions ==
    {NoConditions} \cup UNION {[ConditionsOf(k) -> Statuses] : k \in Kinds}

Mark(cond, types, status) ==
    [c \in DOMAIN cond |-> IF c \in types THEN status ELSE cond[c]]

SubConditions(cond) == DOMAIN cond \ {"Ready"}

AllSubConditionIsTrue(cond) == \A c \in SubConditions(cond) : cond[c] = "True"

(* Mirror takes the worst sub-condition: False, then Unknown, then True.   *)
Mirror(cond) ==
    CASE \E c \in SubConditions(cond) : cond[c] = "False"   -> "False"
      [] AllSubConditionIsTrue(cond)                        -> "True"
      [] OTHER                                              -> "Unknown"

(* The deferred function of CommonReconcile mirrors into Ready only while  *)
(* Ready is Unknown.                                                       *)
Deferred(cond) ==
    IF "Ready" \in DOMAIN cond /\ cond["Ready"] = "Unknown"
    THEN Mark(cond, {"Ready"}, Mirror(cond))
    ELSE cond

(* The last lines of EndTesting and of a complete pass.                    *)
ReadyWhenAllTrue(cond) ==
    IF AllSubConditionIsTrue(cond) THEN Mark(cond, {"Ready"}, "True") ELSE cond
=============================================================================
