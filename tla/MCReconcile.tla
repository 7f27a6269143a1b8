----------------------------- MODULE MCReconcile -----------------------------
(* Instances for model checking the reconcile passes: which custom         *)
(* resources exist, and what is asked of them.                             *)
EXTENDS Claims, TLC

CONSTANTS tempest, tempest2, tobiko, ansible, horizon

AllKinds ==
    tempest :> "Tempest" @@ tempest2 :> "Tempest" @@ tobiko :> "Tobiko"
      @@ ansible :> "AnsibleTest" @@ horizon :> "HorizonTest"

MCKind == [i \in Instances |-> AllKinds[i]]

(* All names differ, but see the runs about names.                         *)
OwnNames == [i \in Instances |-> i]

(* Two kinds, one name.                                                    *)
SameName == [i \in Instances |-> tempest]

Plain == [workflow |-> <<>>, parallel |-> FALSE]
PlainParallel == [Plain EXCEPT !.parallel = TRUE]
TwoSteps == [workflow |-> <<"inherit", "inherit">>, parallel |-> FALSE]
TwoStepsParallel == [TwoSteps EXCEPT !.parallel = TRUE]
(* The first step waits for the lock, the second does not.                 *)
MixedSteps == [TwoSteps EXCEPT !.workflow[2] = "parallel"]
(* And the other way round.                                                *)
MixedStepsParallel == [TwoStepsParallel EXCEPT !.workflow[2] = "serial"]

NothingMissing == [i \in Instances |-> {}]
InputsMissing == [i \in Instances |-> IF i = tempest THEN {"inputs"} ELSE {}]

(* Serial specs that do not change.                                        *)
SerialSpecs ==
    [i \in Instances |-> IF i = tempest THEN <<TwoSteps>> ELSE <<Plain>>]

PlainSpecs == [i \in Instances |-> <<Plain>>]

(* A workflow is dropped, beside plain specs.                              *)
UpdatedSpecs ==
    [i \in Instances |-> IF i = tempest THEN <<TwoSteps, Plain>> ELSE <<Plain>>]

(* A workflow is added.                                                    *)
GrownSpecs == [i \in Instances |-> <<Plain, TwoSteps>>]

(* A plain spec stops being serial.                                        *)
RelaxedSpecs ==
    [i \in Instances |-> IF i = tempest THEN <<Plain, PlainParallel>>
                                         ELSE <<Plain>>]

(* Steps that take the lock and steps that do not, in one workflow.        *)
MixedSpecs ==
    [i \in Instances |->
       CASE i = tempest  -> <<MixedSteps>>
         [] i = tempest2 -> <<MixedStepsParallel>>
         [] OTHER        -> <<Plain>>]
=============================================================================
