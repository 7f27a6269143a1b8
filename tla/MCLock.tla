------------------------------- MODULE MCLock -------------------------------
(* The lock protocol alone, for three instances of which one carries no    *)
(* finalizer.                                                              *)
EXTENDS Lock, TLC

CONSTANTS tempest1, tempest2, tobiko

MCInstances == {tempest1, tempest2, tobiko}
MCKind == tempest1 :> "Tempest" @@ tempest2 :> "Tempest" @@ tobiko :> "Tobiko"
MCName == [i \in MCInstances |-> i]
=============================================================================
