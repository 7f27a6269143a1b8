------------------------------- MODULE Claims -------------------------------
(***************************************************************************)
(* What the documentation and the comments of the repository say of the    *)
(* reconcile passes, where the code does something else.  Each claim is    *)
(* refuted by a run of its own.                                            *)
(***************************************************************************)
EXTENDS Reconcile

(* docs/source/guide.rst:234: "by default, the test-operator allows only   *)
(* one test pod to be running at the same time".                           *)
OneTestPodAtATime ==
    \A m, n \in DOMAIN pods :
       (/\ pods[m].phase = "Running" /\ pods[n].phase = "Running"
        /\ Serial(m) /\ Serial(n)
        /\ {pods[m].owner, pods[n].owner} \cap gone = {}) => m = n

(* common.go:587: "Lock can be only released by the instance that created  *)
(* it".                                                                    *)
LockReleasedByItsCreator ==
    [][ lock # NoOwner /\ lock' = NoOwner =>
          stage[lock] = "delete" \/ lock \in gone ]_vars

(* common_webhook.go:81: "The associated pods will be recreated to apply   *)
(* changes."                                                               *)
PodsRecreated ==
    \A i \in Instances : <>[]Tested(i, gen[i])

(* common.go:122: while the pod is pending, "prerequisite checks should be *)
(* run on each reconcile": network attachments that come up later are      *)
(* noticed, and the instance becomes Ready.                                *)
EventuallyReady ==
    \A i \in Instances :
       <>[](cond[i] # NoConditions /\ cond[i]["Ready"] = "True")
=============================================================================
