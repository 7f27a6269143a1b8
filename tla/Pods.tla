-------------------------------- MODULE Pods --------------------------------
(***************************************************************************)
(* The test pods of the custom resources, and what CommonReconcile decides *)
(* from a list of them (internal/controller/common.go).  `view' is the set *)
(* of pods the code looks at: a function from pod names to pods, either    *)
(* the API server's or the informer cache's.  Of a spec only the length of *)
(* its workflow matters here.                                              *)
(***************************************************************************)
EXTENDS Integers, Sequences, Resources

Phases ==
    { "Pending",
      "Running",  \* Running or Unknown: NextAction answers Wait to both
      "Done" }    \* Succeeded or Failed: NextAction does not tell them apart

-----------------------------------------------------------------------------
WorkflowLength(spec) == Len(spec.workflow)

(* The indices of the test pods a spec asks for.                           *)
Steps(spec) == 0 .. (IF WorkflowLength(spec) = 0 THEN 0
                                                 ELSE WorkflowLength(spec) - 1)

(* The hash annotation; CalculateConfigHash is taken to be injective.      *)
CalculateConfigHash(i, spec) == <<Kind[i], spec>>

(* <name> without a workflow, <name>-s<step>-<step name> with one.         *)
GetPodName(i, spec, step) ==
    <<Name[i], IF WorkflowLength(spec) = 0 THEN -1 ELSE step>>

(* Mistake: off by one.                                                    *)
isAlmostLastPodIndex(index, length) == index >= length - 2

isLastPodIndex(index, length) ==
    IF length = 0 THEN index = length ELSE index = length - 1

-----------------------------------------------------------------------------
(* The pods that GetLastPod and CheckConfigChange list: by the label       *)
(* instanceName alone, without the ones that are being deleted.            *)
Listed(i, view) ==
    {n \in DOMAIN view : Name[view[n].owner] = Name[i] /\ ~view[n].deleting}

(* GetLastPod: any of the pods with the highest step (the list comes in no *)
(* particular order).                                                      *)
LastPods(i, view) ==
    {n \in Listed(i, view) :
        \A m \in Listed(i, view) : view[m].step <= view[n].step}

Decision(action, step) == [action |-> action, step |-> step]

(* Mistake: the next step does not wait for the end of the last.           *)
AfterPodWithoutWaiting(pod, length) ==
    CASE pod.phase = "Pending" -> Decision("CheckPending", pod.step)
      [] pod.phase # "Pending" /\ ~isLastPodIndex(pod.step, length) ->
            Decision("CreateNextPod", pod.step + 1)
      [] pod.phase # "Pending" /\ isLastPodIndex(pod.step, length) ->
            Decision("EndTesting", pod.step)

(* NextAction, from the phase of the last pod.                             *)
AfterPod(pod, length) ==
    CASE pod.phase = "Pending" -> Decision("CheckPending", pod.step)
      [] pod.phase = "Running" -> Decision("Wait", pod.step)
      [] pod.phase = "Done" /\ ~isLastPodIndex(pod.step, length) ->
            Decision("CreateNextPod", pod.step + 1)
      [] pod.phase = "Done" /\ isLastPodIndex(pod.step, length) ->
            Decision("EndTesting", pod.step)

NextActions(i, spec, view) ==
    IF Listed(i, view) = {}
    THEN {Decision("CreateFirstPod", 0)}
    ELSE {AfterPod(view[n], WorkflowLength(spec)) : n \in LastPods(i, view)}

(* Mistake: a changed spec is not noticed.                                 *)
ConfigNeverChanged(i, spec, view) == {FALSE}

(* CheckConfigChange compares the spec with the first pod of the list; the *)
(* answers it may give are TRUE (recreate) and FALSE.                      *)
ConfigChanged(i, spec, view) ==
    IF Listed(i, view) = {}
    THEN {FALSE}
    ELSE {view[n].hash # CalculateConfigHash(i, spec) : n \in Listed(i, view)}
=============================================================================
