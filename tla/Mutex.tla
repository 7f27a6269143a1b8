-------------------------------- MODULE Mutex --------------------------------
(***************************************************************************)
(* What the test-operator lock promises, without ConfigMaps, caches or     *)
(* retries: at any time at most one instance holds it, an instance is      *)
(* inside (it has been told that it may create a serial test pod) only     *)
(* while it is the holder, and the lock is never taken from an instance    *)
(* that is inside.                                                         *)
(***************************************************************************)
CONSTANTS
    Instances,  \* the test custom resources of one namespace
    NoOwner     \* "nobody"

VARIABLES
    holder,     \* the instance that holds the lock, or NoOwner
    inside      \* the instances that were told that they hold it

vars == <<holder, inside>>

Init ==
    /\ holder = NoOwner
    /\ inside = {}

(* The free lock is granted; the new holder may learn of it at once.       *)
Grant(i) ==
    /\ holder = NoOwner
    /\ holder' = i
    /\ inside' \in {inside, inside \cup {i}}

(* The holder is told again that it holds the lock.                        *)
Enter(i) ==
    /\ holder = i
    /\ inside' = inside \cup {i}
    /\ UNCHANGED holder

(* Some instances stop relying on the lock (they may stay its holder).     *)
Leave ==
    /\ inside' \in SUBSET inside
    /\ UNCHANGED holder

(* The lock is given back by, or on behalf of, a holder that is outside.   *)
Free ==
    /\ holder # NoOwner
    /\ holder \notin inside
    /\ holder' = NoOwner
    /\ UNCHANGED inside

Next ==
    \/ \E i \in Instances : Grant(i) \/ Enter(i)
    \/ Leave
    \/ Free

Spec == Init /\ [][Next]_vars

(* Mutual exclusion: only the holder is ever inside.                       *)
Exclusion == inside \subseteq {holder}
=============================================================================
