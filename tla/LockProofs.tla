----------------------------- MODULE LockProofs -----------------------------
(***************************************************************************)
(* Proofs about the lock protocol, for any number of instances: types,     *)
(* ownership of the lock by whoever AcquireLock let through, who may       *)
(* remove the lock, and that the protocol implements module Mutex.  These, *)
(* but for the types, assume that nobody deletes the lock by hand and that *)
(* the cache does not lag for more than the 100 s ReleaseLock waits; the   *)
(* last theorem says what remains true when the lock is deleted by hand.   *)
(***************************************************************************)
EXTENDS Lock, TLAPS

(* The type invariant holds in every environment.                          *)
THEOREM LockTypes == LockSpec => []LockTypeOK
<1>1. LockInit => LockTypeOK
  BY DEF LockInit, LockTypeOK, Stages
<1>2. LockTypeOK /\ [LockNext]_lockVars => LockTypeOK'
  <2> SUFFICES ASSUME LockTypeOK, [LockNext]_lockVars PROVE LockTypeOK'
    OBVIOUS
  <2> USE DEF LockTypeOK, Stages
  <2>1. ASSUME NEW i \in Instances, NEW parallel \in BOOLEAN,
               AcquireLock(i, parallel)
        PROVE  LockTypeOK'
    BY <2>1 DEF AcquireLock, MoveTo
  <2>2. ASSUME NEW i \in Instances, CreateLock(i) PROVE LockTypeOK'
    BY <2>2 DEF CreateLock, MoveTo
  <2>3. ASSUME NEW i \in Instances, CreateLockFails(i) PROVE LockTypeOK'
    BY <2>3 DEF CreateLockFails, MoveTo
  <2>4. ASSUME NEW i \in Instances, ReleaseLock(i) PROVE LockTypeOK'
    BY <2>4 DEF ReleaseLock, MoveTo
  <2>5. ASSUME NEW i \in Instances, DeleteLock(i) PROVE LockTypeOK'
    BY <2>5 DEF DeleteLock, MoveTo
  <2>6. ASSUME NEW i \in Instances, DeleteLockFails(i) PROVE LockTypeOK'
    BY <2>6 DEF DeleteLockFails, MoveTo
  <2>7. ASSUME NEW i \in Instances, ConfirmRelease(i) \/ GiveUpRelease(i)
        PROVE  LockTypeOK'
    BY <2>7 DEF ConfirmRelease, GiveUpRelease, MoveTo
  <2>8. ASSUME NEW i \in Instances, LeaveLock(i) PROVE LockTypeOK'
    BY <2>8 DEF LeaveLock, MoveTo
  <2>9. ASSUME LockEnvironment PROVE LockTypeOK'
    BY <2>9 DEF LockEnvironment, SyncLock, RemoveInstance, CollectLock,
                UserDeletesLock, RestartLock
  <2>10. CASE UNCHANGED lockVars
    BY <2>10 DEF lockVars
  <2> QED
    BY <2>1, <2>2, <2>3, <2>4, <2>5, <2>6, <2>7, <2>8, <2>9, <2>10
       DEF LockNext, StartLock, ContinueLock
<1> QED
  BY <1>1, <1>2, PTL DEF LockSpec

-----------------------------------------------------------------------------
(* A Tempest is removed only between its passes (RemoveInstance).          *)
GoneAreOut == Orderly => \A i \in gone : stage[i] = "out"

(* The inductive invariant behind mutual exclusion.                        *)
Ownership == LockTypeOK /\ HeldIsOwned /\ CacheIsTruthful /\ GoneAreOut

(* Resources without the finalizer do not come back, so a history that is  *)
(* orderly after a step was orderly before it.                             *)
LEMMA OrderlyBefore ==
  ASSUME [LockNext]_lockVars, Orderly'
  PROVE  Orderly
BY DEF Orderly, LockNext, StartLock, ContinueLock, AcquireLock, CreateLock,
       CreateLockFails, ReleaseLock, DeleteLock, DeleteLockFails,
       ConfirmRelease, GiveUpRelease, LeaveLock, LockEnvironment, SyncLock,
       RemoveInstance, CollectLock, UserDeletesLock, RestartLock, lockVars

(* In every environment, who is gone stays outside.                        *)
LEMMA GoneStayOut ==
  ASSUME LockTypeOK, GoneAreOut, [LockNext]_lockVars
  PROVE  GoneAreOut'
<1> SUFFICES ASSUME Orderly', Orderly, NEW i \in gone' PROVE stage'[i] = "out"
  BY OrderlyBefore DEF GoneAreOut
<1> USE DEF LockTypeOK
<1>1. i \in Instances /\ i \in Finalized
  BY DEF Orderly, Finalized
<1>2. CASE i \in gone
  <2>1. stage[i] = "out"
    BY <1>2 DEF GoneAreOut
  <2>2. ~StartLock(i)
    BY <1>1, <1>2 DEF StartLock
  <2>3. ~ContinueLock(i)
    BY <2>1 DEF ContinueLock, CreateLock, CreateLockFails, DeleteLock, DeleteLockFails,
       ConfirmRelease, GiveUpRelease, LeaveLock
  <2>4. ASSUME NEW j \in Instances \ {i}, StartLock(j) \/ ContinueLock(j)
        PROVE  stage'[i] = stage[i]
    BY <1>1, <2>4 DEF StartLock, ContinueLock, AcquireLock, ReleaseLock, CreateLock,
       CreateLockFails, DeleteLock, DeleteLockFails, ConfirmRelease, GiveUpRelease, LeaveLock,
       MoveTo
  <2>5. ASSUME LockEnvironment PROVE stage'[i] = "out"
    BY <1>1, <2>1, <2>5 DEF LockEnvironment, SyncLock, RemoveInstance, CollectLock,
       UserDeletesLock, RestartLock
  <2> QED
    BY <2>1, <2>2, <2>3, <2>4, <2>5 DEF LockNext, lockVars
<1>3. CASE i \notin gone
  <2>1. RemoveInstance(i)
    BY <1>3 DEF LockNext, StartLock, ContinueLock, AcquireLock, ReleaseLock, CreateLock,
       CreateLockFails, DeleteLock, DeleteLockFails, ConfirmRelease, GiveUpRelease, LeaveLock,
       LockEnvironment, SyncLock, RemoveInstance, CollectLock, UserDeletesLock, RestartLock,
       lockVars
  <2> QED
    BY <1>1, <2>1 DEF RemoveInstance
<1> QED
  BY <1>2, <1>3

(* Every step of the protocol preserves it, whoever takes the step.        *)
LEMMA OwnershipStep ==
  ASSUME Admitted = {}, Ownership, [LockNext]_lockVars, LockTypeOK'
  PROVE  Ownership'
<1> USE NoOwnerAssumption
<1> DEFINE Kept == HeldIsOwned' /\ CacheIsTruthful' /\ GoneAreOut'
<1>0. CASE ~Orderly'
  BY <1>0 DEF Ownership, HeldIsOwned, CacheIsTruthful, GoneAreOut
<1> SUFFICES ASSUME Orderly', Orderly PROVE Kept
  BY <1>0, OrderlyBefore DEF Ownership
<1> USE DEF Ownership, HeldIsOwned, CacheIsTruthful, GoneAreOut, LockTypeOK
<1>1. ASSUME NEW i \in Instances, NEW parallel \in BOOLEAN,
             i \notin gone, AcquireLock(i, parallel)
      PROVE  Kept
  BY <1>1 DEF AcquireLock, MoveTo
<1>2. ASSUME NEW i \in Instances, CreateLock(i) PROVE Kept
  BY <1>2 DEF CreateLock, MoveTo
<1>3. ASSUME NEW i \in Instances, CreateLockFails(i) PROVE Kept
  BY <1>3 DEF CreateLockFails, MoveTo
<1>4. ASSUME NEW i \in Instances, i \notin gone, ReleaseLock(i) PROVE Kept
  BY <1>4 DEF ReleaseLock, MoveTo
<1>5. ASSUME NEW i \in Instances, DeleteLock(i) PROVE Kept
  BY <1>5 DEF DeleteLock, MoveTo
<1>6. ASSUME NEW i \in Instances, DeleteLockFails(i) PROVE Kept
  BY <1>6 DEF DeleteLockFails, MoveTo
<1>7. ASSUME NEW i \in Instances, ConfirmRelease(i) \/ GiveUpRelease(i)
      PROVE  Kept
  BY <1>7 DEF ConfirmRelease, GiveUpRelease, MoveTo
<1>8. ASSUME NEW i \in Instances, LeaveLock(i) PROVE Kept
  BY <1>8 DEF LeaveLock, MoveTo
<1>9. ASSUME SyncLock PROVE Kept
  BY <1>9 DEF SyncLock
<1>10. ASSUME NEW i \in Instances, RemoveInstance(i) PROVE Kept
  BY <1>10 DEF RemoveInstance, Orderly
<1>11. ASSUME CollectLock PROVE Kept
  BY <1>11 DEF CollectLock
<1>12. ASSUME UserDeletesLock PROVE Kept
  BY <1>12 DEF UserDeletesLock
<1>13. ASSUME RestartLock PROVE Kept
  BY <1>13 DEF RestartLock
<1>14. CASE UNCHANGED lockVars
  BY <1>14 DEF lockVars, Orderly
<1>15. \A i \in Instances : StartLock(i) => i \notin gone
  BY DEF StartLock, Orderly
<1>16. \A i \in Instances : stage[i] # "out" => i \notin gone
  OBVIOUS
<1> QED
  BY <1>1, <1>2, <1>3, <1>4, <1>5, <1>6, <1>7, <1>8, <1>9, <1>10, <1>11,
     <1>12, <1>13, <1>14, <1>15, <1>16
     DEF LockNext, StartLock, ContinueLock, LockEnvironment

(* Mutual exclusion at the level of the protocol: whoever AcquireLock let  *)
(* through owns the ConfigMap, and so does whoever is about to delete it.  *)
THEOREM LockExclusion ==
  ASSUME Admitted = {}
  PROVE  LockSpec => [](HeldIsOwned /\ CacheIsTruthful /\ GoneAreOut)
<1>1. LockInit => Ownership
  BY NoOwnerAssumption
     DEF LockInit, Ownership, LockTypeOK, Stages, HeldIsOwned, CacheIsTruthful,
         GoneAreOut
<1>2. LockTypeOK' /\ Ownership /\ [LockNext]_lockVars => Ownership'
  BY OwnershipStep
<1>3. Ownership => HeldIsOwned /\ CacheIsTruthful /\ GoneAreOut
  BY DEF Ownership
<1> QED
  BY <1>1, <1>2, <1>3, LockTypes, PTL DEF LockSpec

(* A stale cache names an instance as the owner of a lock that is not its  *)
(* own only while that instance polls in ReleaseLock.                      *)
THEOREM LockCacheTruthful ==
  ASSUME Admitted = {}
  PROVE  LockSpec => []CacheIsTruthful
BY LockExclusion, PTL

(* However often the lock is deleted by hand, one time after the other:    *)
(* one instance at most takes itself for the owner without being it        *)
(* (AcquireLock and ReleaseLock, common.go:536 and 576).  The polling of   *)
(* ReleaseLock may not be outlasted by the cache, whence no "longLag".     *)
THEOREM LockHarmIsBounded ==
  ASSUME "longLag" \notin Admitted, "overlap" \notin Admitted
  PROVE  LockSpec => []OneStrayAtMost
<1> USE NoOwnerAssumption
<1>1. LockInit => OneStrayAtMost /\ GoneAreOut
  BY DEF LockInit, OneStrayAtMost, GoneAreOut, Strays
<1>2. ASSUME LockTypeOK, OneStrayAtMost, GoneAreOut, [LockNext]_lockVars
      PROVE  OneStrayAtMost'
  <2> SUFFICES ASSUME Orderly', Orderly PROVE \A i, j \in Strays' : i = j
    BY <1>2, OrderlyBefore DEF OneStrayAtMost
  <2> DEFINE Fewer == Strays' \subseteq Strays
  <2> USE DEF LockTypeOK
  <2>0. \A i, j \in Strays : i = j
    BY <1>2 DEF OneStrayAtMost
  <2>1. ASSUME NEW i \in Instances, NEW parallel \in BOOLEAN,
               i \notin gone, AcquireLock(i, parallel)
        PROVE  Fewer
    BY <1>2, <2>1 DEF AcquireLock, MoveTo, Strays
  <2>2. ASSUME NEW i \in Instances, CreateLock(i) PROVE Fewer
    BY <1>2, <2>2 DEF CreateLock, MoveTo, Strays
  <2>3. ASSUME NEW i \in Instances, CreateLockFails(i) PROVE Fewer
    BY <1>2, <2>3 DEF CreateLockFails, MoveTo, Strays
  <2>4. ASSUME NEW i \in Instances, i \notin gone, ReleaseLock(i) PROVE Fewer
    BY <1>2, <2>4 DEF ReleaseLock, MoveTo, Strays
  <2>5. ASSUME NEW i \in Instances, i \notin gone, DeleteLock(i)
        PROVE  \A j, l \in Strays' : j = l
    <3>1. CASE lock = NoOwner
      <4>1. Fewer
        BY <1>2, <2>5, <3>1 DEF DeleteLock, MoveTo, Strays
      <4> QED
        BY <2>0, <4>1
    <3>2. CASE lock = i
      <4>1. Fewer
        BY <1>2, <2>5, <3>2 DEF DeleteLock, MoveTo, Strays
      <4> QED
        BY <2>0, <4>1
    <3>3. CASE lock \notin {NoOwner, i}
      <4>1. i \in Strays
        BY <1>2, <2>5, <3>3 DEF DeleteLock, Strays
      <4>2. Strays' \subseteq (Strays \ {i}) \cup {lock}
        BY <1>2, <2>5, <3>3 DEF DeleteLock, MoveTo, Strays
      <4> QED
        BY <2>0, <4>1, <4>2
    <3> QED
      BY <3>1, <3>2, <3>3
  <2>6. ASSUME NEW i \in Instances, DeleteLockFails(i) PROVE Fewer
    BY <1>2, <2>6 DEF DeleteLockFails, MoveTo, Strays
  <2>7. ASSUME NEW i \in Instances, ConfirmRelease(i) \/ GiveUpRelease(i)
        PROVE  Fewer
    BY <1>2, <2>7 DEF ConfirmRelease, GiveUpRelease, MoveTo, Strays
  <2>8. ASSUME NEW i \in Instances, LeaveLock(i) PROVE Fewer
    BY <1>2, <2>8 DEF LeaveLock, MoveTo, Strays
  <2>9. ASSUME SyncLock \/ RestartLock PROVE Fewer
    BY <1>2, <2>9 DEF SyncLock, RestartLock, Strays
  <2>10. ASSUME NEW i \in Instances, RemoveInstance(i) PROVE Fewer
    BY <1>2, <2>10 DEF RemoveInstance, Strays
  <2>11. ASSUME CollectLock PROVE Fewer
    BY <1>2, <2>11 DEF CollectLock, Strays
  <2>12. ASSUME UserDeletesLock PROVE \A j, l \in Strays' : j = l
    <3>1. Strays = {}
      BY <2>12 DEF UserDeletesLock
    <3>2. Strays' \subseteq Strays \cup {lock}
      BY <1>2, <2>12 DEF UserDeletesLock, Strays
    <3> QED
      BY <3>1, <3>2
  <2>13. CASE UNCHANGED lockVars
    BY <2>0, <2>13 DEF lockVars, Strays
  <2>14. Fewer => \A i, j \in Strays' : i = j
    BY <2>0
  <2>15. \A i \in Instances : StartLock(i) => i \notin gone
    BY DEF StartLock, Orderly
  <2>16. \A i \in Instances : stage[i] # "out" => i \notin gone
    BY <1>2 DEF GoneAreOut
  <2>17. \A i \in Instances : DeleteLock(i) => i \notin gone
    BY <2>16 DEF DeleteLock
  <2> HIDE DEF Fewer
  <2>18. ASSUME NEW i \in Instances, StartLock(i) \/ ContinueLock(i)
         PROVE  \A j, l \in Strays' : j = l
    BY <2>1, <2>2, <2>3, <2>4, <2>5, <2>6, <2>7, <2>8, <2>14, <2>15, <2>16, <2>17, <2>18
       DEF StartLock, ContinueLock
  <2>19. ASSUME LockEnvironment PROVE \A j, l \in Strays' : j = l
    BY <2>9, <2>10, <2>11, <2>12, <2>14, <2>19 DEF LockEnvironment
  <2> QED
    BY <1>2, <2>13, <2>18, <2>19 DEF LockNext
<1>3. LockTypeOK /\ GoneAreOut /\ [LockNext]_lockVars => GoneAreOut'
  BY GoneStayOut
<1> QED
  BY <1>1, <1>2, <1>3, LockTypes, PTL DEF LockSpec

(* A step that removes an owned lock is the Delete request of its owner,   *)
(* or the collector's.                                                     *)
LEMMA ReleaseStep ==
  ASSUME Admitted = {}, LockTypeOK, HeldIsOwned, [LockNext]_lockVars,
         Orderly', lock # NoOwner, lock' # lock
  PROVE  /\ lock' = NoOwner
         /\ stage[lock] = "delete" \/ lock \in gone
<1> DEFINE Good == /\ lock' = NoOwner
                   /\ stage[lock] = "delete" \/ lock \in gone
<1> Orderly
  BY OrderlyBefore
<1>1. ASSUME NEW i \in Instances, DeleteLock(i) PROVE Good
  BY <1>1 DEF DeleteLock, HeldIsOwned
<1>2. ASSUME NEW i \in Instances, CreateLock(i) \/ CreateLockFails(i)
      PROVE  Good
  BY <1>2 DEF CreateLock, CreateLockFails
<1>3. ASSUME CollectLock PROVE Good
  BY <1>3 DEF CollectLock
<1> QED
  BY <1>1, <1>2, <1>3
     DEF LockNext, StartLock, ContinueLock, AcquireLock, ReleaseLock,
         DeleteLockFails, ConfirmRelease, GiveUpRelease, LeaveLock,
         LockEnvironment, SyncLock, RemoveInstance, UserDeletesLock,
         RestartLock, lockVars

(* Only the owner's ReleaseLock, or the collector once the owner is gone,  *)
(* removes the lock.                                                       *)
THEOREM LockRelease ==
  ASSUME Admitted = {}
  PROVE  LockSpec => OnlyOwnerReleases
<1> DEFINE Good == Orderly' /\ lock # NoOwner /\ lock' # lock =>
                     /\ lock' = NoOwner
                     /\ stage[lock] = "delete" \/ lock \in gone
<1>1. LockTypeOK /\ HeldIsOwned /\ [LockNext]_lockVars => [Good]_lockVars
  BY ReleaseStep
<1> QED
  BY <1>1, LockTypes, LockExclusion, PTL DEF LockSpec, OnlyOwnerReleases

-----------------------------------------------------------------------------
(* The protocol implements the abstract mutex: every step of it is a step  *)
(* of Mutex or changes neither the holder nor who is inside.               *)
THEOREM LockImplementsMutex ==
  ASSUME Admitted = {}
  PROVE  LockSpec => ImplementsMutex
<1> DEFINE inside == {i \in Instances : Orderly /\ stage[i] = "held"}
<1>1. LockInit => Abstract!Init
  BY DEF LockInit, Abstract!Init
<1>2. ASSUME LockTypeOK, HeldIsOwned, CacheIsTruthful, GoneAreOut,
             [LockNext]_lockVars
      PROVE  [Abstract!Next]_(Abstract!vars)
  <2> USE NoOwnerAssumption, <1>2 DEF LockTypeOK
  <2> SUFFICES Abstract!Next \/ UNCHANGED <<lock, inside>>
    BY DEF Abstract!vars
  <2>0. Orderly' => Orderly
    BY OrderlyBefore
  <2>1. ASSUME UNCHANGED lock, inside' \subseteq inside
        PROVE  Abstract!Next
    BY <2>1 DEF Abstract!Next, Abstract!Leave
  <2>2. ASSUME NEW i \in Instances, UNCHANGED <<lock, gone>>, lock = i,
               MoveTo(i, "held")
        PROVE  Abstract!Next
    <3>1. CASE Orderly
      <4>1. inside' = inside \cup {i}
        BY <3>1, <2>2 DEF MoveTo, Orderly
      <4> QED
        BY <4>1, <2>2 DEF Abstract!Next, Abstract!Enter
    <3>2. CASE ~Orderly
      BY <3>2, <2>0, <2>1, <2>2
    <3> QED
      BY <3>1, <3>2
  <2>3. ASSUME NEW i \in Instances, NEW parallel \in BOOLEAN,
               i \in Finalized => i \notin gone, AcquireLock(i, parallel)
        PROVE  Abstract!Next
    <3>1. CASE Orderly /\ ~parallel /\ lockCache = i
      <4>1. lock = i
        BY <3>1, <2>3 DEF AcquireLock, CacheIsTruthful, Orderly
      <4> QED
        BY <3>1, <4>1, <2>2, <2>3 DEF AcquireLock
    <3>2. CASE ~(Orderly /\ ~parallel /\ lockCache = i)
      <4>1. inside' \subseteq inside
        BY <3>2, <2>3, <2>0 DEF AcquireLock, MoveTo, Orderly
      <4> QED
        BY <4>1, <2>1, <2>3 DEF AcquireLock
    <3> QED
      BY <3>1, <3>2
  <2>4. ASSUME NEW i \in Instances, CreateLock(i) PROVE Abstract!Next
    <3>1. CASE lock = NoOwner
      <4>1. inside' \in {inside, inside \cup {i}}
        BY <3>1, <2>4 DEF CreateLock, MoveTo, Orderly
      <4> QED
        BY <3>1, <4>1, <2>4 DEF CreateLock, Abstract!Next, Abstract!Grant
    <3>2. CASE lock # NoOwner
      <4>1. inside' \subseteq inside
        BY <3>2, <2>4 DEF CreateLock, MoveTo, Orderly
      <4> QED
        BY <3>2, <4>1, <2>1, <2>4 DEF CreateLock
    <3> QED
      BY <3>1, <3>2
  <2>5. ASSUME NEW i \in Instances, CreateLockFails(i) PROVE Abstract!Next
    <3>1. inside' = inside
      BY <2>5 DEF CreateLockFails, MoveTo, Orderly
    <3>2. CASE lock' = lock
      BY <3>1, <3>2, <2>1
    <3>3. CASE lock' # lock
      BY <3>1, <3>3, <2>5
         DEF CreateLockFails, Abstract!Next, Abstract!Grant
    <3> QED
      BY <3>2, <3>3
  <2>6. ASSUME NEW i \in Instances, DeleteLock(i) PROVE Abstract!Next
    <3>1. inside' = inside
      BY <2>6 DEF DeleteLock, MoveTo, Orderly
    <3>2. lock \notin inside
      BY <2>6 DEF DeleteLock, HeldIsOwned
    <3>3. CASE lock = NoOwner
      BY <3>1, <3>3, <2>1, <2>6 DEF DeleteLock
    <3>4. CASE lock # NoOwner
      BY <3>1, <3>2, <3>4, <2>6 DEF DeleteLock, Abstract!Next, Abstract!Free
    <3> QED
      BY <3>3, <3>4
  <2>7. ASSUME NEW i \in Instances,
               \/ ReleaseLock(i) \/ DeleteLockFails(i) \/ ConfirmRelease(i)
               \/ GiveUpRelease(i) \/ LeaveLock(i)
        PROVE  Abstract!Next
    <3>1. inside' \subseteq inside /\ UNCHANGED lock
      BY <2>7 DEF ReleaseLock, DeleteLockFails, ConfirmRelease,
                  GiveUpRelease, LeaveLock, MoveTo, Orderly
    <3> QED
      BY <3>1, <2>1
  <2>8. ASSUME CollectLock PROVE Abstract!Next
    <3>1. inside' = inside /\ lock \notin inside
      BY <2>8 DEF CollectLock, GoneAreOut, Orderly
    <3> QED
      BY <3>1, <2>8 DEF CollectLock, Abstract!Next, Abstract!Free
  <2>9. ASSUME \/ SyncLock \/ RestartLock \/ UserDeletesLock
               \/ \E i \in Instances : RemoveInstance(i)
        PROVE  Abstract!Next
    <3>1. inside' \subseteq inside /\ UNCHANGED lock
      BY <2>9, <2>0 DEF SyncLock, RestartLock, UserDeletesLock,
                        RemoveInstance, Orderly
    <3> QED
      BY <3>1, <2>1
  <2>10. CASE UNCHANGED lockVars
    BY <2>10 DEF lockVars, Orderly
  <2> QED
    BY <2>3, <2>4, <2>5, <2>6, <2>7, <2>8, <2>9, <2>10
       DEF LockNext, StartLock, ContinueLock, LockEnvironment
<1> QED
  BY <1>1, <1>2, LockTypes, LockExclusion, PTL
     DEF LockSpec, ImplementsMutex, Abstract!Spec
=============================================================================
