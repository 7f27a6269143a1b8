-------------------------------- MODULE Lock --------------------------------
(***************************************************************************)
(* The global lock of the test operator: one ConfigMap, test-operator-lock,*)
(* whose data names the UID of the custom resource that owns it            *)
(* (internal/controller/common.go, GetLockInfo, AcquireLock, ReleaseLock). *)
(* Reads come from the informer cache that all four controllers share;     *)
(* creations and deletions go to the API server.  One action is one read   *)
(* of the cache or one request, so everything that other controllers, the  *)
(* garbage collector or a restart do between two of them is a behaviour.   *)
(***************************************************************************)
EXTENDS Resources

CONSTANTS
    NoOwner,    \* the ConfigMap does not exist
    Admitted    \* what the environment may do beyond the ordinary

Extraordinary ==
    { "longLag",      \* the cache may lag for more than ReleaseLock's 100 s
      "userDelete",   \* somebody deletes the ConfigMap by hand
      "overlap" }     \* and again before the effect of the last time is over

ASSUME NoOwnerAssumption == NoOwner \notin Instances
ASSUME AdmittedAssumption == Admitted \subseteq Extraordinary

VARIABLES
    lock,       \* owner field of the ConfigMap at the API server, or NoOwner
    lockCache,  \* the same in the informer cache
    stage,      \* how far each instance's AcquireLock or ReleaseLock has got
    gone        \* instances whose custom resource no longer exists

lockVars == <<lock, lockCache, stage, gone>>

Stages ==
    { "out",       \* outside, after a refusal, an error or the end of a pass
      "create",    \* AcquireLock saw no lock and is about to create it
      "held",      \* AcquireLock returned true for a serial test
      "parallel",  \* AcquireLock returned true without taking the lock
      "delete",    \* ReleaseLock saw its own lock and is about to delete it
      "confirm",   \* ReleaseLock polls until the lock is gone
      "released" } \* ReleaseLock returned true

LockTypeOK ==
    /\ lock \in Instances \cup {NoOwner}
    /\ lockCache \in Instances \cup {NoOwner}
    /\ stage \in [Instances -> Stages]
    /\ gone \subseteq Instances

LockInit ==
    /\ lock = NoOwner
    /\ lockCache = NoOwner
    /\ stage = [i \in Instances |-> "out"]
    /\ gone = {}

MoveTo(i, s) == stage' = [stage EXCEPT ![i] = s]

-----------------------------------------------------------------------------
(* Mistake: any lock that exists counts as one's own.                      *)
AcquireLockOfOthers(i, parallel) ==
    /\ stage[i] = "out"
    /\ \/ parallel /\ MoveTo(i, "parallel")
       \/ ~parallel /\ lockCache = NoOwner /\ MoveTo(i, "create")
       \/ ~parallel /\ lockCache # NoOwner /\ MoveTo(i, "held")
    /\ UNCHANGED <<lock, lockCache, gone>>

(* AcquireLock: a parallel test does not wait; a serial one looks at the   *)
(* cached ConfigMap.  The look that EnsureConfigMaps takes again before it *)
(* creates the object is this same read.                                   *)
AcquireLock(i, parallel) ==
    /\ stage[i] = "out"
    /\ \/ parallel /\ MoveTo(i, "parallel")
       \/ ~parallel /\ lockCache = NoOwner /\ MoveTo(i, "create")
       \/ ~parallel /\ lockCache = i /\ MoveTo(i, "held")
       \/ ~parallel /\ lockCache \notin {NoOwner, i} /\ MoveTo(i, "out")
    /\ UNCHANGED <<lock, lockCache, gone>>

(* Mistake: the ConfigMap is written whether it exists or not.             *)
OverwriteLock(i) ==
    /\ stage[i] = "create"
    /\ lock' = i
    /\ MoveTo(i, "held")
    /\ UNCHANGED <<lockCache, gone>>

(* The Create request of EnsureConfigMaps; the API server refuses it when  *)
(* the ConfigMap exists, whatever the cache said.                          *)
CreateLock(i) ==
    /\ stage[i] = "create"
    /\ IF lock = NoOwner
       THEN lock' = i /\ MoveTo(i, "held")
       ELSE UNCHANGED lock /\ MoveTo(i, "out")
    /\ UNCHANGED <<lockCache, gone>>

(* The Create request fails, or succeeds and its answer is lost.           *)
CreateLockFails(i) ==
    /\ stage[i] = "create"
    /\ lock' \in {lock} \cup (IF lock = NoOwner THEN {i} ELSE {})
    /\ MoveTo(i, "out")
    /\ UNCHANGED <<lockCache, gone>>

-----------------------------------------------------------------------------
(* Mistake: the owner field is not compared.                               *)
ReleaseAnyLock(i) ==
    /\ stage[i] \in {"out", "held", "parallel"}
    /\ \/ lockCache = NoOwner /\ MoveTo(i, "released")
       \/ lockCache # NoOwner /\ MoveTo(i, "delete")
    /\ UNCHANGED <<lock, lockCache, gone>>

(* Mistake: an absent lock counts as a failure.                            *)
ReleaseExistingLock(i) ==
    /\ stage[i] \in {"out", "held", "parallel"}
    /\ \/ lockCache = i /\ MoveTo(i, "delete")
       \/ lockCache # i /\ MoveTo(i, "out")
    /\ UNCHANGED <<lock, lockCache, gone>>

(* ReleaseLock up to its Delete request: nothing to release, a lock of     *)
(* somebody else (not released), or its own.                               *)
ReleaseLock(i) ==
    /\ stage[i] \in {"out", "held", "parallel"}
    /\ \/ lockCache = NoOwner /\ MoveTo(i, "released")
       \/ lockCache = i /\ MoveTo(i, "delete")
       \/ lockCache \notin {NoOwner, i} /\ MoveTo(i, "out")
    /\ UNCHANGED <<lock, lockCache, gone>>

(* Mistake: the deletion is not waited for.                                *)
DeleteLockWithoutPolling(i) ==
    /\ stage[i] = "delete"
    /\ lock' = NoOwner
    /\ MoveTo(i, "released")
    /\ UNCHANGED <<lockCache, gone>>

(* The Delete request: by name, with no precondition on the UID or on the  *)
(* owner; an absent lock ends ReleaseLock with "not released".             *)
DeleteLock(i) ==
    /\ stage[i] = "delete"
    /\ lock' = NoOwner
    /\ MoveTo(i, IF lock = NoOwner THEN "out" ELSE "confirm")
    /\ UNCHANGED <<lockCache, gone>>

(* Any other error of Delete is dropped: ReleaseLock goes on to poll.      *)
DeleteLockFails(i) ==
    /\ stage[i] = "delete"
    /\ MoveTo(i, "confirm")
    /\ UNCHANGED <<lock, lockCache, gone>>

(* A poll finds no lock in the cache.                                      *)
ConfirmRelease(i) ==
    /\ stage[i] = "confirm"
    /\ lockCache = NoOwner
    /\ MoveTo(i, "released")
    /\ UNCHANGED <<lock, lockCache, gone>>

(* Mistake: a result the callers do not know.                              *)
GiveUpWithUnknownResult(i) ==
    /\ stage[i] = "confirm"
    /\ lockCache # NoOwner
    /\ lockCache = i => lock = i
    /\ MoveTo(i, "failed")
    /\ UNCHANGED <<lock, lockCache, gone>>

(* ErrFailedToDeleteLock: the last of ten polls, 10 s apart, still finds a *)
(* lock.  A cache that old would be "longLag"; otherwise the lock is there.*)
GiveUpRelease(i) ==
    /\ stage[i] = "confirm"
    /\ lockCache # NoOwner
    /\ "longLag" \in Admitted \/ (lockCache = i => lock = i)
    /\ MoveTo(i, "out")
    /\ UNCHANGED <<lock, lockCache, gone>>

(* The reconcile pass that called AcquireLock or ReleaseLock ends.         *)
LeaveLock(i) ==
    /\ stage[i] \in {"held", "parallel", "released"}
    /\ MoveTo(i, "out")
    /\ UNCHANGED <<lock, lockCache, gone>>

-----------------------------------------------------------------------------
(* The watch delivers: when the lock changed hands, the deletion may be    *)
(* delivered before the creation.                                          *)
SyncLock ==
    /\ lockCache # lock
    /\ \/ lockCache' = lock
       \/ NoOwner \notin {lockCache, lock} /\ lockCache' = NoOwner
    /\ UNCHANGED <<lock, stage, gone>>

(* A custom resource ceases to exist.  The finalizer of a Tempest is taken *)
(* off by a pass of its own, which never is inside a lock operation; the   *)
(* other kinds may vanish in the middle of one.                            *)
RemoveInstance(i) ==
    /\ i \notin gone
    /\ i \in Finalized => stage[i] = "out"
    /\ gone' = gone \cup {i}
    /\ UNCHANGED <<lock, lockCache, stage>>

(* Mistake: the ConfigMap was created without an owner reference.          *)
CollectNoLock == FALSE

(* The garbage collector removes the lock that a gone instance owned.      *)
CollectLock ==
    /\ lock \in gone
    /\ lock' = NoOwner
    /\ UNCHANGED <<lockCache, stage, gone>>

(* Instances that take themselves for the owner of the lock, or will when  *)
(* they look at the cache, and are not.                                    *)
Strays ==
    {i \in Instances \ gone :
       /\ lock # i
       /\ stage[i] \in {"held", "delete"} \/ (lockCache = i /\ stage[i] # "confirm")}

(* Somebody deletes the ConfigMap by hand.                                 *)
UserDeletesLock ==
    /\ "userDelete" \in Admitted
    /\ "overlap" \in Admitted \/ Strays = {}
    /\ lock # NoOwner
    /\ lock' = NoOwner
    /\ UNCHANGED <<lockCache, stage, gone>>

(* The operator restarts: no pass survives, the cache is listed anew.      *)
RestartLock ==
    /\ stage' = [i \in Instances |-> "out"]
    /\ lockCache' = lock
    /\ UNCHANGED <<lock, gone>>

-----------------------------------------------------------------------------
(* A pass starts with the Get of the custom resource.  One that carries no *)
(* finalizer may be gone by the time its pass reaches the lock.            *)
StartLock(i) ==
    /\ i \in Finalized => i \notin gone
    /\ \/ \E parallel \in BOOLEAN : AcquireLock(i, parallel)
       \/ stage[i] = "out" /\ ReleaseLock(i)

ContinueLock(i) ==
    \/ CreateLock(i)
    \/ CreateLockFails(i)
    \/ stage[i] # "out" /\ ReleaseLock(i)
    \/ DeleteLock(i)
    \/ DeleteLockFails(i)
    \/ ConfirmRelease(i)
    \/ GiveUpRelease(i)
    \/ LeaveLock(i)

LockEnvironment ==
    \/ SyncLock
    \/ \E i \in Instances : RemoveInstance(i)
    \/ CollectLock
    \/ UserDeletesLock
    \/ RestartLock

LockNext ==
    \/ \E i \in Instances : StartLock(i) \/ ContinueLock(i)
    \/ LockEnvironment

LockSpec == LockInit /\ [][LockNext]_lockVars

-----------------------------------------------------------------------------
(* No resource without the finalizer has been removed so far.              *)
Orderly == gone \subseteq Finalized

(* An instance that AcquireLock let through (common.go:568), and one whose *)
(* ReleaseLock is about to send its Delete request (common.go:592), really *)
(* owns the ConfigMap at the API server, although both looked at a cache.  *)
HeldIsOwned ==
    Orderly => \A i \in Instances :
                  stage[i] \in {"held", "delete"} => lock = i

(* "Lock can be only released by the instance that created it"             *)
(* (common.go:587): the lock changes hands only through absence, and only  *)
(* the ReleaseLock of its owner, or the collector of an owner that is      *)
(* gone, removes it.                                                       *)
OnlyOwnerReleases ==
    [][ Orderly' /\ lock # NoOwner /\ lock' # lock =>
          /\ lock' = NoOwner
          /\ stage[lock] = "delete" \/ lock \in gone ]_lockVars

(* The cache never tells an instance outside ReleaseLock's polling that it *)
(* owns a lock which is not its own: the part that makes the two above     *)
(* inductive.                                                              *)
CacheIsTruthful ==
    Orderly => \A i \in Instances \ gone :
                  lockCache = i /\ stage[i] # "confirm" => lock = i

(* Deleting the lock by hand lets a second instance in, and the Delete     *)
(* request of a stray, which has no precondition (common.go:592), removes  *)
(* the lock of the next owner.  But the harm does not add up: until the    *)
(* lock is deleted by hand again, there is one stray at a time, and so no  *)
(* more than two instances that AcquireLock let through.                   *)
OneStrayAtMost == Orderly => \A i, j \in Strays : i = j

(* The lock protocol implements a mutex: the holder is the owner at the    *)
(* API server, and inside are the instances that AcquireLock let through.  *)
Abstract == INSTANCE Mutex WITH
    holder <- lock,
    inside <- {i \in Instances : Orderly /\ stage[i] = "held"}

ImplementsMutex == Abstract!Spec
=============================================================================
