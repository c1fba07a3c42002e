--------------------------- MODULE HkLock_proofs ---------------------------
(***************************************************************************)
(* Theorems about the lock of the housekeeping service, for any set of     *)
(* tasks.                                                                  *)
(***************************************************************************)
EXTENDS HkLock, TLAPS

(***************************************************************************)
(* The inductive invariant.  HandleKnown: whoever has passed the test of   *)
(* prv_get_lock finds a mutex, and waits on one that exists; this is what  *)
(* keeps "taken" within the created mutexes.  HolderHasMutex: while there  *)
(* is one mutex a task inside holds it, which is what excludes the others. *)
(***************************************************************************)
HandleKnown ==
    \A t \in Task :
        /\ lpc[t] \in {"call", "wait", "in"} => f_count_lock # 0
        /\ lpc[t] \in {"wait", "in"} => handle[t] \in 1..f_count_lock

HolderHasMutex == f_count_lock <= 1 => \A t \in Inside : 1 \in taken

LockInv ==
    /\ LockTypeOK
    /\ HandleKnown
    /\ HolderHasMutex
    /\ ExclusionWithOneMutex

LEMMA LockInvInit == LockInit => LockInv
BY DEF LockInit, LockInv, LockTypeOK, LockPc, HandleKnown, HolderHasMutex,
       ExclusionWithOneMutex, AtMostOneInside, Inside

(***************************************************************************)
(* Every step of the lock keeps the invariant.                             *)
(***************************************************************************)
LEMMA LockInvStep == LockInv /\ [LockNext]_lockVars => LockInv'
<1> SUFFICES ASSUME LockInv, [LockNext]_lockVars PROVE LockInv'
  OBVIOUS
<1> USE DEF LockInv, LockTypeOK, LockPc, HandleKnown, HolderHasMutex,
            ExclusionWithOneMutex, AtMostOneInside, Inside, Goto
<1>1. ASSUME NEW t \in Task, WantLock(t) PROVE LockInv'
  BY <1>1 DEF WantLock
<1>2. ASSUME NEW t \in Task, TestLock(t) PROVE LockInv'
  BY <1>2 DEF TestLock
<1>3. ASSUME NEW t \in Task, CreateLock(t) PROVE LockInv'
  <2>1. CASE f_count_lock = 0
    \* The first mutex: nobody is past the test yet.
    <3>1. f_count_lock' = 1 /\ taken' = taken /\ handle' = handle
      BY <1>3, <2>1 DEF CreateLock
    <3>2. \A u \in Task : lpc'[u] \notin {"wait", "in"}
      BY <1>3, <2>1 DEF CreateLock
    <3>3. LockTypeOK'
      BY <1>3 DEF CreateLock
    <3>4. QED
      BY <3>1, <3>2, <3>3
  <2>2. CASE f_count_lock # 0
    <3>1. f_count_lock' \in Nat /\ f_count_lock' > 1 /\ f_count_lock <= f_count_lock'
      BY <1>3, <2>2 DEF CreateLock
    <3>2. LockTypeOK'
      BY <1>3 DEF CreateLock
    <3>3. HandleKnown'
      BY <1>3, <2>2 DEF CreateLock
    <3>4. QED
      BY <3>1, <3>2, <3>3
  <2>3. QED
    BY <2>1, <2>2
<1>4. ASSUME NEW t \in Task, CallTake(t) PROVE LockInv'
  BY <1>4 DEF CallTake
<1>5. ASSUME NEW t \in Task, Acquire(t) PROVE LockInv'
  <2>1. handle[t] \in 1..f_count_lock
    BY <1>5 DEF Acquire
  <2>2. LockTypeOK' /\ HandleKnown'
    BY <1>5, <2>1 DEF Acquire
  <2>3. f_count_lock <= 1 => /\ handle[t] = 1
                             /\ \A u \in Task : lpc[u] # "in"
    BY <1>5, <2>1 DEF Acquire
  <2>4. HolderHasMutex' /\ ExclusionWithOneMutex'
    BY <1>5, <2>3 DEF Acquire
  <2>5. QED
    BY <2>2, <2>4
<1>6. ASSUME NEW t \in Task, GiveLock(t) PROVE LockInv'
  <2>1. LockTypeOK' /\ HandleKnown'
    BY <1>6 DEF GiveLock
  <2>2. f_count_lock <= 1 => \A u \in Task : lpc'[u] # "in"
    BY <1>6 DEF GiveLock
  <2>3. f_count_lock' = f_count_lock
    BY <1>6 DEF GiveLock
  <2>4. QED
    BY <2>1, <2>2, <2>3
<1>7. CASE UNCHANGED lockVars
  BY <1>7 DEF lockVars
<1>8. QED
  BY <1>1, <1>2, <1>3, <1>4, <1>5, <1>6, <1>7 DEF LockNext, GetLockStep

(***************************************************************************)
(* Type correctness of the lock from boot: the handles are those of        *)
(* mutexes that exist, and only such mutexes are taken.                    *)
(***************************************************************************)
THEOREM LockTypeCorrect == LockSpec => []LockTypeOK
<1>1. LockInv => LockTypeOK
  BY DEF LockInv
<1>2. QED
  BY <1>1, LockInvInit, LockInvStep, PTL DEF LockSpec

(***************************************************************************)
(* From boot, and for any number of tasks, two tasks are never inside      *)
(* together while prv_get_lock has created a single mutex.                 *)
(***************************************************************************)
THEOREM LockExclusion == LockSpec => []ExclusionWithOneMutex
<1>1. LockInv => ExclusionWithOneMutex
  BY DEF LockInv
<1>2. QED
  BY <1>1, LockInvInit, LockInvStep, PTL DEF LockSpec

(***************************************************************************)
(* When the tasks come in good order: until the mutex exists at most one   *)
(* task is between its call and the creation, so that it finds no mutex    *)
(* there when it creates one; afterwards nobody is about to create.        *)
(***************************************************************************)
OneMutex ==
    \/ /\ f_count_lock = 0
       /\ \A t \in Task : lpc[t] \in {"out", "test", "create"}
       /\ \A t, u \in Task : lpc[t] # "out" /\ lpc[u] # "out" => t = u
    \/ /\ f_count_lock = 1
       /\ \A t \in Task : lpc[t] # "create"

LEMMA OrderlyIsLock == [OrderlyNext]_lockVars => [LockNext]_lockVars
BY DEF OrderlyNext, OrderlyWant, LockNext

LEMMA OneMutexInit == LockInit => OneMutex
BY DEF LockInit, OneMutex

LEMMA OneMutexStep == LockInv /\ OneMutex /\ [OrderlyNext]_lockVars => OneMutex'
<1> SUFFICES ASSUME LockInv, OneMutex, [OrderlyNext]_lockVars PROVE OneMutex'
  OBVIOUS
<1>1. lpc \in [Task -> LockPc]
  BY DEF LockInv, LockTypeOK
<1>2. ASSUME NEW t \in Task, OrderlyWant(t) PROVE OneMutex'
  <2>1. CASE f_count_lock = 0
    BY <1>1, <1>2, <2>1 DEF OneMutex, OrderlyWant, WantLock, Goto
  <2>2. CASE f_count_lock # 0
    BY <1>1, <1>2, <2>2 DEF OneMutex, OrderlyWant, WantLock, Goto
  <2>3. QED
    BY <2>1, <2>2
<1>3. ASSUME NEW t \in Task, TestLock(t) PROVE OneMutex'
  <2>1. CASE f_count_lock = 0
    BY <1>1, <1>3, <2>1 DEF OneMutex, TestLock, Goto
  <2>2. CASE f_count_lock = 1
    BY <1>1, <1>3, <2>2 DEF OneMutex, TestLock, Goto
  <2>3. QED
    BY <2>1, <2>2 DEF OneMutex
<1>4. ASSUME NEW t \in Task, CreateLock(t) PROVE OneMutex'
  \* The task that creates is the only one past its call.
  <2>1. f_count_lock = 0 /\ \A u \in Task : u # t => lpc[u] = "out"
    BY <1>4 DEF OneMutex, CreateLock
  <2>2. f_count_lock' = 1
    BY <1>4, <2>1 DEF CreateLock
  <2>3. \A u \in Task : lpc'[u] # "create"
    BY <1>1, <1>4, <2>1 DEF CreateLock, Goto
  <2>4. QED
    BY <2>2, <2>3 DEF OneMutex
<1>5. ASSUME NEW t \in Task, CallTake(t) \/ Acquire(t) \/ GiveLock(t)
      PROVE  OneMutex'
  \* Past the test a mutex exists.
  <2>1. f_count_lock = 1 /\ \A u \in Task : lpc[u] # "create"
    BY <1>5 DEF OneMutex, CallTake, Acquire, GiveLock
  <2>2. f_count_lock' = 1 /\ \A u \in Task : lpc'[u] # "create"
    BY <1>1, <1>5, <2>1 DEF CallTake, Acquire, GiveLock, Goto
  <2>3. QED
    BY <2>2 DEF OneMutex
<1>6. CASE UNCHANGED lockVars
  BY <1>6 DEF OneMutex, lockVars
<1>7. QED
  BY <1>2, <1>3, <1>4, <1>5, <1>6 DEF OrderlyNext, GetLockStep

(***************************************************************************)
(* In good order, prv_get_lock and prv_give_lock implement the abstract    *)
(* mutex: Acquire is Enter, GiveLock is Leave, every other step stutters.  *)
(***************************************************************************)
LEMMA LockRefinesInit == LockInit => Abstract!Init
BY DEF LockInit, Abstract!Init, Inside

LEMMA LockRefinesStep ==
    LockInv /\ OneMutex /\ [LockNext]_lockVars => [Abstract!Next]_Inside
<1> SUFFICES ASSUME LockInv, OneMutex, [LockNext]_lockVars
             PROVE  [Abstract!Next]_Inside
  OBVIOUS
<1> USE DEF Inside
<1>1. lpc \in [Task -> LockPc]
  BY DEF LockInv, LockTypeOK
<1>2. ASSUME NEW t \in Task, WantLock(t) \/ TestLock(t) \/ CreateLock(t) \/ CallTake(t)
      PROVE  Inside' = Inside
  BY <1>1, <1>2 DEF WantLock, TestLock, CreateLock, CallTake, Goto, LockPc
<1>3. ASSUME NEW t \in Task, Acquire(t) PROVE Abstract!Enter(t)
  <2>1. handle[t] = 1
    BY <1>3 DEF Acquire, LockInv, LockTypeOK, HandleKnown, OneMutex
  <2>2. Inside = {}
    BY <1>3, <2>1 DEF Acquire, LockInv, HolderHasMutex, OneMutex
  <2>3. Inside' = {t}
    BY <1>1, <1>3, <2>2 DEF Acquire, Goto
  <2>4. QED
    BY <2>2, <2>3 DEF Abstract!Enter
<1>4. ASSUME NEW t \in Task, GiveLock(t) PROVE Abstract!Leave(t)
  BY <1>1, <1>4 DEF GiveLock, Goto, Abstract!Leave
<1>5. CASE UNCHANGED lockVars
  BY <1>5 DEF lockVars
<1>6. QED
  BY <1>2, <1>3, <1>4, <1>5 DEF LockNext, GetLockStep, Abstract!Next

(***************************************************************************)
(* For any set of tasks: when the first call creates the mutex before      *)
(* another task makes a call, the lock implements the abstract mutex.      *)
(***************************************************************************)
THEOREM LockImplementsMutex == CreatedSpec => ImplementsMutex
<1>1. CreatedSpec => [](LockInv /\ OneMutex)
  BY LockInvInit, LockInvStep, OrderlyIsLock, OneMutexInit, OneMutexStep, PTL
     DEF CreatedSpec
<1>2. QED
  BY <1>1, OrderlyIsLock, LockRefinesInit, LockRefinesStep, PTL
     DEF CreatedSpec, ImplementsMutex, Abstract!Spec
=============================================================================
