------------------------------ MODULE HkLock ------------------------------
(***************************************************************************)
(* The lock of the housekeeping service, housekeeping_service.c:           *)
(*   SemaphoreHandle_t f_count_lock = NULL;                                *)
(*   prv_get_lock   creates the mutex on first use, then takes it;         *)
(*   prv_give_lock  gives the mutex the global names at that moment.       *)
(*                                                                         *)
(* The test of the handle, the creation, the assignment to the global and  *)
(* the evaluation of the argument of xSemaphoreTake are separate steps: a  *)
(* task can be preempted between any two of them.                          *)
(*                                                                         *)
(* A FreeRTOS mutex is a number, the order of its creation since boot; the *)
(* value of f_count_lock is the number of the latest one, 0 for NULL.      *)
(* Creation is assumed to succeed.                                         *)
(***************************************************************************)
EXTENDS Naturals, FiniteSets

CONSTANT Task        \* the tasks that call into the housekeeping service

VARIABLES
    f_count_lock,    \* the global handle: 0 is NULL
    taken,           \* the mutexes that are taken
    handle,          \* handle[t]: the mutex t passed to xSemaphoreTake
    lpc              \* where t is in prv_get_lock / prv_give_lock

lockVars == <<f_count_lock, taken, handle, lpc>>

LockPc == {"out", "test", "create", "call", "wait", "in"}

LockTypeOK ==
    /\ f_count_lock \in Nat
    /\ taken \subseteq 1..f_count_lock
    /\ handle \in [Task -> Nat]
    /\ lpc \in [Task -> LockPc]

LockInit ==
    /\ f_count_lock = 0
    /\ taken = {}
    /\ handle = [t \in Task |-> 0]
    /\ lpc = [t \in Task |-> "out"]

\* A reset of the processor.
ResetLock ==
    /\ f_count_lock' = 0
    /\ taken' = {}
    /\ handle' = [t \in Task |-> 0]
    /\ lpc' = [t \in Task |-> "out"]

Goto(t, l) == lpc' = [lpc EXCEPT ![t] = l]

\* prv_get_lock is called.
WantLock(t) ==
    /\ lpc[t] = "out"
    /\ Goto(t, "test")
    /\ UNCHANGED <<f_count_lock, taken, handle>>

\* if (*lock == NULL)
TestLock(t) ==
    /\ lpc[t] = "test"
    /\ Goto(t, IF f_count_lock = 0 THEN "create" ELSE "call")
    /\ UNCHANGED <<f_count_lock, taken, handle>>

\* *lock = xSemaphoreCreateMutex(): the global now names the new mutex.
CreateLock(t) ==
    /\ lpc[t] = "create"
    /\ f_count_lock' = f_count_lock + 1
    /\ Goto(t, "call")
    /\ UNCHANGED <<taken, handle>>

\* xSemaphoreTake(*lock, portMAX_DELAY): the handle is read here, and the
\* task blocks on that mutex however the global changes afterwards.
CallTake(t) ==
    /\ lpc[t] = "call"
    /\ handle' = [handle EXCEPT ![t] = f_count_lock]
    /\ Goto(t, "wait")
    /\ UNCHANGED <<f_count_lock, taken>>

\* A mutated form of Acquire: the take times out and its result is ignored.
MutAcquireAnyway(t) ==
    /\ lpc[t] = "wait"
    /\ taken' = taken \cup {handle[t]}
    /\ Goto(t, "in")
    /\ UNCHANGED <<f_count_lock, handle>>

\* Another: the take does not block, and is tried again while it fails.
MutAcquirePolls(t) ==
    /\ lpc[t] = "wait"
    /\ IF handle[t] \in taken
       THEN Goto(t, "call") /\ UNCHANGED taken
       ELSE Goto(t, "in") /\ taken' = taken \cup {handle[t]}
    /\ UNCHANGED <<f_count_lock, handle>>

\* The take succeeds.
Acquire(t) ==
    /\ lpc[t] = "wait"
    /\ handle[t] \notin taken
    /\ taken' = taken \cup {handle[t]}
    /\ Goto(t, "in")
    /\ UNCHANGED <<f_count_lock, handle>>

\* xSemaphoreGive(*lock): the mutex given is the one the global names now.
GiveLock(t) ==
    /\ lpc[t] = "in"
    /\ taken' = taken \ {f_count_lock}
    /\ Goto(t, "out")
    /\ UNCHANGED <<f_count_lock, handle>>

\* The steps t takes by itself inside prv_get_lock.
GetLockStep(t) == TestLock(t) \/ CreateLock(t) \/ CallTake(t) \/ Acquire(t)

LockNext == \E t \in Task : WantLock(t) \/ GetLockStep(t) \/ GiveLock(t)

LockSpec == LockInit /\ [][LockNext]_lockVars

(***************************************************************************)
(* A task inside always leaves; a blocked task is readied by each give,    *)
(* so a take that is possible again and again succeeds (SF).               *)
(***************************************************************************)
LockFairness ==
    \A t \in Task : /\ WF_lockVars(TestLock(t) \/ CreateLock(t) \/ CallTake(t))
                    /\ SF_lockVars(Acquire(t))
                    /\ WF_lockVars(GiveLock(t))

(***************************************************************************)
(* The same lock, from boot, when the tasks come to it in good order: the  *)
(* first call of prv_get_lock has created the mutex before another task    *)
(* makes a call.  Nothing in the code arranges that; it is the assumption  *)
(* under which the lazy creation is a lock.                                *)
(***************************************************************************)
OrderlyWant(t) ==
    /\ f_count_lock # 0 \/ \A u \in Task : lpc[u] = "out"
    /\ WantLock(t)

OrderlyNext == \E t \in Task : OrderlyWant(t) \/ GetLockStep(t) \/ GiveLock(t)

CreatedSpec == LockInit /\ [][OrderlyNext]_lockVars

FairCreatedSpec == CreatedSpec /\ LockFairness

-----------------------------------------------------------------------------
Inside == {t \in Task : lpc[t] = "in"}

AtMostOneInside == \A t, u \in Inside : t = u

(***************************************************************************)
(* As long as a single mutex has been created, two tasks are never inside  *)
(* together, whichever of them created it and whoever waits on it.         *)
(***************************************************************************)
ExclusionWithOneMutex == f_count_lock <= 1 => AtMostOneInside

(***************************************************************************)
(* What the comments "// lock" and "// unlock" around the critical         *)
(* sections promise: exclusion from boot, with no condition.               *)
(***************************************************************************)
MutualExclusion == AtMostOneInside

(***************************************************************************)
(* A task that calls prv_get_lock gets the lock.                           *)
(***************************************************************************)
EveryCallerGetsIn == \A t \in Task : lpc[t] = "test" ~> lpc[t] = "in"

Abstract == INSTANCE Mutex WITH inside <- Inside

(***************************************************************************)
(* When the first call creates the mutex before a second one is made,      *)
(* prv_get_lock and prv_give_lock implement the abstract mutex: every step *)
(* of theirs enters, leaves or is invisible.                               *)
(***************************************************************************)
ImplementsMutex == Abstract!Spec
=============================================================================
