------------------------------- MODULE Mutex -------------------------------
(***************************************************************************)
(* What f_count_lock is there to promise: at most one task at a time is    *)
(* inside the critical sections of the housekeeping service.               *)
(***************************************************************************)
CONSTANT Task
VARIABLE inside      \* the tasks between prv_get_lock and prv_give_lock

Init == inside = {}

Enter(t) == inside = {} /\ inside' = {t}

Leave(t) == t \in inside /\ inside' = inside \ {t}

Next == \E t \in Task : Enter(t) \/ Leave(t)

Spec == Init /\ [][Next]_inside
=============================================================================
