------------------------------ MODULE Startup ------------------------------
(***************************************************************************)
(* start_service_server (services.c) and the start_..._service functions   *)
(* it calls.  Each of them creates a task and then registers it with the   *)
(* watchdog; start_time_management_service goes on to the two tasks of     *)
(* start_gps_services, and start_cli_service to register_commands.  A task *)
(* runs from its creation on.                                              *)
(*                                                                         *)
(* start_adcs_service is called by nobody.                                 *)
(***************************************************************************)
EXTENDS Integers, Sequences, SequencesExt

VARIABLES
    starting,    \* the task start_service_server is at, in Tasks
    stage,       \* "create", "register", "commands", or what it returned
    running,     \* the tasks that were created
    watched,     \* the tasks the watchdog looks after
    commands     \* register_commands was called

startVars == <<starting, stage, running, watched, commands>>

\* The tasks in the order they are created.
Tasks == <<"csp_server", "cli", "communication", "time", "RTC", "NMEA", "housekeeping",
           "general", "updater", "logger", "dfgm">>

Returned == stage \in {"SATR_OK", "SATR_ERROR"}

StartInit ==
    /\ starting = 1 /\ stage = "create"
    /\ running = {} /\ watched = {} /\ commands = FALSE

GoOn == IF starting = Len(Tasks)
        THEN stage' = "SATR_OK" /\ UNCHANGED starting
        ELSE stage' = "create" /\ starting' = starting + 1

\* The server task is not registered.
TaskCreated ==
    /\ stage = "create" /\ running' = running \cup {Tasks[starting]}
    /\ IF Tasks[starting] = "csp_server" THEN GoOn ELSE stage' = "register" /\ UNCHANGED starting
    /\ UNCHANGED <<watched, commands>>

\* A mutated form of TaskFails: no result is looked at.
MutFailureIgnored ==
    /\ stage = "create" /\ GoOn
    /\ UNCHANGED <<running, watched, commands>>

\* xTaskCreate fails: everyone looks at the result but the caller of start_cli_service.
TaskFails ==
    /\ stage = "create"
    /\ IF Tasks[starting] = "cli" THEN GoOn ELSE stage' = "SATR_ERROR" /\ UNCHANGED starting
    /\ UNCHANGED <<running, watched, commands>>

ex2_register ==
    /\ stage = "register" /\ watched' = watched \cup {Tasks[starting]}
    /\ IF Tasks[starting] = "cli" THEN stage' = "commands" /\ UNCHANGED starting ELSE GoOn
    /\ UNCHANGED <<running, commands>>

register_commands ==
    /\ stage = "commands" /\ commands' = TRUE /\ GoOn
    /\ UNCHANGED <<running, watched>>

StartNext == TaskCreated \/ TaskFails \/ ex2_register \/ register_commands

-----------------------------------------------------------------------------
Before(t) == {u \in ToSet(Tasks) :
                \E i, j \in 1..Len(Tasks) : i < j /\ Tasks[i] = u /\ Tasks[j] = t}

(***************************************************************************)
(* What start_service_server returned tells what runs: SATR_OK that every  *)
(* task but perhaps the cli does, SATR_ERROR that there is one that does   *)
(* not, nor do those after it.  No task is left without the watchdog, and  *)
(* no cli without its commands.                                            *)
(***************************************************************************)
StartTold ==
    /\ \A t \in running : Before(t) \ {"cli"} \subseteq running
    /\ stage = "SATR_OK" => ToSet(Tasks) \ {"cli"} \subseteq running
    /\ stage = "SATR_ERROR" => ~(ToSet(Tasks) \ {"cli"} \subseteq running)
    /\ Returned => watched = running \ {"csp_server"}
    /\ Returned => (commands <=> "cli" \in running)
=============================================================================
