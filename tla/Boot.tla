-------------------------------- MODULE Boot --------------------------------
(***************************************************************************)
(* The start-up together with two of the things it starts or is meant to   *)
(* start: the tasks that set the clock and the response server.  A task    *)
(* takes its steps from the moment it was created, while the start-up goes *)
(* on or stops.                                                            *)
(***************************************************************************)
EXTENDS Startup, Clock, Response

vars == <<startVars, clockVars, responseVars>>

Init == StartInit /\ ClockInit /\ ResponseInit

ClockNext ==
    \/ "time" \in running /\ \E t \in Time : SET_TIME(t)
    \/ "cli" \in running /\ commands /\ \E t \in Time : prvTimeCommand(t)
    \/ "RTC" \in running /\ RTC_discipline_service
    \/ World

Next ==
    \/ StartNext /\ UNCHANGED <<clockVars, responseVars>>
    \/ ClockNext /\ UNCHANGED <<startVars, responseVars>>
    \/ ResponseNext /\ UNCHANGED <<startVars, clockVars>>

(***************************************************************************)
(* RTC_discipline_service runs, and RTCMK_SetUnix does not fail for ever.  *)
(***************************************************************************)
FairSpec ==
    /\ Init /\ [][Next]_vars
    /\ WF_vars("RTC" \in running /\ RTC_discipline_service /\ UNCHANGED <<startVars, responseVars>>)
    /\ SF_vars("RTC" \in running /\ Discipline /\ UNCHANGED <<startVars, responseVars>>)

(***************************************************************************)
(* Once its task was created the clock follows the GPS: if the signal      *)
(* stays from some time on, however often it was lost before, the clock is *)
(* brought back to the true time again and again, whatever the ground and  *)
(* the cli set it to.                                                      *)
(***************************************************************************)
ClockFollowsGps ==
    <>("RTC" \in running) /\ <>[](gps = "true") => []<>(rtc = "true")
=============================================================================
