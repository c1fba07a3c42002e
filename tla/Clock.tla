------------------------------- MODULE Clock -------------------------------
(***************************************************************************)
(* The real time clock and those who set it: SET_TIME of the time service, *)
(* the command `time` of the cli, and RTC_discipline_service, which every  *)
(* DISCIPLINE_DELAY asks the GPS.  Of a time the model keeps whether it is *)
(* the true one, another one that TIMESTAMP_ISOK accepts, or one that it   *)
(* does not.                                                               *)
(***************************************************************************)
EXTENDS Integers

CONSTANT Delay      \* DISCIPLINE_DELAY in intervals of DELAY_WAIT_INTERVAL

ASSUME DelayAssumption == Delay \in Nat \ {0}

VARIABLES
    rtc,            \* what the clock says
    gps,            \* what the GPS says; "none" without a signal
    total_delay,    \* of RTC_discipline_service
    asking          \* it is done waiting

clockVars == <<rtc, gps, total_delay, asking>>

Time == {"true", "close", "wrong"}
TIMESTAMP_ISOK(t) == t # "wrong"

ClockInit ==
    /\ rtc \in Time /\ gps = "none"
    /\ total_delay = 0 /\ asking = FALSE

\* RTCMK_SetUnix(t), which may fail.
SetUnix(t) == rtc' = t \/ UNCHANGED rtc

\* SET_TIME, and `time` with a parameter, which is not looked at.
SET_TIME(t) ==
    /\ TIMESTAMP_ISOK(t) /\ SetUnix(t)
    /\ UNCHANGED <<gps, total_delay, asking>>

prvTimeCommand(t) ==
    /\ SetUnix(t)
    /\ UNCHANGED <<gps, total_delay, asking>>

\* The clock drifts, and signals come and go.
World ==
    /\ \/ rtc = "true" /\ rtc' = "close" /\ UNCHANGED gps
       \/ gps' \in {"true", "wrong", "none"} /\ UNCHANGED rtc
    /\ UNCHANGED <<total_delay, asking>>

\* The inner loop: vTaskDelay until the total is reached.
Wait ==
    /\ ~asking
    /\ IF total_delay < Delay THEN total_delay' = total_delay + 1 /\ UNCHANGED asking
                              ELSE total_delay' = 0 /\ asking' = TRUE
    /\ UNCHANGED <<rtc, gps>>

\* Without a signal it waits again.
NoTime ==
    /\ asking /\ gps = "none" /\ asking' = FALSE
    /\ UNCHANGED <<rtc, gps, total_delay>>

\* A mutated form of Discipline: the result of gps_get_utc_time is taken the other way.
MutTakenInverted ==
    /\ asking /\ gps = "none" /\ rtc' \in Time /\ asking' = FALSE
    /\ UNCHANGED <<gps, total_delay>>

\* With one the clock is set to it, whatever it is.
Discipline ==
    /\ asking /\ gps # "none" /\ rtc' = gps /\ asking' = FALSE
    /\ UNCHANGED <<gps, total_delay>>

\* RTCMK_SetUnix fails, and nobody looks.
DisciplineFails ==
    /\ asking /\ gps # "none" /\ asking' = FALSE
    /\ UNCHANGED <<rtc, gps, total_delay>>

RTC_discipline_service == Wait \/ NoTime \/ Discipline \/ DisciplineFails
=============================================================================
