--------------------------------- MODULE Sntp ---------------------------------
(***************************************************************************)
(* main/core/manager/sntp_manager.cc: SyncTime polls the status of the SNTP *)
(* client a limited number of times while the server's answer may come at   *)
(* any moment.  Reading the status clears it.                               *)
(*                                                                         *)
(* The SNTP client is external, in its mode of setting the clock at once;   *)
(* of the clock only whether its year is 2022 or later is kept.             *)
(***************************************************************************)
EXTENDS Integers

CONSTANT SNTP_TRY_COUNT

ASSUME TryAssumption == SNTP_TRY_COUNT \in 1 .. 255

VARIABLES
    status,              \* sntp_get_sync_status: "RESET" or "COMPLETED"
    running,             \* between sntp_init and sntp_stop
    clock_valid,         \* CheckTimeValid
    sync_time_success,   \* sync_time_success_
    pc, retry, success,  \* SyncSNTP
    synced,              \* history: the server has ever answered
    answered             \* history: it did in this call, while the call still looked

client == <<status, running, clock_valid>>
local == <<pc, retry, success>>
history == <<synced, answered>>
vars == <<client, sync_time_success, local, history>>

\* Every variable has its type.
TypeOK ==
    /\ status \in {"RESET", "COMPLETED"}
    /\ running \in BOOLEAN /\ clock_valid \in BOOLEAN /\ sync_time_success \in BOOLEAN
    /\ pc \in {"idle", "poll", "wait", "last", "stop", "judge"}
    /\ retry \in 0 .. SNTP_TRY_COUNT
    /\ success \in BOOLEAN /\ synced \in BOOLEAN /\ answered \in BOOLEAN

Init ==
    /\ status = "RESET" /\ running = FALSE /\ clock_valid = FALSE
    /\ sync_time_success = FALSE
    /\ pc = "idle" /\ retry = 0 /\ success = FALSE
    /\ synced = FALSE /\ answered = FALSE

\* The server's answer sets the clock, to whatever time it has.
Answer ==
    /\ running
    /\ status' = "COMPLETED"
    /\ clock_valid' \in BOOLEAN
    /\ synced' = TRUE
    /\ answered' = (answered \/ pc \in {"poll", "wait", "last"})
    /\ UNCHANGED <<running, sync_time_success, local>>

SyncTime ==
    /\ pc = "idle"
    /\ running' = TRUE
    /\ retry' = 0 /\ success' = FALSE
    /\ answered' = FALSE
    /\ pc' = "poll"
    /\ UNCHANGED <<status, clock_valid, sync_time_success, synced>>

Read == status' = "RESET"

\* (mutant) The tries are not counted.
Poll_Unlimited ==
    /\ pc = "poll"
    /\ Read
    /\ \/ status = "COMPLETED" /\ success' = TRUE /\ pc' = "stop"
       \/ status = "RESET" /\ pc' = "wait" /\ UNCHANGED success
    /\ UNCHANGED <<retry, running, clock_valid, sync_time_success, history>>

\* The condition of the loop.
Poll ==
    /\ pc = "poll"
    /\ Read
    /\ \/ status = "COMPLETED" /\ success' = TRUE /\ pc' = "stop" /\ UNCHANGED retry
       \/ /\ status = "RESET"
          /\ retry' = retry + 1
          /\ pc' = IF retry' < SNTP_TRY_COUNT THEN "wait" ELSE "last"
          /\ UNCHANGED success
    /\ UNCHANGED <<running, clock_valid, sync_time_success, history>>

Wait ==
    /\ pc = "wait"
    /\ pc' = "poll"
    /\ UNCHANGED <<client, sync_time_success, retry, success, history>>

\* (mutant) The status is not read again.
Last_NoRead ==
    /\ pc = "last"
    /\ success' = FALSE
    /\ pc' = "stop"
    /\ UNCHANGED <<client, sync_time_success, retry, history>>

\* When the tries are used up, the status is read once more.
Last ==
    /\ pc = "last"
    /\ Read
    /\ success' = (status = "COMPLETED")
    /\ pc' = "stop"
    /\ UNCHANGED <<running, clock_valid, sync_time_success, retry, history>>

Stop ==
    /\ pc = "stop"
    /\ running' = FALSE
    /\ pc' = "judge"
    /\ UNCHANGED <<status, clock_valid, sync_time_success, retry, success, history>>

\* (mutant) The clock is not looked at.
Judge_NoCheck ==
    /\ pc = "judge"
    /\ sync_time_success' = success
    /\ pc' = "idle"
    /\ UNCHANGED <<client, retry, success, history>>

\* SyncTime, after SyncSNTP: the clock has the last word.
Judge ==
    /\ pc = "judge"
    /\ sync_time_success' = (success /\ clock_valid)
    /\ pc' = "idle"
    /\ UNCHANGED <<client, retry, success, history>>

Next == SyncTime \/ Poll \/ Wait \/ Last \/ Stop \/ Judge \/ Answer

Spec == Init /\ [][Next]_vars

-----------------------------------------------------------------------------
(* Properties                                                               *)

\* HasSyncTime is true of a valid clock only, between two calls.
SuccessIsValid == pc = "idle" /\ sync_time_success => clock_valid

\* A call succeeds only if the server has answered, although the count of the tries and
\* the status are read at different times.
SuccessIsSynced == pc = "judge" /\ success => synced

\* An answer that comes while the call still looks is not missed, at whatever step, and
\* without one there is no success.
AnswerIsNoticed == pc = "judge" => (answered => success) /\ (success => synced)

=============================================================================
