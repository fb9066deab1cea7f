------------------------------ MODULE MqttClient ------------------------------
(***************************************************************************)
(* main/core/mqtt/mqtt_client_wrapper.cc: a client object that one task     *)
(* creates, starts, uses, stops and deletes, while the task of the MQTT     *)
(* library calls it back.  None of its fields is protected by a lock.       *)
(*                                                                         *)
(* The library is external, modelled from how the code uses it: its task    *)
(* runs one event handler at a time and does nothing else meanwhile;        *)
(* esp_mqtt_client_stop returns when that task has ended.                   *)
(***************************************************************************)
EXTENDS Integers

VARIABLES
    object,              \* "deleted", or "alive"
    handle,              \* handle_ is not null
    is_start, is_ready,  \* is_start_, is_ready_
    auto,                \* auto_reconnect
    lib,                 \* the client of the library: "none", "created", "connecting",
                         \* "connected", "ended" (it gave up) or "stopped"
    api_pc, call,        \* where the object's task is, and in which operation
    cb_pc,               \* where the library's task is
    said                 \* what the last request was answered

object_fields == <<object, auto>>
flags == <<handle, is_start, is_ready>>
vars == <<object_fields, flags, lib, api_pc, call, cb_pc, said>>

\* A request, and whether its message has an id: those of quality of service 0 have none.
Requests ==
    [op : {"Publish", "AsyncPublish"}, id : BOOLEAN]
      \cup [op : {"Subscribe", "Unsubscribe"}, id : {TRUE}]

Idle == [op |-> "none", id |-> FALSE]
Running == {"connecting", "connected", "ended"}

\* Every variable has its type; a call that has got past its checks has a client.
TypeOK ==
    /\ object \in {"alive", "deleted"} /\ auto \in BOOLEAN
    /\ handle \in BOOLEAN /\ is_start \in BOOLEAN /\ is_ready \in BOOLEAN
    /\ lib \in Running \cup {"none", "created", "stopped"}
    /\ api_pc \in {"idle", "register", "start", "started", "request", "wait", "destroy"}
    /\ call \in Requests \cup {Idle}
    /\ cb_pc \in {"idle", "ready", "subscribe", "lost", "message"}
    /\ said \in {"", "ok", "not ready", "failed", "failed but accepted", "null handle"}
    /\ api_pc \in {"register", "start", "started", "wait", "destroy"} => handle

Init ==
    /\ object = "deleted" /\ auto = FALSE
    /\ handle = FALSE /\ is_start = FALSE /\ is_ready = FALSE
    /\ lib = "none"
    /\ api_pc = "idle" /\ call = Idle
    /\ cb_pc = "idle"
    /\ said = ""

-----------------------------------------------------------------------------
(* The task that owns the object                                            *)

At(place) == api_pc = place /\ object = "alive"

\* The constructor.
New ==
    /\ object = "deleted"
    /\ object' = "alive"
    /\ auto' \in BOOLEAN
    /\ handle' = FALSE /\ is_start' = FALSE /\ is_ready' = FALSE
    /\ said' = ""
    /\ UNCHANGED <<lib, api_pc, call, cb_pc>>

\* esp_mqtt_client_destroy, and no handle any more.
Destroy ==
    /\ lib' = "none"
    /\ handle' = FALSE

\* Start, unless it has been started; esp_mqtt_client_init may fail.
StartCall ==
    /\ At("idle")
    /\ ~is_start
    /\ \/ /\ lib' = "created"
          /\ handle' = TRUE
          /\ api_pc' = "register"
       \/ handle' = FALSE /\ UNCHANGED <<lib, api_pc>>
    /\ said' = ""
    /\ UNCHANGED <<object_fields, is_start, is_ready, call, cb_pc>>

\* (mutant) A client that cannot be started is not destroyed.
StartClient_Leaks ==
    /\ At("start")
    /\ \/ lib' = "connecting" /\ api_pc' = "started" /\ UNCHANGED handle
       \/ handle' = FALSE /\ api_pc' = "idle" /\ UNCHANGED lib
    /\ UNCHANGED <<object_fields, is_start, is_ready, call, cb_pc, said>>

\* esp_mqtt_client_register_event and esp_mqtt_client_start.
Register ==
    /\ At("register")
    /\ \/ api_pc' = "start" /\ UNCHANGED <<lib, handle>>
       \/ api_pc' = "idle" /\ Destroy
    /\ UNCHANGED <<object_fields, is_start, is_ready, call, cb_pc, said>>

StartClient ==
    /\ At("start")
    /\ \/ lib' = "connecting" /\ api_pc' = "started" /\ UNCHANGED handle
       \/ api_pc' = "idle" /\ Destroy
    /\ UNCHANGED <<object_fields, is_start, is_ready, call, cb_pc, said>>

Started ==
    /\ At("started")
    /\ is_start' = TRUE
    /\ api_pc' = "idle"
    /\ UNCHANGED <<object_fields, handle, is_ready, lib, call, cb_pc, said>>

\* Stop, of a client that has been started.
StopCall ==
    /\ At("idle")
    /\ is_start
    /\ api_pc' = "wait"
    /\ said' = ""
    /\ UNCHANGED <<object_fields, flags, lib, call, cb_pc>>

\* (mutant) The destructor does not stop the client.
Delete_Running ==
    /\ At("idle")
    /\ object' = "deleted"
    /\ said' = ""
    /\ UNCHANGED <<auto, flags, lib, api_pc, call, cb_pc>>

\* The destructor, of a client that is not started; otherwise it begins with Stop.
Delete ==
    /\ At("idle")
    /\ ~is_start
    /\ object' = "deleted"
    /\ said' = ""
    /\ UNCHANGED <<auto, flags, lib, api_pc, call, cb_pc>>

\* esp_mqtt_client_stop waits for the library's task.
StopWait ==
    /\ At("wait")
    /\ cb_pc = "idle"
    /\ lib' = "stopped"
    /\ api_pc' = "destroy"
    /\ UNCHANGED <<object_fields, flags, call, cb_pc, said>>

\* The end of Stop, and of the destructor that called it.
StopDone ==
    /\ At("destroy")
    /\ Destroy
    /\ is_start' = FALSE
    /\ api_pc' = "idle"
    /\ object' \in {"alive", "deleted"}
    /\ UNCHANGED <<auto, is_ready, call, cb_pc, said>>

\* Publish, AsyncPublish, Subscribe or Unsubscribe.
Request(request) ==
    /\ At("idle")
    /\ IF is_ready
       THEN api_pc' = "request" /\ call' = request /\ said' = ""
       ELSE said' = "not ready" /\ UNCHANGED <<api_pc, call>>
    /\ UNCHANGED <<object_fields, flags, lib, cb_pc>>

\* The library's answer: the id of the message or 0, or -1 when it refuses.  Any value
\* but 0 (ESP_OK) is taken for a failure.
Requested ==
    /\ At("request")
    /\ said' \in IF ~handle THEN {"null handle"}
                 ELSE {"failed", IF call.id THEN "failed but accepted" ELSE "ok"}
    /\ api_pc' = "idle"
    /\ call' = Idle
    /\ UNCHANGED <<object_fields, flags, lib, cb_pc>>

-----------------------------------------------------------------------------
(* The library, and mqtt_event_handler on its task                          *)

\* The task is between two events, and in this state.
Runs(state) == cb_pc = "idle" /\ lib = state

Connect ==
    /\ Runs("connecting")
    /\ lib' = "connected"
    /\ cb_pc' = "ready"
    /\ UNCHANGED <<object_fields, flags, api_pc, call, said>>

\* An attempt fails or a connection is lost; both are MQTT_EVENT_DISCONNECTED.
Disconnect(state) ==
    /\ Runs(state)
    /\ lib' = IF auto THEN "connecting" ELSE "ended"
    /\ cb_pc' = "lost"
    /\ UNCHANGED <<object_fields, flags, api_pc, call, said>>

Receive ==
    /\ Runs("connected")
    /\ cb_pc' = "message"
    /\ UNCHANGED <<object_fields, flags, lib, api_pc, call, said>>

OnReady ==
    /\ cb_pc = "ready"
    /\ is_ready' = TRUE
    /\ cb_pc' = "subscribe"
    /\ UNCHANGED <<object_fields, handle, is_start, lib, api_pc, call, said>>

\* The ready callback of app_main subscribes.
ReadyCallback ==
    /\ cb_pc = "subscribe"
    /\ cb_pc' = "idle"
    /\ UNCHANGED <<object_fields, flags, lib, api_pc, call, said>>

\* (mutant) The flag is not reset.
OnDisconnect_Keeps ==
    /\ cb_pc = "lost"
    /\ cb_pc' = "idle"
    /\ UNCHANGED <<object_fields, flags, lib, api_pc, call, said>>

OnDisconnect ==
    /\ cb_pc = "lost"
    /\ is_ready' = FALSE
    /\ cb_pc' = "idle"
    /\ UNCHANGED <<object_fields, handle, is_start, lib, api_pc, call, said>>

OnReceiveMsg ==
    /\ cb_pc = "message"
    /\ cb_pc' = "idle"
    /\ UNCHANGED <<object_fields, flags, lib, api_pc, call, said>>

-----------------------------------------------------------------------------
Api ==
    \/ New \/ Delete \/ StartCall \/ StopCall
    \/ \E request \in Requests : Request(request)

ApiStep == Register \/ StartClient \/ Started \/ StopWait \/ StopDone \/ Requested

Callback == OnReady \/ ReadyCallback \/ OnDisconnect \/ OnReceiveMsg

AttemptEnds == Connect \/ Disconnect("connecting")

Network == AttemptEnds \/ Disconnect("connected") \/ Receive

Next == Api \/ ApiStep \/ Callback \/ Network

Spec == Init /\ [][Next]_vars

\* Calls and callbacks go on, and an attempt to connect ends.
FairSpec ==
    Spec /\ WF_vars(ApiStep) /\ WF_vars(Callback) /\ WF_vars(AttemptEnds)

-----------------------------------------------------------------------------
(* Properties                                                               *)

\* Between two calls the object holds the library's client exactly while it is started:
\* no error path of Start, and no Stop, leaks one or keeps a handle of a destroyed one.
ClientIsOwned ==
    api_pc = "idle" =>
        /\ handle <=> is_start
        /\ handle <=> lib # "none"

\* A callback runs only while the library has a client for it, never on a deleted object;
\* and the subscription of the ready callback finds the object ready and with that client,
\* also when the callback comes before Start has returned or during Stop.
CallbackHasClient ==
    /\ cb_pc # "idle" => lib \in Running /\ object # "deleted"
    /\ object = "deleted" => lib = "none"
    /\ cb_pc = "subscribe" => is_ready /\ handle

\* is_ready_ follows the connection in the end, whatever it was before a Start.
ReadyFollows ==
    /\ <>[](is_start /\ lib # "connected") => <>[](~is_ready)
    /\ <>[](lib = "connected") => <>[]is_ready

-----------------------------------------------------------------------------
(* What this code does not keep: checked on its own, each is violated        *)

\* "not ready, so cannot publish": no request reaches the library without a client.
RequestHasClient == said # "null handle"

\* "publish failed", "subscribe failed": of a request that was not accepted.
FailedIsFailed == said # "failed but accepted"
=============================================================================
