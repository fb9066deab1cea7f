----------------------------- MODULE WifiManager -----------------------------
(***************************************************************************)
(* main/core/manager/wifi_manager.cc: the station's life cycle.  One task   *)
(* calls the API; the event task runs sta_event_handler on the events that  *)
(* the Wi-Fi driver has posted, which may be older than the last call.      *)
(*                                                                         *)
(* The driver and the queue of the event task are external, modelled from   *)
(* how the code uses them.  Of SSID and password only the identity of the   *)
(* network is kept; the LED is the set of blinks that are started on it.    *)
(***************************************************************************)
EXTENDS Integers, Sequences

CONSTANTS Networks, NoNetwork,
          Api,              \* the operations that the application uses
          RETRIES,          \* 5 in sta_event_handler
          MAXIMUM_RETRY,    \* CONFIG_ESP_MAXIMUM_RETRY
          MaxQueue          \* bound: events waiting for the event task

ASSUME NetworkAssumption == NoNetwork \notin Networks
ASSUME ApiAssumption == Api \subseteq {"Init", "Deinit", "Switch", "Start", "Stop"}
ASSUME NumberAssumption ==
    RETRIES \in Nat /\ MAXIMUM_RETRY \in Nat /\ MaxQueue \in Nat \ {0}

VARIABLES
    init, is_ready, s_retry_num,   \* of the manager
    config,                        \* mode_ is kSta: the network configured, or none
    leds,                          \* blinks started on sta_indicator_
    driver,                        \* "none", "stopped", "started"
    link,                          \* "down", "connecting", "ip", or "no_ip": connected,
                                   \*   but the netif with the address was replaced
    queue,                         \* events posted and not handled
    api_pc, arg,                   \* where the API call is, and its network
    ev_pc, seen,                   \* where the handler is, and s_retry_num as it read it
    said,                          \* what the last call logged on returning early
    told,                          \* what the listener heard last
    retries,                       \* history: retries since the last success or Start
    refused                        \* history: the last event was answered by a call of
                                   \*   esp_wifi_connect that a station that is down refused

manager == <<init, is_ready, config>>
wifi == <<driver, link, queue>>
api == <<api_pc, arg, said>>
handler == <<ev_pc, seen>>
history == <<told, retries, refused>>
vars == <<manager, s_retry_num, leds, wifi, api, handler, history>>

Events == {"START", "DISCONNECTED", "GOT_IP"}
Blinks == {"CONNECTING", "CONNECTED"}
MaxRetries == RETRIES + MAXIMUM_RETRY + 2      \* retries is not counted any further

\* Every variable has its type.
TypeOK ==
    /\ init \in BOOLEAN /\ is_ready \in BOOLEAN
    /\ s_retry_num \in 0 .. RETRIES
    /\ config \in Networks \cup {NoNetwork}
    /\ leds \subseteq Blinks
    /\ driver \in {"none", "stopped", "started"}
    /\ link \in {"down", "connecting", "ip", "no_ip"}
    /\ queue \in Seq(Events) /\ Len(queue) <= MaxQueue
    /\ api_pc \in {"idle", "switch_stopped", "switch_netif", "switch_config", "stopped",
                   "start_reset", "start_wifi", "start_led"}
    /\ arg \in Networks \cup {NoNetwork}
    /\ ev_pc \in {"idle", "retry", "failed", "connected", "tell_failed", "tell_connected"}
    /\ seen \in 0 .. RETRIES
    /\ said \in {"", "already started", "already stopped"}
    /\ told \in {"", "got ip", "failed"}
    /\ retries \in 0 .. MaxRetries
    /\ refused \in BOOLEAN

Init ==
    /\ init = FALSE /\ is_ready = FALSE
    /\ s_retry_num = 0
    /\ config = NoNetwork
    /\ leds = {}
    /\ driver = "none" /\ link = "down" /\ queue = <<>>
    /\ api_pc = "idle" /\ arg = NoNetwork /\ said = ""
    /\ ev_pc = "idle" /\ seen = 0
    /\ told = "" /\ retries = 0 /\ refused = FALSE

-----------------------------------------------------------------------------
(* The driver                                                               *)

Post(e) == Len(queue) < MaxQueue /\ queue' = Append(queue, e)

\* esp_wifi_connect: nothing happens unless the station is up and not connected.  It may
\* be refused, which posts no event; nobody looks at its result.
Connect ==
    IF driver = "started" /\ link = "down"
    THEN link' \in {"connecting", "down"} /\ refused' = (link' = "down")
    ELSE UNCHANGED link /\ refused' = FALSE

Retry ==
    /\ Connect
    /\ retries' = IF link' # link /\ retries < MaxRetries THEN retries + 1 ELSE retries

\* esp_wifi_stop: a connected station is disconnected, which may be posted.
StopDriver ==
    /\ driver' = IF driver = "started" THEN "stopped" ELSE driver
    /\ link' = "down"
    /\ \/ UNCHANGED queue
       \/ link # "down" /\ Post("DISCONNECTED")

AttemptOk ==
    /\ link = "connecting"
    /\ link' = "ip"
    /\ Post("GOT_IP")
    /\ UNCHANGED <<manager, s_retry_num, leds, driver, api, handler, history>>

AttemptFails ==
    /\ link = "connecting"
    /\ link' = "down"
    /\ Post("DISCONNECTED")
    /\ UNCHANGED <<manager, s_retry_num, leds, driver, api, handler, history>>

LinkLost ==
    /\ link \in {"ip", "no_ip"}
    /\ link' = "down"
    /\ Post("DISCONNECTED")
    /\ UNCHANGED <<manager, s_retry_num, leds, driver, api, handler, history>>

-----------------------------------------------------------------------------
(* The API                                                                  *)

\* No call is under way, and the application makes this one.
Begin(op) == api_pc = "idle" /\ op \in Api

\* esp_wifi_init may fail, which leaves everything as it was.
InitCall ==
    /\ Begin("Init")
    /\ ~init
    /\ init' = TRUE
    /\ driver' = IF driver = "none" THEN "stopped" ELSE driver
    /\ said' = ""
    /\ UNCHANGED <<is_ready, config, s_retry_num, leds, link, queue, api_pc, arg,
                   handler, history>>

\* By an application that has stopped the driver, as esp_wifi_deinit requires.
DeinitCall ==
    /\ Begin("Deinit")
    /\ init
    /\ driver = "stopped"
    /\ init' = FALSE
    /\ driver' = "none"
    /\ said' = ""
    /\ UNCHANGED <<is_ready, config, s_retry_num, leds, link, queue, api_pc, arg,
                   handler, history>>

\* Nothing to do when the network is configured; else Stop, which stops a ready one.
SwitchCall(net) ==
    /\ Begin("Switch")
    /\ config # net
    /\ arg' = net
    /\ IF is_ready /\ driver # "none"
       THEN api_pc' = "switch_stopped" /\ said' = "" /\ StopDriver
       ELSE /\ api_pc' = "switch_netif"
            /\ said' = IF is_ready THEN "" ELSE "already stopped"
            /\ UNCHANGED wifi
    /\ UNCHANGED <<manager, s_retry_num, leds, handler, history>>

SwitchStopped ==
    /\ api_pc = "switch_stopped"
    /\ is_ready' = FALSE
    /\ api_pc' = "switch_netif"
    /\ UNCHANGED <<init, config, s_retry_num, leds, wifi, arg, said, handler, history>>

\* esp_netif_destroy_default_wifi and _create_: a station that still runs, because Stop
\* returned early, loses its address without an event.  One that is connecting may have
\* passed the point at which it would have asked for one.
SwitchNetif ==
    /\ api_pc = "switch_netif"
    /\ \/ link # "ip" /\ UNCHANGED link
       \/ link \in {"connecting", "ip"} /\ link' = "no_ip"
    /\ api_pc' = "switch_config"
    /\ UNCHANGED <<manager, s_retry_num, leds, driver, queue, arg, said, handler, history>>

\* esp_wifi_set_mode and esp_wifi_set_config, each of which may fail.
SwitchConfig ==
    /\ api_pc = "switch_config"
    /\ \/ UNCHANGED config
       \/ driver # "none" /\ config' = arg
    /\ api_pc' = "idle"
    /\ arg' = NoNetwork
    /\ UNCHANGED <<init, is_ready, s_retry_num, leds, wifi, said, handler, history>>

StartCall ==
    /\ Begin("Start")
    /\ IF is_ready
       THEN said' = "already started" /\ UNCHANGED api_pc
       ELSE said' = "" /\ api_pc' = "start_reset"
    /\ UNCHANGED <<manager, s_retry_num, leds, wifi, arg, handler, history>>

StartReset ==
    /\ api_pc = "start_reset"
    /\ s_retry_num' = 0
    /\ retries' = 0
    /\ api_pc' = "start_wifi"
    /\ UNCHANGED <<manager, leds, wifi, arg, said, handler, told, refused>>

\* esp_wifi_start: a driver that has started already posts nothing.
StartWifi ==
    /\ api_pc = "start_wifi"
    /\ CASE driver = "none" -> api_pc' = "idle" /\ UNCHANGED <<driver, queue>>
         [] driver = "stopped" -> /\ api_pc' = "start_led"
                                  /\ driver' = "started"
                                  /\ Post("START")
         [] driver = "started" -> api_pc' = "start_led" /\ UNCHANGED <<driver, queue>>
    /\ UNCHANGED <<manager, s_retry_num, leds, link, arg, said, handler, history>>

StartLed ==
    /\ api_pc = "start_led"
    /\ leds' = leds \cup {"CONNECTING"}
    /\ api_pc' = "idle"
    /\ UNCHANGED <<manager, s_retry_num, wifi, arg, said, handler, history>>

\* esp_wifi_stop, for a manager that is ready.
StopCall ==
    /\ Begin("Stop")
    /\ IF ~is_ready
       THEN said' = "already stopped" /\ UNCHANGED <<api_pc, wifi>>
       ELSE /\ said' = ""
            /\ IF driver = "none"
               THEN UNCHANGED <<api_pc, wifi>>
               ELSE api_pc' = "stopped" /\ StopDriver
    /\ UNCHANGED <<manager, s_retry_num, leds, arg, handler, history>>

StopDone ==
    /\ api_pc = "stopped"
    /\ is_ready' = FALSE
    /\ api_pc' = "idle"
    /\ UNCHANGED <<init, config, s_retry_num, leds, wifi, arg, said, handler, history>>

-----------------------------------------------------------------------------
(* sta_event_handler, on the event task                                     *)

Take(e) ==
    /\ ev_pc = "idle"
    /\ queue # <<>>
    /\ Head(queue) = e
    /\ queue' = Tail(queue)

\* No handler is registered.
Drop ==
    /\ ~init
    /\ \E e \in Events : Take(e)
    /\ UNCHANGED <<manager, s_retry_num, leds, driver, link, api, handler, history>>

OnStart ==
    /\ init
    /\ Take("START")
    /\ Connect
    /\ UNCHANGED <<manager, s_retry_num, leds, driver, api, handler, told, retries>>

\* Retry, or begin OnStaConnectFailed.
OnDisconnected ==
    /\ init
    /\ Take("DISCONNECTED")
    /\ seen' = s_retry_num
    /\ IF s_retry_num < RETRIES
       THEN Retry /\ ev_pc' = "retry" /\ UNCHANGED is_ready
       ELSE /\ ev_pc' = "failed"
            /\ is_ready' = FALSE
            /\ refused' = FALSE
            /\ UNCHANGED <<link, retries>>
    /\ UNCHANGED <<init, config, s_retry_num, leds, driver, api, told>>

\* (mutant) A retry is not counted.
CountRetry_Not ==
    /\ ev_pc = "retry"
    /\ ev_pc' = "idle"
    /\ UNCHANGED <<manager, s_retry_num, leds, wifi, api, seen, history>>

\* s_retry_num++ is a read and a write, and Start writes 0 in another task.
CountRetry ==
    /\ ev_pc = "retry"
    /\ \E old \in {seen, s_retry_num} : s_retry_num' = old + 1
    /\ ev_pc' = "idle"
    /\ UNCHANGED <<manager, leds, wifi, api, seen, history>>

\* (mutant) The LED goes on showing a connection.
FailedLed_Keeps ==
    /\ ev_pc = "failed"
    /\ leds' = leds \ {"CONNECTING"}
    /\ ev_pc' = "tell_failed"
    /\ UNCHANGED <<manager, s_retry_num, wifi, api, seen, history>>

\* The LED, in OnStaConnectFailed.
FailedLed ==
    /\ ev_pc = "failed"
    /\ leds' = {}
    /\ ev_pc' = "tell_failed"
    /\ UNCHANGED <<manager, s_retry_num, wifi, api, seen, history>>

OnGotIp ==
    /\ init
    /\ Take("GOT_IP")
    /\ s_retry_num' = 0
    /\ retries' = 0
    /\ is_ready' = TRUE
    /\ ev_pc' = "connected"
    /\ UNCHANGED <<init, config, leds, driver, link, api, seen, told, refused>>

\* The LED, in OnStaConnected.
ConnectedLed ==
    /\ ev_pc = "connected"
    /\ leds' = {"CONNECTED"}
    /\ ev_pc' = "tell_connected"
    /\ UNCHANGED <<manager, s_retry_num, wifi, api, seen, history>>

\* The listener, if any.
Tell ==
    /\ \/ ev_pc = "tell_failed" /\ told' = "failed"
       \/ ev_pc = "tell_connected" /\ told' = "got ip"
    /\ ev_pc' = "idle"
    /\ UNCHANGED <<manager, s_retry_num, leds, wifi, api, seen, retries, refused>>

-----------------------------------------------------------------------------
ApiCall ==
    \/ InitCall \/ DeinitCall \/ StartCall \/ StopCall
    \/ \E net \in Networks : SwitchCall(net)

ApiStep ==
    \/ SwitchStopped \/ SwitchNetif \/ SwitchConfig
    \/ StartReset \/ StartWifi \/ StartLed \/ StopDone

EventTask ==
    \/ Drop \/ OnStart \/ OnDisconnected \/ CountRetry \/ FailedLed
    \/ OnGotIp \/ ConnectedLed \/ Tell

Driver == AttemptOk \/ AttemptFails \/ LinkLost

Next == ApiCall \/ ApiStep \/ EventTask \/ Driver

Spec == Init /\ [][Next]_vars

\* Calls and events are carried out, and an attempt to connect ends.
FairSpec ==
    Spec /\ WF_vars(ApiStep) /\ WF_vars(EventTask) /\ WF_vars(AttemptOk \/ AttemptFails)

-----------------------------------------------------------------------------
(* Properties                                                               *)

\* Nothing is under way.
Settled == queue = <<>> /\ ev_pc = "idle" /\ api_pc = "idle" /\ link # "connecting"

\* The driver owes no event about what became of the station: no reconnect was refused and
\* no address taken away.  Of these the code hears nothing.
Told == ~refused /\ link # "no_ip"

\* Once everything has been handled, the manager, its LED and the listener agree with a
\* station that runs and of which the driver told, whatever was still queued when the
\* driver was stopped or started again.
ReadyIsConnected ==
    Settled /\ driver = "started" /\ Told =>
        /\ is_ready <=> link = "ip"
        /\ is_ready <=> "CONNECTED" \in leds
        /\ is_ready <=> told = "got ip"

\* At most so many retries follow a Start without a success, also when Start and the
\* handler race for the count and old events are handled after it.
RetriesBounded == retries <= RETRIES

\* A network that stays away is given up, whatever was queued before, if reconnects are
\* not refused for ever.
LossIsNoticed ==
    /\ <>[](driver = "started" /\ link \in {"down", "connecting"})
    /\ []<>(~refused)
    => <>[](~is_ready)

-----------------------------------------------------------------------------
(* What this code does not keep: checked on its own, each is violated        *)

\* A reconnect that is refused is noticed.
RefusalIsNoticed == Settled /\ driver = "started" /\ refused => ~is_ready

\* A station whose address went with the netif is not ready.
ReplacementIsNoticed == Settled /\ driver = "started" /\ link = "no_ip" => ~is_ready

\* A station that is connected is not shown as connecting.
ConnectingIsOver ==
    Settled /\ driver = "started" /\ is_ready => "CONNECTING" \notin leds

\* The retries are those that were configured.
RetriesConfigured == retries <= MAXIMUM_RETRY

\* "wifi manager already stoped" is said of a station that is stopped.
AlreadyStopped == said = "already stopped" => driver # "started"

\* "wifi manager already started" is said of a station that is started.
AlreadyStarted == said = "already started" => driver = "started"
=============================================================================
