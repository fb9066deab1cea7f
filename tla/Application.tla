----------------------------- MODULE Application -----------------------------
(***************************************************************************)
(* main/esp_smart_home.cc and main/core/init.cc: app_main starts the parts  *)
(* of the system one after the other, whatever each of them answers, and    *)
(* then publishes three events a second on the global event bus.            *)
(*                                                                         *)
(* The time is Sntp, whose steps are taken while app_main waits in          *)
(* SyncTime, and again when another task calls it.  The bus is what         *)
(* EventBus implements, EventDelivery, and Publish obtains its mutex in     *)
(* time.  Wi-Fi and MQTT have modules of their own: here they are started,  *)
(* or not.                                                                  *)
(***************************************************************************)
EXTENDS Sntp, FiniteSets

CONSTANTS Handler,     \* event_handler
          Capacity,    \* EVENT_CAPACITY
          None

ASSUME CapacityAssumption == Capacity \in Nat /\ Capacity >= 3

\* TestEvent1, TestEvent2, TestEvent3; an event is known by its class and its address, of
\* which there are enough for a full queue and the event that is delivered.
Names == 1 .. 3
Events == Names \X (0 .. Capacity)

VARIABLES
    main,                                    \* where app_main is
    turn,                                    \* the event it publishes next, 0 for MQTT
    wifi,                                    \* started or not
    pending, inflight, stage, todo, subs,    \* the bus
    lost,                                    \* history: an event was refused
    behind                                   \* history: a round began before the bus had
                                             \* taken all events of the last one

bus == <<pending, inflight, stage, todo, subs>>
rounds == <<turn, lost, behind>>
appVars == <<main, rounds, wifi, bus, vars>>

Name == [e \in Events |-> e[1]]
Priority == [e \in Events |-> e[1] - 1]

Bus == INSTANCE EventDelivery WITH Handlers <- {Handler}

AppInit ==
    /\ Init /\ Bus!DInit
    /\ main = "base" /\ turn = 0
    /\ wifi = FALSE
    /\ lost = FALSE /\ behind = FALSE

-----------------------------------------------------------------------------
(* app_main                                                                 *)

At(place) == main = place
Goto(place) == main' = place

\* nvs_flash_init, esp_netif_init, esp_event_loop_create_default: without one of them
\* app_main returns.
BaseInit ==
    /\ At("base")
    /\ Goto("wifi") \/ Goto("returned")
    /\ UNCHANGED <<rounds, wifi, bus, vars>>

\* Init, SwitchStationMode and Start, each only if the one before did not fail.
StartWifi ==
    /\ At("wifi")
    /\ wifi' \in BOOLEAN
    /\ Goto("sync")
    /\ UNCHANGED <<rounds, bus, vars>>

CallSync ==
    /\ At("sync")
    /\ SyncTime
    /\ Goto("syncing")
    /\ UNCHANGED <<rounds, wifi, bus>>

\* MqttClient::Start, which may fail.
StartMqtt ==
    /\ At("mqtt")
    /\ Goto("subscribe")
    /\ UNCHANGED <<rounds, wifi, bus, vars>>

\* The names in the order in which app_main subscribes to them.
Order == <<1, 3, 2>>

Subscribe ==
    /\ At("subscribe")
    /\ \E i \in DOMAIN Order :
          /\ \A j \in DOMAIN Order : subs[Order[j]] = {} <=> j >= i
          /\ Bus!Subscribed(Order[i], Handler)
          /\ Goto(IF i + 1 \in DOMAIN Order THEN "subscribe" ELSE "delay")
    /\ UNCHANGED <<rounds, wifi, vars>>

\* (mutant) The next round begins without a pause.
AsyncPublish_NoDelay ==
    /\ At("publish") /\ turn = 0
    /\ turn' = 3
    /\ UNCHANGED <<main, lost, behind, wifi, bus, vars>>

\* DelayMS, in which the bus may have done any part of its work.
Delay ==
    /\ At("delay")
    /\ Goto("publish")
    /\ turn' = 3
    /\ behind' = (behind \/ pending # {})
    /\ UNCHANGED <<lost, wifi, bus, vars>>

\* The first address where no event is.
Fresh(n) ==
    LET free == {e \in Events : Name[e] = n} \ (pending \cup {inflight})
    IN  CHOOSE e \in free : \A f \in free : e[2] <= f[2]

\* What Publish answers is not looked at: an event that is refused has no owner.
Publish ==
    /\ At("publish") /\ turn # 0
    /\ IF Cardinality(pending) < Capacity
       THEN Bus!Accept(Fresh(turn)) /\ UNCHANGED lost
       ELSE lost' = TRUE /\ UNCHANGED bus
    /\ turn' = turn - 1
    /\ UNCHANGED <<main, behind, wifi, vars>>

\* MqttClient::AsyncPublish, which answers at once whether it is ready or not.
AsyncPublish ==
    /\ At("publish") /\ turn = 0
    /\ Goto("delay")
    /\ UNCHANGED <<rounds, wifi, bus, vars>>

-----------------------------------------------------------------------------
(* The other tasks                                                          *)

SyncStep ==
    /\ \/ (Poll \/ Wait \/ Last \/ Stop) /\ UNCHANGED main
       \/ Judge /\ main' = IF main = "syncing" THEN "mqtt" ELSE main
    /\ UNCHANGED <<rounds, wifi, bus>>

\* There is an answer only on a network; another task may call SyncTime once more.
Others ==
    /\ \/ wifi /\ Answer
       \/ main \in {"delay", "publish"} /\ SyncTime
    /\ UNCHANGED <<main, rounds, wifi, bus>>

\* EventLoop and TestEventHandler::Process.  Events of a class are all the same to app_main:
\* the one at the last address goes first.
BusStep ==
    /\ \/ \E e \in pending :
             (\A f \in pending : Name[f] = Name[e] => f[2] <= e[2]) /\ Bus!Take(e)
       \/ Bus!Fix \/ Bus!Finish
       \/ Bus!Deliver(Handler)
    /\ UNCHANGED <<main, rounds, wifi, vars>>

Main ==
    \/ BaseInit \/ StartWifi \/ CallSync \/ StartMqtt \/ Subscribe
    \/ Delay \/ Publish \/ AsyncPublish

AppNext == Main \/ SyncStep \/ Others \/ BusStep

\* Every task runs.
AppSpec ==
    /\ AppInit /\ [][AppNext]_appVars
    /\ WF_appVars(Main) /\ WF_appVars(SyncStep) /\ WF_appVars(BusStep)

-----------------------------------------------------------------------------
(* Properties                                                               *)

\* app_main ignores refusals, so events are lost; but the queue has room for a round, and
\* one is lost only after the bus has fallen behind by more than the pause.
LossMeansBehind == lost => behind

\* Unless the base is missing, app_main comes round for ever, whether there is a network,
\* a server or a broker, and whatever the bus does.
GoesOn == <>(main = "returned") \/ []<>(main = "delay")

-----------------------------------------------------------------------------
(* What this code does not keep: checked on its own, each is violated        *)

\* An event that is refused is released.
NothingLost == ~lost

\* A Wi-Fi that could not be started is tried again.
StartIsRetried == <>(main = "returned") \/ <>wifi

\* Every class of events is delivered again and again: urgent ones may overtake for ever.
AllDelivered ==
    <>(main = "returned") \/ \A n \in Names : []<>(inflight # None /\ Name[inflight] = n)
=============================================================================
