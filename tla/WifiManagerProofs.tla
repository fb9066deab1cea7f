-------------------------- MODULE WifiManagerProofs --------------------------
(***************************************************************************)
(* Proofs about WifiManager, for any networks, any number of retries and    *)
(* any length of the queue.                                                 *)
(***************************************************************************)
EXTENDS WifiManager, TLAPS

\* The program counters, and the numbers that are compared.
Counting ==
    /\ s_retry_num \in 0 .. RETRIES
    /\ seen \in 0 .. RETRIES
    /\ retries \in Nat

\* Every retry that was made is in the count, or about to be added to it by a handler
\* that read a count below the limit.
Counted ==
    /\ ev_pc # "retry" => retries <= s_retry_num
    /\ ev_pc = "retry" =>
          /\ seen < RETRIES /\ s_retry_num < RETRIES
          /\ retries <= seen + 1 /\ retries <= s_retry_num + 1

\* No step makes a retry that is not counted, with Start resetting the count in another
\* task at any moment.
LEMMA CountedStep ==
    ASSUME Counting, Counted, [Next]_vars
    PROVE  Counting' /\ Counted'
<1> USE NumberAssumption DEF Counting, Counted, Begin, Take, Post, StopDriver, MaxRetries,
        manager, wifi, api, handler, history
<1>1. CASE InitCall
  BY <1>1 DEF InitCall
<1>2. CASE DeinitCall
  BY <1>2 DEF DeinitCall
<1>3. CASE StartCall
  BY <1>3 DEF StartCall
<1>4. CASE StopCall
  BY <1>4 DEF StopCall
<1>5. ASSUME NEW net \in Networks, SwitchCall(net) PROVE Counting' /\ Counted'
  BY <1>5 DEF SwitchCall
<1>6. CASE SwitchStopped
  BY <1>6 DEF SwitchStopped
<1>7. CASE SwitchConfig
  BY <1>7 DEF SwitchConfig
<1>8. CASE StartReset
  BY <1>8 DEF StartReset
<1>9. CASE StartWifi
  BY <1>9 DEF StartWifi
<1>10. CASE StartLed
  BY <1>10 DEF StartLed
<1>11. CASE StopDone
  BY <1>11 DEF StopDone
<1>12. CASE Drop
  BY <1>12 DEF Drop
<1>13. CASE OnStart
  BY <1>13 DEF OnStart
<1>14. CASE OnDisconnected
  <2>1. CASE s_retry_num < RETRIES
    <3>1. retries' = retries \/ retries' = retries + 1
      BY <1>14, <2>1 DEF OnDisconnected, Retry
    <3>2. QED
      BY <1>14, <2>1, <3>1 DEF OnDisconnected
  <2>2. CASE ~ (s_retry_num < RETRIES)
    BY <1>14, <2>2 DEF OnDisconnected
  <2>3. QED
    BY <2>1, <2>2
<1>15. CASE CountRetry
  <2>1. PICK old \in {seen, s_retry_num} : s_retry_num' = old + 1
    BY <1>15 DEF CountRetry
  <2>2. QED
    BY <1>15, <2>1 DEF CountRetry
<1>16. CASE FailedLed
  BY <1>16 DEF FailedLed
<1>17. CASE OnGotIp
  BY <1>17 DEF OnGotIp
<1>18. CASE ConnectedLed
  BY <1>18 DEF ConnectedLed
<1>19. CASE Tell
  BY <1>19 DEF Tell
<1>20. CASE AttemptOk
  BY <1>20 DEF AttemptOk
<1>21. CASE AttemptFails
  BY <1>21 DEF AttemptFails
<1>22. CASE LinkLost
  BY <1>22 DEF LinkLost
<1>23. CASE UNCHANGED vars
  BY <1>23 DEF vars
<1>24. CASE SwitchNetif
  BY <1>24 DEF SwitchNetif
<1>25. QED
  BY <1>1, <1>2, <1>3, <1>4, <1>5, <1>6, <1>7, <1>8, <1>9, <1>10, <1>11, <1>12,
     <1>13, <1>14, <1>15, <1>16, <1>17, <1>18, <1>19, <1>20, <1>21, <1>22,
     <1>23, <1>24
     DEF Next, ApiCall, ApiStep, EventTask, Driver

\* Both hold at the start.
LEMMA InitCounted ==
    ASSUME Init
    PROVE  Counting /\ Counted
<1>1. s_retry_num = 0 /\ seen = 0 /\ retries = 0 /\ ev_pc # "retry"
  BY DEF Init
<1>2. 0 \in 0 .. RETRIES
  BY NumberAssumption
<1>3. Counting
  BY <1>1, <1>2 DEF Counting
<1>4. Counted
  BY <1>1 DEF Counted
<1>5. QED
  BY <1>3, <1>4

\* The number of retries after a Start is bounded, although the count is a static that
\* two tasks write without a lock.
THEOREM Bounded == Spec => []RetriesBounded
<1>1. Counting /\ Counted => RetriesBounded
  BY NumberAssumption DEF Counting, Counted, RetriesBounded
<1>2. QED
  BY <1>1, InitCounted, CountedStep, PTL DEF Spec

Flags == init \in BOOLEAN /\ is_ready \in BOOLEAN /\ refused \in BOOLEAN

\* What is one of a few values.
Places ==
    /\ config \in Networks \cup {NoNetwork} /\ arg \in Networks \cup {NoNetwork}
    /\ leds \subseteq Blinks
    /\ driver \in {"none", "stopped", "started"}
    /\ link \in {"down", "connecting", "ip", "no_ip"}
    /\ api_pc \in {"idle", "switch_stopped", "switch_netif", "switch_config", "stopped",
                   "start_reset", "start_wifi", "start_led"}
    /\ ev_pc \in {"idle", "retry", "failed", "connected", "tell_failed", "tell_connected"}
    /\ said \in {"", "already started", "already stopped"}
    /\ told \in {"", "got ip", "failed"}

\* The events that wait, and the retries.
Lengths ==
    /\ queue \in Seq(Events) /\ Len(queue) <= MaxQueue
    /\ retries \in 0 .. MaxRetries

LEMMA FlagsStep ==
    ASSUME Flags, [Next]_vars
    PROVE  Flags'
<1> USE DEF Flags, Connect, Retry,
        manager, wifi, api, handler, history
<1>1. CASE InitCall
  BY <1>1 DEF InitCall
<1>2. CASE DeinitCall
  BY <1>2 DEF DeinitCall
<1>3. CASE StartCall
  BY <1>3 DEF StartCall
<1>4. CASE StopCall
  BY <1>4 DEF StopCall
<1>5. ASSUME NEW net \in Networks, SwitchCall(net) PROVE Flags'
  BY <1>5 DEF SwitchCall
<1>6. CASE SwitchStopped
  BY <1>6 DEF SwitchStopped
<1>7. CASE SwitchConfig
  BY <1>7 DEF SwitchConfig
<1>8. CASE StartReset
  BY <1>8 DEF StartReset
<1>9. CASE StartWifi
  BY <1>9 DEF StartWifi
<1>10. CASE StartLed
  BY <1>10 DEF StartLed
<1>11. CASE StopDone
  BY <1>11 DEF StopDone
<1>12. CASE Drop
  BY <1>12 DEF Drop
<1>13. CASE OnStart
  BY <1>13 DEF OnStart
<1>14. CASE OnDisconnected
  BY <1>14 DEF OnDisconnected
<1>15. CASE CountRetry
  BY <1>15 DEF CountRetry
<1>16. CASE FailedLed
  BY <1>16 DEF FailedLed
<1>17. CASE OnGotIp
  BY <1>17 DEF OnGotIp
<1>18. CASE ConnectedLed
  BY <1>18 DEF ConnectedLed
<1>19. CASE Tell
  BY <1>19 DEF Tell
<1>20. CASE AttemptOk
  BY <1>20 DEF AttemptOk
<1>21. CASE AttemptFails
  BY <1>21 DEF AttemptFails
<1>22. CASE LinkLost
  BY <1>22 DEF LinkLost
<1>23. CASE UNCHANGED vars
  BY <1>23 DEF vars
<1>24. CASE SwitchNetif
  BY <1>24 DEF SwitchNetif
<1>25. QED
  BY <1>1, <1>2, <1>3, <1>4, <1>5, <1>6, <1>7, <1>8, <1>9, <1>10, <1>11, <1>12,
     <1>13, <1>14, <1>15, <1>16, <1>17, <1>18, <1>19, <1>20, <1>21, <1>22,
     <1>23, <1>24
     DEF Next, ApiCall, ApiStep, EventTask, Driver

LEMMA PlacesStep ==
    ASSUME Places, [Next]_vars
    PROVE  Places'
<1> USE DEF Places, Blinks, Begin, Take, Connect, Retry, StopDriver,
        manager, wifi, api, handler, history
<1>1. CASE InitCall
  BY <1>1 DEF InitCall
<1>2. CASE DeinitCall
  BY <1>2 DEF DeinitCall
<1>3. CASE StartCall
  BY <1>3 DEF StartCall
<1>4. CASE StopCall
  BY <1>4 DEF StopCall
<1>5. ASSUME NEW net \in Networks, SwitchCall(net) PROVE Places'
  BY <1>5 DEF SwitchCall
<1>6. CASE SwitchStopped
  BY <1>6 DEF SwitchStopped
<1>7. CASE SwitchConfig
  BY <1>7 DEF SwitchConfig
<1>8. CASE StartReset
  BY <1>8 DEF StartReset
<1>9. CASE StartWifi
  BY <1>9, ZenonT(40) DEF StartWifi
<1>10. CASE StartLed
  BY <1>10 DEF StartLed
<1>11. CASE StopDone
  BY <1>11 DEF StopDone
<1>12. CASE Drop
  BY <1>12 DEF Drop
<1>13. CASE OnStart
  BY <1>13, ZenonT(40) DEF OnStart
<1>14. CASE OnDisconnected
  BY <1>14, ZenonT(40) DEF OnDisconnected
<1>15. CASE CountRetry
  BY <1>15, ZenonT(40) DEF CountRetry
<1>16. CASE FailedLed
  BY <1>16 DEF FailedLed
<1>17. CASE OnGotIp
  BY <1>17, ZenonT(40) DEF OnGotIp
<1>18. CASE ConnectedLed
  BY <1>18 DEF ConnectedLed
<1>19. CASE Tell
  BY <1>19 DEF Tell
<1>20. CASE AttemptOk
  BY <1>20, ZenonT(40) DEF AttemptOk
<1>21. CASE AttemptFails
  BY <1>21, ZenonT(40) DEF AttemptFails
<1>22. CASE LinkLost
  BY <1>22, ZenonT(40) DEF LinkLost
<1>23. CASE UNCHANGED vars
  <2>1. /\ config' = config /\ arg' = arg /\ leds' = leds
        /\ driver' = driver /\ link' = link
        /\ api_pc' = api_pc /\ ev_pc' = ev_pc
        /\ said' = said /\ told' = told
    BY <1>23 DEF vars
  <2>2. config' \in Networks \cup {NoNetwork} /\ arg' \in Networks \cup {NoNetwork}
    BY <2>1
  <2>3. leds' \subseteq Blinks
    BY <2>1
  <2>4. driver' \in {"none", "stopped", "started"} /\ link' \in {"down", "connecting", "ip", "no_ip"}
    BY <2>1
  <2>5. QED
    BY <2>1, <2>2, <2>3, <2>4
<1>24. CASE SwitchNetif
  BY <1>24 DEF SwitchNetif
<1>25. QED
  BY <1>1, <1>2, <1>3, <1>4, <1>5, <1>6, <1>7, <1>8, <1>9, <1>10, <1>11, <1>12,
     <1>13, <1>14, <1>15, <1>16, <1>17, <1>18, <1>19, <1>20, <1>21, <1>22,
     <1>23, <1>24
     DEF Next, ApiCall, ApiStep, EventTask, Driver

\* A queue to which the driver posts keeps its type.
LEMMA Posted ==
    ASSUME queue \in Seq(Events), Len(queue) <= MaxQueue, NEW e \in Events, Post(e)
    PROVE  queue' \in Seq(Events) /\ Len(queue') <= MaxQueue
  BY NumberAssumption DEF Post

\* So does one from which the station is taken down.
LEMMA Stopped ==
    ASSUME queue \in Seq(Events), Len(queue) <= MaxQueue, StopDriver
    PROVE  queue' \in Seq(Events) /\ Len(queue') <= MaxQueue
<1>1. CASE queue' = queue
  BY <1>1
<1>2. CASE Post("DISCONNECTED")
  BY <1>2, Posted DEF Events
<1>3. QED
  BY <1>1, <1>2 DEF StopDriver

LEMMA LengthsStep ==
    ASSUME Places, Lengths, [Next]_vars
    PROVE  Lengths'
<1> USE NumberAssumption DEF Lengths, Events, MaxRetries, Take, Post, Retry,
        manager, wifi, api, handler, history
<1>1. CASE InitCall
  BY <1>1 DEF InitCall
<1>2. CASE DeinitCall
  BY <1>2 DEF DeinitCall
<1>3. CASE StartCall
  BY <1>3 DEF StartCall
<1>4. CASE StopCall
  BY <1>4, Stopped DEF StopCall
<1>5. ASSUME NEW net \in Networks, SwitchCall(net) PROVE Lengths'
  BY <1>5, Stopped DEF SwitchCall
<1>6. CASE SwitchStopped
  BY <1>6 DEF SwitchStopped
<1>7. CASE SwitchConfig
  BY <1>7 DEF SwitchConfig
<1>8. CASE StartReset
  BY <1>8 DEF StartReset
<1>9. CASE StartWifi
  <2>1. CASE driver = "stopped"
    <3>1. Post("START")
      BY <1>9, <2>1 DEF StartWifi
    <3>2. QED
      BY <1>9, <3>1, Posted DEF StartWifi
  <2>2. CASE driver \in {"none", "started"}
    BY <1>9, <2>2 DEF StartWifi
  <2>3. QED
    BY <2>1, <2>2 DEF Places
<1>10. CASE StartLed
  BY <1>10 DEF StartLed
<1>11. CASE StopDone
  BY <1>11 DEF StopDone
<1>12. CASE Drop
  BY <1>12 DEF Drop
<1>13. CASE OnStart
  BY <1>13 DEF OnStart
<1>14. CASE OnDisconnected
  BY <1>14 DEF OnDisconnected
<1>15. CASE CountRetry
  BY <1>15 DEF CountRetry
<1>16. CASE FailedLed
  BY <1>16 DEF FailedLed
<1>17. CASE OnGotIp
  BY <1>17 DEF OnGotIp
<1>18. CASE ConnectedLed
  BY <1>18 DEF ConnectedLed
<1>19. CASE Tell
  BY <1>19 DEF Tell
<1>20. CASE AttemptOk
  BY <1>20 DEF AttemptOk
<1>21. CASE AttemptFails
  BY <1>21 DEF AttemptFails
<1>22. CASE LinkLost
  BY <1>22 DEF LinkLost
<1>23. CASE UNCHANGED vars
  BY <1>23 DEF vars
<1>24. CASE SwitchNetif
  BY <1>24 DEF SwitchNetif
<1>25. QED
  BY <1>1, <1>2, <1>3, <1>4, <1>5, <1>6, <1>7, <1>8, <1>9, <1>10, <1>11, <1>12,
     <1>13, <1>14, <1>15, <1>16, <1>17, <1>18, <1>19, <1>20, <1>21, <1>22,
     <1>23, <1>24
     DEF Next, ApiCall, ApiStep, EventTask, Driver

\* Every variable keeps its type: no more events wait than the queue holds.
THEOREM TypeCorrect == Spec => []TypeOK
<1>1. ASSUME Init PROVE Counting /\ Counted /\ Flags /\ Places /\ Lengths
  <2>1. Flags
    BY <1>1 DEF Init, Flags
  <2>2. Places
    BY <1>1 DEF Init, Places
  <2>3. Lengths
    <3>1. queue = <<>> /\ retries = 0
      BY <1>1 DEF Init
    <3>2. 0 \in 0 .. MaxRetries /\ 0 <= MaxQueue
      BY NumberAssumption DEF MaxRetries
    <3>3. QED
      BY <3>1, <3>2 DEF Lengths
  <2>4. QED
    BY <1>1, <2>1, <2>2, <2>3, InitCounted
<1>2. Counting /\ Flags /\ Places /\ Lengths => TypeOK
  BY DEF Counting, Flags, Places, Lengths, TypeOK
<1>3. QED
  BY <1>1, <1>2, CountedStep, FlagsStep, PlacesStep, LengthsStep, PTL DEF Spec

-----------------------------------------------------------------------------
(* Agreement                                                                *)

\* What the event task has made of the last event, or is making of it.
Good ==
    /\ is_ready
    /\ \/ ev_pc = "connected"
       \/ ev_pc = "tell_connected" /\ "CONNECTED" \in leds
       \/ ev_pc = "idle" /\ "CONNECTED" \in leds /\ told = "got ip"
Bad ==
    /\ ~is_ready
    /\ \/ ev_pc = "failed"
       \/ ev_pc = "tell_failed" /\ "CONNECTED" \notin leds
       \/ ev_pc = "idle" /\ "CONNECTED" \notin leds /\ told = "failed"

Newest == queue[Len(queue)]

\* The last event that waits tells what became of the station; when none waits, the
\* manager knows, unless a connect was refused.
Agree ==
    /\ queue \in Seq(Events)
    /\ driver \in {"none", "stopped", "started"} /\ link \in {"down", "connecting", "ip", "no_ip"}
    /\ init <=> driver # "none"
    /\ link # "down" => driver = "started"
    /\ api_pc \in {"stopped", "switch_stopped"} => driver # "started"
    /\ driver = "started" /\ link = "ip" =>
          IF queue = <<>> THEN Good ELSE Newest = "GOT_IP"
    /\ driver = "started" /\ link = "down" =>
          IF queue = <<>> THEN refused \/ Bad ELSE Newest # "GOT_IP"

\* The event that is posted is the newest.
LEMMA NewestPosted ==
    ASSUME queue \in Seq(Events), NEW e \in Events, Post(e)
    PROVE  queue' \in Seq(Events) /\ queue' # <<>> /\ Newest' = e
  BY DEF Post, Newest

\* Taking one leaves the newest where it is, unless that is the one.
LEMMA NewestTaken ==
    ASSUME queue \in Seq(Events), NEW e \in Events, Take(e)
    PROVE  /\ queue' \in Seq(Events)
           /\ queue # <<>> /\ ev_pc = "idle"
           /\ IF queue' = <<>> THEN Newest = e ELSE Newest' = Newest
<1>1. queue # <<>> /\ ev_pc = "idle" /\ Head(queue) = e /\ queue' = Tail(queue)
  BY DEF Take
<1>2. Len(queue) \in Nat \ {0} /\ queue' \in Seq(Events) /\ Len(queue') = Len(queue) - 1
  BY <1>1
<1>3. CASE queue' = <<>>
  <2>1. Len(queue) = 1
    BY <1>2, <1>3
  <2>2. QED
    BY <1>1, <1>2, <1>3, <2>1 DEF Newest
<1>4. CASE queue' # <<>>
  <2>1. Len(queue') \in Nat \ {0}
    BY <1>2, <1>4
  <2>2. \A i \in 1 .. Len(queue') : queue'[i] = queue[i + 1]
    BY <1>1, <1>2
  <2>3. QED
    BY <1>1, <1>2, <1>4, <2>1, <2>2 DEF Newest
<1>5. QED
  BY <1>3, <1>4

\* A driver that is stopped owes nothing.
LEMMA AgreeStopped ==
    ASSUME Agree, StopDriver, driver # "none", UNCHANGED init
    PROVE  /\ queue' \in Seq(Events)
           /\ driver' = "stopped" /\ link' = "down" /\ init' # FALSE
<1>1. queue' \in Seq(Events)
  BY NewestPosted DEF Agree, StopDriver, Events
<1>2. QED
  BY <1>1 DEF Agree, StopDriver

\* Every step keeps the newest event, or what was made of it, in agreement with the station.
LEMMA AgreeStep ==
    ASSUME Agree, [Next]_vars
    PROVE  Agree'
<1> USE DEF manager, wifi, api, handler, history
<1>1. CASE InitCall
  BY <1>1 DEF InitCall, Begin, Agree, Newest, Good, Bad
<1>2. CASE DeinitCall
  BY <1>2 DEF DeinitCall, Begin, Agree, Newest, Good, Bad
<1>3. CASE StartCall
  BY <1>3 DEF StartCall, Begin, Agree, Newest, Good, Bad
<1>4. CASE StopCall
  <2>1. CASE is_ready /\ driver # "none"
    BY <1>4, <2>1, AgreeStopped DEF StopCall, Agree
  <2>2. CASE ~ (is_ready /\ driver # "none")
    BY <1>4, <2>2 DEF StopCall, Begin, Agree, Newest, Good, Bad
  <2>3. QED
    BY <2>1, <2>2
<1>5. ASSUME NEW net \in Networks, SwitchCall(net) PROVE Agree'
  <2>1. CASE is_ready /\ driver # "none"
    BY <1>5, <2>1, AgreeStopped DEF SwitchCall, Agree
  <2>2. CASE ~ (is_ready /\ driver # "none")
    BY <1>5, <2>2 DEF SwitchCall, Begin, Agree, Newest, Good, Bad
  <2>3. QED
    BY <2>1, <2>2
<1>6. CASE SwitchStopped
  BY <1>6 DEF SwitchStopped, Begin, Agree, Newest, Good, Bad
<1>7. CASE SwitchConfig
  BY <1>7 DEF SwitchConfig, Begin, Agree, Newest, Good, Bad
<1>8. CASE StartReset
  BY <1>8 DEF StartReset, Begin, Agree, Newest, Good, Bad
<1>9. CASE StartWifi
  <2>1. CASE driver = "stopped"
    <3>1. Post("START") /\ driver' = "started" /\ UNCHANGED <<init, link>>
          /\ api_pc' = "start_led"
      BY <1>9, <2>1 DEF StartWifi
    <3>2. queue' \in Seq(Events) /\ queue' # <<>> /\ Newest' = "START"
      BY <3>1, NewestPosted DEF Agree, Events
    <3>3. QED
      BY <2>1, <3>1, <3>2 DEF Agree
  <2>2. CASE driver # "stopped"
    BY <1>9, <2>2 DEF StartWifi, Agree, Newest, Good, Bad
  <2>3. QED
    BY <2>1, <2>2
<1>10. CASE StartLed
  BY <1>10 DEF StartLed, Begin, Agree, Newest, Good, Bad
<1>11. CASE StopDone
  BY <1>11 DEF StopDone, Begin, Agree, Newest, Good, Bad
<1>12. CASE Drop
  <2>1. PICK e \in Events : Take(e)
    BY <1>12 DEF Drop
  <2>2. driver = "none" /\ queue' \in Seq(Events)
    BY <1>12, <2>1, NewestTaken DEF Drop, Agree
  <2>3. QED
    BY <1>12, <2>2 DEF Drop, Agree
<1>13. CASE OnStart
  <2>1. /\ queue' \in Seq(Events) /\ queue # <<>> /\ ev_pc = "idle"
        /\ IF queue' = <<>> THEN Newest = "START" ELSE Newest' = Newest
    BY <1>13, NewestTaken DEF OnStart, Agree, Events
  <2>2. Connect /\ UNCHANGED <<driver, init, api_pc>>
    BY <1>13 DEF OnStart
  <2>3. QED
    BY <2>1, <2>2 DEF Agree, Connect
<1>14. CASE OnDisconnected
  <2>1. /\ queue' \in Seq(Events) /\ queue # <<>> /\ ev_pc = "idle"
        /\ IF queue' = <<>> THEN Newest = "DISCONNECTED" ELSE Newest' = Newest
    BY <1>14, NewestTaken DEF OnDisconnected, Agree, Events
  <2>2. UNCHANGED <<driver, init, api_pc>>
    BY <1>14 DEF OnDisconnected
  <2>3. CASE s_retry_num < RETRIES
    <3>1. Connect
      BY <1>14, <2>3 DEF OnDisconnected, Retry
    <3>2. QED
      BY <2>1, <2>2, <3>1 DEF Agree, Connect
  <2>4. CASE ~ (s_retry_num < RETRIES)
    <3>1. ev_pc' = "failed" /\ is_ready' = FALSE /\ link' = link
      BY <1>14, <2>4 DEF OnDisconnected
    <3>2. QED
      BY <2>1, <2>2, <3>1 DEF Agree, Bad
  <2>5. QED
    BY <2>3, <2>4
<1>15. CASE CountRetry
  BY <1>15 DEF CountRetry, Agree, Newest, Good, Bad
<1>16. CASE FailedLed
  BY <1>16 DEF FailedLed, Begin, Agree, Newest, Good, Bad
<1>17. CASE OnGotIp
  <2>1. /\ queue' \in Seq(Events) /\ queue # <<>> /\ ev_pc = "idle"
        /\ IF queue' = <<>> THEN Newest = "GOT_IP" ELSE Newest' = Newest
    BY <1>17, NewestTaken DEF OnGotIp, Agree, Events
  <2>2. UNCHANGED <<driver, link, init, api_pc>> /\ is_ready' /\ ev_pc' = "connected"
    BY <1>17 DEF OnGotIp
  <2>3. QED
    BY <2>1, <2>2 DEF Agree, Good
<1>18. CASE ConnectedLed
  BY <1>18 DEF ConnectedLed, Begin, Agree, Newest, Good, Bad
<1>19. CASE Tell
  BY <1>19 DEF Tell, Begin, Agree, Newest, Good, Bad
<1>20. CASE AttemptOk
  <2>1. queue' \in Seq(Events) /\ queue' # <<>> /\ Newest' = "GOT_IP"
    BY <1>20, NewestPosted DEF AttemptOk, Agree, Events
  <2>2. QED
    BY <1>20, <2>1 DEF AttemptOk, Agree
<1>21. CASE AttemptFails
  <2>1. queue' \in Seq(Events) /\ queue' # <<>> /\ Newest' = "DISCONNECTED"
    BY <1>21, NewestPosted DEF AttemptFails, Agree, Events
  <2>2. QED
    BY <1>21, <2>1 DEF AttemptFails, Agree
<1>22. CASE LinkLost
  <2>1. queue' \in Seq(Events) /\ queue' # <<>> /\ Newest' = "DISCONNECTED"
    BY <1>22, NewestPosted DEF LinkLost, Agree, Events
  <2>2. QED
    BY <1>22, <2>1 DEF LinkLost, Agree
<1>23. CASE UNCHANGED vars
  BY <1>23 DEF vars, Agree, Newest, Good, Bad
<1>24. CASE SwitchNetif
  BY <1>24 DEF SwitchNetif, Agree, Newest, Good, Bad
<1>25. QED
  BY <1>1, <1>2, <1>3, <1>4, <1>5, <1>6, <1>7, <1>8, <1>9, <1>10, <1>11, <1>12,
     <1>13, <1>14, <1>15, <1>16, <1>17, <1>18, <1>19, <1>20, <1>21, <1>22,
     <1>23, <1>24
     DEF Next, ApiCall, ApiStep, EventTask, Driver

\* Once everything has been handled, the manager, the LED and the listener agree with a
\* station that runs, also after events that are older than the last Stop or Start, unless
\* a reconnect was refused or the netif replaced, of which no event tells.
THEOREM Agreement == Spec => []ReadyIsConnected
<1>1. ASSUME Init PROVE Agree
  <2>1. /\ init = FALSE /\ driver = "none" /\ link = "down"
        /\ queue = <<>> /\ api_pc = "idle"
    BY <1>1 DEF Init
  <2>2. queue \in Seq(Events)
    BY <2>1
  <2>3. QED
    BY <2>1, <2>2 DEF Agree
<1>2. Agree => ReadyIsConnected
  BY DEF Agree, Good, Bad, Settled, Told, ReadyIsConnected
<1>3. QED
  BY <1>1, <1>2, AgreeStep, PTL DEF Spec
==============================================================================
