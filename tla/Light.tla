-------------------------------- MODULE Light --------------------------------
(***************************************************************************)
(* components/light/light.c: lights with their PWM channels, used by one    *)
(* task, and the breathing of a channel, which the timer task of FreeRTOS   *)
(* drives.  xTimerStart, xTimerStop and xTimerDelete only send a command to *)
(* that task: until it has been carried out, the timer goes on.             *)
(*                                                                         *)
(* FreeRTOS and the LED controller are external.  Of the controller only    *)
(* the duty that each channel is at, or fades to, is kept.                  *)
(***************************************************************************)
EXTENDS Integers, Sequences, FiniteSets

CONSTANTS Lights, NULL,
          channel_num,      \* of each light
          LIGHT_NUM_MAX,
          Timers,           \* timers that FreeRTOS can create
          Periods,          \* of breathing
          FullDuty,         \* full_duty
          MaxCommands       \* length of the queue of the timer task

ASSUME LightAssumption == NULL \notin Lights \cup Timers /\ IsFiniteSet(Lights)
ASSUME NumberAssumption ==
    /\ channel_num \in Nat \ {0} /\ LIGHT_NUM_MAX \in Nat \ {0}
    /\ FullDuty \in Nat \ {0} /\ MaxCommands \in Nat \ {0}
    /\ Periods \subseteq Nat \ {0}

VARIABLES
    exists,             \* lights that are allocated
    g_light_group,      \* those that the timer's callback looks at
    g_fade_installed, fade_driver,    \* what the code believes, and what the driver is
    fade_refused,       \* history: the last installation of the driver failed
    chn,                \* of each channel: its cell and fields
    out,                \* the duty of each channel, or the one that it fades to
    blinking,           \* lights between blink_starte and blink_stop
    timers, commands,   \* the timers, and what was sent to the timer task
    pc, arg,            \* where the call is, and what it is about
    mode                \* history: what was last asked of each channel, and its duty

lights == <<exists, g_light_group, blinking>>
fade == <<g_fade_installed, fade_driver, fade_refused>>
rtos == <<timers, commands>>
call == <<pc, arg>>
vars == <<lights, fade, chn, out, rtos, call, mode>>

Slots == 1 .. LIGHT_NUM_MAX
Ids == 1 .. channel_num
Channels == Lights \X Ids
Duties == {0, 1, FullDuty}
LightOf(k) == k[1]
ChannelsOf(l) == {l} \X Ids

NoChannel == [cell |-> "null", timer |-> NULL, period |-> 0, next |-> 0]
NewChannel == [NoChannel EXCEPT !.cell = "live"]
NoArg == [light |-> NULL, id |-> 0, duty |-> 0, mask |-> {}]

\* Every variable has its type, and the group holds lights that exist.
TypeOK ==
    /\ exists \subseteq Lights /\ blinking \subseteq Lights
    /\ g_light_group \in [Slots -> exists \cup {NULL}]
    /\ g_fade_installed \in BOOLEAN /\ fade_driver \in BOOLEAN /\ fade_refused \in BOOLEAN
    /\ chn \in [Channels -> [cell : {"null", "live", "freed"}, timer : Timers \cup {NULL},
                             period : Periods \cup {0}, next : {0, FullDuty}]]
    /\ out \in [Channels -> Duties]
    /\ timers \in [Timers -> {"free", "dormant", "active"}]
    /\ commands \in Seq([op : {"start", "stop", "delete"}, timer : Timers])
    /\ Len(commands) <= MaxCommands
    /\ pc \in {"idle", "duty", "start", "fade", "next", "blink", "blink_duty", "delete", "remove"}
    /\ arg \in [light : Lights \cup {NULL}, id : 0 .. channel_num + 1, duty : Duties,
                mask : SUBSET Ids]
    /\ mode \in [Channels -> [as : {"none", "breath", "duty"}, duty : Duties]]

Init ==
    /\ exists = {} /\ g_light_group = [s \in Slots |-> NULL] /\ blinking = {}
    /\ g_fade_installed = FALSE /\ fade_driver = FALSE /\ fade_refused = FALSE
    /\ chn = [k \in Channels |-> NoChannel]
    /\ out = [k \in Channels |-> 0]
    /\ timers = [t \in Timers |-> "free"] /\ commands = <<>>
    /\ pc = "idle" /\ arg = NoArg
    /\ mode = [k \in Channels |-> [as |-> "none", duty |-> 0]]

-----------------------------------------------------------------------------
(* Commands to the timer task; the sender waits while the queue is full     *)

Send(op, t) ==
    IF t = NULL
    THEN UNCHANGED commands
    ELSE /\ Len(commands) < MaxCommands
         /\ commands' = Append(commands, [op |-> op, timer |-> t])

Live(k) == chn[k].cell = "live"
Asked == <<arg.light, arg.id>>
Asks(k, what) == mode' = [mode EXCEPT ![k] = what]
Breathing == [as |-> "breath", duty |-> 0]
Written(duty) == [as |-> "duty", duty |-> duty]
Nothing == [as |-> "none", duty |-> 0]

Return == pc' = "idle" /\ arg' = NoArg

\* ledc_set_fade_with_time and ledc_fade_start fail without the driver.
FadedTo(K, duty) == [k \in Channels |-> IF fade_driver /\ k \in K THEN duty[k] ELSE out[k]]

-----------------------------------------------------------------------------
(* Creation                                                                 *)

\* The new light goes to the first free slot of the group, if there is one.
Create(l) ==
    /\ pc = "idle" /\ l \notin exists
    /\ exists' = exists \cup {l}
    /\ LET free == {s \in Slots : g_light_group[s] = NULL}
       IN  IF free = {}
           THEN UNCHANGED g_light_group
           ELSE g_light_group' = [g_light_group EXCEPT
                    ![CHOOSE s \in free : \A other \in free : s <= other] = l]
    /\ UNCHANGED <<blinking, fade, chn, out, rtos, call, mode>>

\* ledc_channel_config may fail, which leaves no channel; ESP_OK is returned all the same.
\* So may ledc_fade_func_install, whose result is not looked at.
Regist(k) ==
    /\ pc = "idle" /\ LightOf(k) \in exists
    /\ chn[k].cell = "null"
    /\ \/ chn' = [chn EXCEPT ![k] = NewChannel] /\ out' = [out EXCEPT ![k] = 0]
       \/ UNCHANGED <<chn, out>>
    /\ g_fade_installed' = TRUE
    /\ IF g_fade_installed
       THEN UNCHANGED <<fade_driver, fade_refused>>
       ELSE fade_driver' \in BOOLEAN /\ fade_refused' = ~fade_driver'
    /\ UNCHANGED <<lights, rtos, call, mode>>

-----------------------------------------------------------------------------
(* iot_light_duty_write                                                     *)

\* (mutant) The breathing is not stopped.
DutyCall_NoStop(k, duty) ==
    /\ pc = "idle" /\ Live(k) /\ LightOf(k) \notin blinking
    /\ pc' = "duty"
    /\ arg' = [NoArg EXCEPT !.light = k[1], !.id = k[2], !.duty = duty]
    /\ UNCHANGED <<lights, fade, chn, out, rtos, mode>>

\* The breathing, if any, is told to stop.
DutyCall(k, duty) ==
    /\ pc = "idle" /\ Live(k) /\ LightOf(k) \notin blinking
    /\ Send("stop", chn[k].timer)
    /\ pc' = "duty"
    /\ arg' = [NoArg EXCEPT !.light = k[1], !.id = k[2], !.duty = duty]
    /\ UNCHANGED <<lights, fade, chn, out, timers, mode>>

\* A duty_mode that there is not is refused after that.
DutyRefused(k) ==
    /\ pc = "idle" /\ Live(k) /\ LightOf(k) \notin blinking
    /\ Send("stop", chn[k].timer)
    /\ Asks(k, IF mode[k].as = "breath" THEN Nothing ELSE mode[k])
    /\ UNCHANGED <<lights, fade, chn, out, timers, call>>

\* The duty is set directly, or faded to.
DutySet ==
    /\ pc = "duty"
    /\ out' \in {[out EXCEPT ![Asked] = arg.duty], FadedTo({Asked}, [k \in {Asked} |-> arg.duty])}
    /\ Asks(Asked, Written(arg.duty))
    /\ Return
    /\ UNCHANGED <<lights, fade, chn, rtos>>

-----------------------------------------------------------------------------
(* iot_light_breath_write                                                   *)

Created(t) == timers' = [timers EXCEPT ![t] = "dormant"]

\* (mutant) The timer of the old period is not deleted.
BreathCall_Leaks(k, period) ==
    /\ pc = "idle" /\ Live(k) /\ LightOf(k) \notin blinking
    /\ IF chn[k].period = period
       THEN UNCHANGED <<chn, rtos>>
       ELSE \E t \in {u \in Timers : timers[u] = "free"} :
                /\ Created(t)
                /\ chn' = [chn EXCEPT ![k].timer = t, ![k].period = period]
                /\ UNCHANGED commands
    /\ out' = [out EXCEPT ![k] = 0]
    /\ Asks(k, Nothing)
    /\ pc' = "start" /\ arg' = [NoArg EXCEPT !.light = k[1], !.id = k[2]]
    /\ UNCHANGED <<lights, fade>>

\* Another period takes another timer, which may not be available.  Without a timer
\* the call ends here.
BreathCall(k, period) ==
    /\ pc = "idle" /\ Live(k) /\ LightOf(k) \notin blinking
    /\ IF chn[k].period = period
       THEN UNCHANGED <<chn, rtos>>
       ELSE /\ Send("delete", chn[k].timer)
            /\ \E t \in {u \in Timers : timers[u] = "free"} \cup {NULL} :
                 /\ IF t = NULL THEN UNCHANGED timers ELSE Created(t)
                 /\ chn' = [chn EXCEPT ![k].timer = t, ![k].period = period]
    /\ out' = [out EXCEPT ![k] = 0]
    /\ Asks(k, Nothing)
    /\ IF chn'[k].timer = NULL
       THEN UNCHANGED call
       ELSE pc' = "start" /\ arg' = [NoArg EXCEPT !.light = k[1], !.id = k[2]]
    /\ UNCHANGED <<lights, fade>>

BreathStart ==
    /\ pc = "start"
    /\ Send("start", chn[Asked].timer)
    /\ pc' = "fade"
    /\ UNCHANGED <<lights, fade, chn, out, timers, arg, mode>>

BreathFade ==
    /\ pc = "fade"
    /\ out' = FadedTo({Asked}, [k \in {Asked} |-> FullDuty])
    /\ pc' = "next"
    /\ UNCHANGED <<lights, fade, chn, rtos, arg, mode>>

BreathNext ==
    /\ pc = "next"
    /\ chn' = [chn EXCEPT ![Asked].next = 0]
    /\ Asks(Asked, Breathing)
    /\ Return
    /\ UNCHANGED <<lights, fade, out, rtos>>

-----------------------------------------------------------------------------
(* iot_light_blink_starte and iot_light_blink_stop, which is a blink of no  *)
(* channel with the frequency of the light restored                         *)

BlinkCall(l, mask) ==
    /\ pc = "idle" /\ l \in exists
    /\ blinking' = IF mask = {} THEN blinking \ {l} ELSE blinking \cup {l}
    /\ pc' = "blink" /\ arg' = [NoArg EXCEPT !.light = l, !.id = 1, !.mask = mask]
    /\ UNCHANGED <<exists, g_light_group, fade, chn, out, rtos, mode>>

\* On to the next channel.
Step(from, end) ==
    /\ arg' = [arg EXCEPT !.id = @ + 1]
    /\ pc' = IF arg.id = channel_num THEN end ELSE from

\* One of the channels: its breathing is told to stop (twice, which is the same), and a
\* duty is written.
BlinkStop ==
    /\ pc = "blink" /\ arg.id <= channel_num /\ Live(Asked)
    /\ Send("stop", chn[Asked].timer)
    /\ pc' = "blink_duty"
    /\ UNCHANGED <<lights, fade, chn, out, timers, arg, mode>>

BlinkDuty ==
    /\ pc = "blink_duty"
    /\ LET duty == IF arg.id \in arg.mask THEN 1 ELSE 0
       IN  out' = [out EXCEPT ![Asked] = duty] /\ Asks(Asked, Written(duty))
    /\ Step("blink", "blink")
    /\ UNCHANGED <<lights, fade, chn, rtos>>

BlinkSkip ==
    /\ pc = "blink" /\ arg.id <= channel_num /\ ~Live(Asked)
    /\ Step("blink", "blink")
    /\ UNCHANGED <<lights, fade, chn, out, rtos, mode>>

BlinkDone ==
    /\ pc = "blink" /\ arg.id > channel_num
    /\ Return
    /\ UNCHANGED <<lights, fade, chn, out, rtos, mode>>

-----------------------------------------------------------------------------
(* iot_light_delete                                                         *)

DeleteCall(l) ==
    /\ pc = "idle" /\ l \in exists
    /\ pc' = "delete" /\ arg' = [NoArg EXCEPT !.light = l, !.id = 1]
    /\ UNCHANGED <<lights, fade, chn, out, rtos, mode>>

\* light_channel_delete frees the channel; channel_group goes on pointing at it.
DeleteChannel ==
    /\ pc = "delete"
    /\ IF Live(Asked)
       THEN /\ Send("delete", chn[Asked].timer)
            /\ chn' = [chn EXCEPT ![Asked] = [NoChannel EXCEPT !.cell = "freed"]]
       ELSE UNCHANGED <<chn, commands>>
    /\ Asks(Asked, Nothing)
    /\ Step("delete", "remove")
    /\ UNCHANGED <<lights, fade, out, timers>>

Without(l) == [s \in Slots |-> IF g_light_group[s] = l THEN NULL ELSE g_light_group[s]]

\* (mutant) The flag stays set when the driver is uninstalled.
Delete_KeepsFlag ==
    /\ pc = "remove"
    /\ g_light_group' = Without(arg.light)
    /\ fade_driver' = (fade_driver /\ \E s \in Slots : g_light_group'[s] # NULL)
    /\ exists' = exists \ {arg.light} /\ blinking' = blinking \ {arg.light}
    /\ chn' = [k \in Channels |-> IF LightOf(k) = arg.light THEN NoChannel ELSE chn[k]]
    /\ Return
    /\ UNCHANGED <<g_fade_installed, fade_refused, out, rtos, mode>>

\* The light leaves the group; with the last one of the group, the fade driver goes.
Delete ==
    /\ pc = "remove"
    /\ g_light_group' = Without(arg.light)
    /\ IF \E s \in Slots : g_light_group'[s] # NULL
       THEN UNCHANGED fade
       ELSE fade_driver' = FALSE /\ g_fade_installed' = FALSE /\ fade_refused' = FALSE
    /\ exists' = exists \ {arg.light} /\ blinking' = blinking \ {arg.light}
    /\ chn' = [k \in Channels |-> IF LightOf(k) = arg.light THEN NoChannel ELSE chn[k]]
    /\ Return
    /\ UNCHANGED <<out, rtos, mode>>

-----------------------------------------------------------------------------
(* The timer task                                                           *)

InGroup(k) == \E s \in Slots : g_light_group[s] = LightOf(k)
Turned(t) == {k \in Channels : InGroup(k) /\ Live(k) /\ chn[k].timer = t}

\* (mutant) The next duty stays what it is.
Expire_NoToggle(t) ==
    /\ timers[t] = "active"
    /\ out' = FadedTo(Turned(t), [k \in Turned(t) |-> chn[k].next])
    /\ UNCHANGED <<lights, fade, chn, rtos, call, mode>>

\* breath_timer_callback: it looks at every channel of every light of the group.
Expire(t) ==
    /\ timers[t] = "active"
    /\ out' = FadedTo(Turned(t), [k \in Turned(t) |-> chn[k].next])
    /\ chn' = [k \in Channels |->
                  IF k \in Turned(t) THEN [chn[k] EXCEPT !.next = FullDuty - @] ELSE chn[k]]
    /\ UNCHANGED <<lights, fade, rtos, call, mode>>

Command ==
    /\ commands # <<>>
    /\ LET c == Head(commands)
           state == CASE c.op = "start" -> "active"
                      [] c.op = "stop" -> "dormant"
                      [] c.op = "delete" -> "free"
       IN  timers' = [timers EXCEPT ![c.timer] = state]
    /\ commands' = Tail(commands)
    /\ UNCHANGED <<lights, fade, chn, out, call, mode>>

-----------------------------------------------------------------------------
Call ==
    \/ \E l \in Lights :
          Create(l) \/ DeleteCall(l) \/ \E mask \in SUBSET Ids : BlinkCall(l, mask)
    \/ \E k \in Channels :
          \/ Regist(k)
          \/ \E duty \in Duties : DutyCall(k, duty)
          \/ DutyRefused(k)
          \/ \E period \in Periods : BreathCall(k, period)

CallStep ==
    \/ DutySet \/ BreathStart \/ BreathFade \/ BreathNext
    \/ BlinkStop \/ BlinkDuty \/ BlinkSkip \/ BlinkDone
    \/ DeleteChannel \/ Delete

Next == Call \/ CallStep \/ Command \/ \E t \in Timers : Expire(t)

Spec == Init /\ [][Next]_vars

\* Calls go on, the timer task takes its commands, and an active timer expires.
FairSpec ==
    /\ Spec
    /\ WF_vars(CallStep) /\ WF_vars(Command)
    /\ \A t \in Timers : WF_vars(Expire(t))

-----------------------------------------------------------------------------
(* Properties                                                               *)

Owners(t) == {k \in Channels : Live(k) /\ chn[k].timer = t}
Deleted(t) == \E i \in DOMAIN commands : commands[i] = [op |-> "delete", timer |-> t]

\* Every timer that exists belongs to one channel or is about to be deleted: none leaks
\* and no channel has a timer that may go to another one.
TimersAreOwned ==
    \A t \in Timers :
        /\ timers[t] # "free" => (Cardinality(Owners(t)) = 1 <=> ~Deleted(t))
        /\ timers[t] = "free" => Owners(t) = {}
        /\ Cardinality(Owners(t)) <= 1

\* While a light of the group has a channel, the driver that its fades need is installed, if
\* it could be: the flag is not set when the driver has gone.
FadesWork ==
    /\ g_fade_installed <=> fade_driver \/ fade_refused
    /\ \A k \in Channels : Live(k) /\ InGroup(k) => fade_driver \/ fade_refused

\* A channel of the group that was set to breathe goes on doing so while the driver is there.
BreathGoesOn ==
    \A k \in Channels :
        <>[](mode[k].as = "breath" /\ InGroup(k) /\ fade_driver) =>
            []<>(out[k] = 0) /\ []<>(out[k] = FullDuty)

\* A channel that was given a duty comes to rest.
DutyRests ==
    \A k \in Channels, duty \in Duties :
        <>[](mode[k] = Written(duty)) => <>[][out'[k] = out[k]]_out

-----------------------------------------------------------------------------
(* What this code does not keep: checked on its own, each is violated        *)

\* A channel has the driver that its fades need, if the driver could be installed.
EveryChannelFades == \A k \in Channels : Live(k) => fade_driver \/ fade_refused

\* g_fade_installed: the driver is installed.
FlagIsDriver == g_fade_installed => fade_driver

\* A channel that was set to breathe goes on doing so, with the driver.
EveryBreathGoesOn ==
    \A k \in Channels :
        <>[](mode[k].as = "breath" /\ fade_driver) =>
            []<>(out[k] = 0) /\ []<>(out[k] = FullDuty)

\* A call that fails has done nothing.
RefusedIsNothing == [][\A k \in Channels : DutyRefused(k) => UNCHANGED commands]_vars

\* "set the duty of a channel": once nothing is under way, it is the one written last.
DutyIsWritten ==
    pc = "idle" /\ commands = <<>> =>
        \A k \in Channels : mode[k].as = "duty" => out[k] = mode[k].duty

\* What was freed is not used: no timer may expire that would look at a freed channel.
FreedIsNotRead ==
    \A t \in Timers, k \in Channels :
        timers[t] = "active" /\ InGroup(k) => chn[k].cell # "freed"
=============================================================================
