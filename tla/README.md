# Verification of esp_smart_home

TLA+ models of the parts of this ESP32 firmware that keep state: the event bus, the
Wi-Fi, MQTT, HTTP and time clients, the LED indicator, the buttons, the lights, and the
application that starts them. They are checked with TLC on small instances; TLAPS proves
their safety properties for every value of the constants. Every definition is read off the source;
`PROJECT.json` maps each one to the lines it stands for. All paths below are relative
to `src/`.

## 1. The system

FreeRTOS on two cores; `app_main` (`main/esp_smart_home.cc`) starts the Wi-Fi
station, synchronises the time, starts an MQTT client and publishes demonstration
events on a global event bus once a second. Most components are entered by more
than one task: `app_main`, the bus task, the ESP event task, the MQTT task, the
FreeRTOS timer task, the esp_timer task.

| component | state | operations | interacts with | what makes it correct | hard part |
|---|---|---|---|---|---|
| **EventBus** `main/core/event` | priority queue of `Event*`, handler table, two mutexes, two semaphores, exit flag, one task | Publish, Subscribe, Unsubscribe, EventLoop, destructor | handlers called on the bus task, which may call the bus | bounded queue; one owner per event; urgency order; each subscriber at most once; clean shutdown | interleaving, timeouts, re-entrancy, ownership by return value |
| **GlobalEventBus** | one EventBus of 30 events | forwards | `app_main`, handlers | as above; never destroyed | - |
| **Mutex** `main/core/util/mutex.cc` | a FreeRTOS mutex (not recursive) | Lock(ms), TryLock, Unlock, a guard | EventBus, LED | - | the guard unlocks even if it did not lock |
| **LedIndicator** `components/indicator`, its wrapper `main/core/led` | active blink, step index per blink, mutex, one-shot timer, list of indicators | create, get_handle, start, stop, delete, the timer callback | timer task, WifiManager | most urgent blink runs; a stop is final; a blink never stalls; an LED is all there or all gone | callback reads without the mutex; deletion against the timer; failures of creation and deletion |
| **WifiManager** `main/core/manager` | ready flag, mode, retry count, event group, LED pointer | Init, Deinit, SwitchStationMode, Start, Stop, event handler | Wi-Fi driver, event task, LED | ready means connected; Stop stops; retries bounded | events queued before a call, handled after it |
| **MqttClient** `main/core/mqtt` | handle, ready flag, callbacks | Start, Stop, Publish, Subscribe, event handler | MQTT task | ready means connected; no call on a null handle | stop against events |
| **SntpManager** | - | SyncSNTP, SyncTime | SNTP service | reports success only after a sync | status cleared by reading, bounded polling |
| **HttpClient / HttpDownload** `main/core/util` | response buffer that grows, buffer of a download, connection handles | DoRequest, SetResponseData, ReleaseReponseData, DoDownload | esp_http_client callbacks | a body of any pieces is a string; the callback sees each byte once; every connection has one owner | partial reads, early returns, a buffer that belongs to the object |
| **Button** `components/button/iot_button.c` | list of buttons; per button: level, debounce count, ticks, repeat, state | create, delete, register, periodic scan | esp_timer task, callbacks | click counts and events match the presses | bit widths, list changes during a scan |
| **ButtonAdc** | channel table, one shared voltage | init, deinit, get_key_level | Button | a button sees its own channel | shared static sample |
| **Light** `components/light` | group of 4 lights, channels, timers | create, delete, write, breath, blink | FreeRTOS timer task, LEDC driver | every light of the group is served, and timers and driver are released | fixed-size group, partial failure |
| **Application** `main/esp_smart_home.cc`, `init.cc` | the loop of `app_main` | BaseInit, app_main, TestEventHandler | all of the above | start-up and loop go on whatever fails; no event is lost while the bus keeps up | failures that nobody looks at |
| ButtonGpio, Board | none of interest | pure I/O | | | |

The hazards found while reading, each at its line, are listed in
`PROJECT.json` under `hazards` with the properties that cover them.

## 2. Plan

Done, in this order: `EventDelivery` (what the bus promises), `EventBus` (the code);
`LedIndicator`; `ButtonGesture` (what a button promises), `Button`; `WifiManager`;
`MqttClient`; `ButtonDevices` (list, timer and ADC table around `Button`); `Light`;
`Sntp`; `Http`; `Application` (`app_main`, composed of `Sntp` and `EventDelivery`);
`LedDevices` (creation and deletion around `LedIndicator`); and eight `...Proofs` modules,
`ApplicationProofs` also for `Sntp`, `LedIndicatorProofs` also for `LedDevices`,
`ButtonProofs` also for `ButtonDevices`.

Left, in this order:

1. Callbacks that are registered or cleared during a scan (`iot_button.c:59`), and a
   button that is deleted during one (`iot_button.c:205`).
2. The list of LED indicators with two tasks on it, as nothing protects it.

## 3. EventBus

Modules: `EventDelivery` (abstract), `EventBus` (detailed), `MCEventBus` (instances),
`EventBusProofs`.

**State.** `event_queue`, `event_handlers`, `event_mutex`, `handler_mutex`, `exit`,
`wakeup_sem`, `exit_sem` are the members of `EventBusImpl` (a missing map entry is
the empty set; ties in the heap are a free choice). `pc`, `arg`, `success` are the
program counters and locals of calls, one call per task, also for the loop task,
because handlers call the bus. `loop`, `event`, `handlers` are those of
`EventLoop`. `live` is the heap and `held` the events that tasks own: they are not
variables of the program but facts about it, which give leaks, double deletes and
uses after deletion a name. `dtor` is the progress of the destructor.

**Steps.** A step ends where another task could notice: taking a mutex, giving it
back, the size test and the push of `Publish` (which are separate steps under
`event_mutex`), each handler call. Subscribe and Unsubscribe change the table in one
step under its mutex. A lock attempt times out only while the mutex is held.

**Callers.** A caller publishes an event it owns (new, or refused before), does not
touch it after a Publish that returned true, and no client is in a call, or starts
one, when the bus is destroyed; the language requires the last one, the others
follow from who deletes the event. Null and empty arguments, refused at once
without effect, are left out.

**Abstract specification.** `EventDelivery` has no tasks, locks or memory: Accept,
Take (a most urgent one), Fix (the receivers: the subscribers now, or nobody),
Deliver (each receiver once), Finish, Subscribed, Unsubscribed. `EventBus`
instantiates it; `DeliveryRefined` says that every step of the bus is one of these
or none. "Nobody" is real: when the table's mutex is not obtained in a second, the
event is dropped.

| run | instance | shows |
|---|---|---|
| `eventbus` | 1 client and the loop's handlers, 4 events (three equally urgent) of 1 name, 2 handlers, capacity 2; destructor at any moment or never | `QueueBounded`, `Ownership`, `HandshakeSafe`, `DeliveryRefined`, `EventuallyServed`, `DestructorReturns` |

Four events are what it takes for the client and a handler to race for the last place of
capacity 2: one is in delivery, one is queued, each of the two publishes another. Two
urgencies tell the orders apart, two handlers what one of them does to the delivery to the
other. Addresses are reused after deletion, so runs are unbounded in length with no counter
to cap. More clients and more names are covered by the proofs. The run does not check for deadlock, because everything stops after
the destructor.

**Fairness.** Every task that can run runs (weak fairness of calls and of the loop,
preemptive scheduling); a handler returns (strong fairness, it may call the bus
before); the loop is not timed out on `event_mutex` for ever (holders execute a few
instructions, the timeout is 1000 ms and the loop task has the higher priority).
`EventuallyServed` is stated so that it needs no assumption on traffic: an event
may wait for ever only behind events that are as urgent. Nothing more can be
promised, as the queue has no ageing.

**What the model shows beyond the properties.** `wakeup_sem_` is given and never
taken: service depends on the 50 ms poll. `DestroyFinish` records the two outcomes
of the inverted drain loop (`event_bus.cc:88`): events left behind leak
("leaked"), an empty queue is popped ("undefined"). No text of the repository
promises otherwise, so this is listed as a hazard and not as a finding.

**Proved** (`EventBusProofs`), for any finite set of events, any tasks, names,
handlers, urgencies and capacity: `TypeCorrect`, `Bounded`, `SingleOwner`,
`Unlocked`, `Handshake`, and `Refinement` (the bus implements `EventDelivery`).
They rest on the four named assumptions of `EventBus` only (the loop is not a
client, null is neither a task nor an event, there are finitely many events, capacity is
a natural number). None of the properties is inductive. The invariant `Inv` has four
layers: `Control` ties each mutex to the one program counter inside its critical
section (so that two tasks are never past the size test together) and the locals
to the program counters; `Room` adds that a task about to push still has room;
`Owners` states ownership for pairs of owners and single events, which is what a
step changes; `Lifetime` ties exit flag, semaphore and loop. Each layer has one
step per action, using the layers before it. `Refinement` uses `Inv` to show that a
push is an Accept (the event is not queued or in delivery already, and there is room).
`Unlocked` (no handler runs under a mutex that it could wait for) is in no run: it follows
from `Control`. Liveness (`EventuallyServed`, `DestructorReturns`) is only model-checked.

## 4. LedIndicator

Modules `LedIndicator` (the calls and the timer on one LED), `LedDevices` (its creation,
handle, list node and deletion), `LedIndicatorProofs`; instances in `MCLedIndicator` and
`MCLedDevices`.

**State.** `active_blink`, `p_blink_steps`, `mutex` are the fields of the indicator;
`led` the pin; `armed` the one-shot timer;
`pc`, `blink_type`, `blink`, `step` the program counters and locals of callers and of
the timer task. The slot for `BLINK_MAX`, which is always stopped, is left out.

**Steps.** The runner is executed by the timer task and by callers of start and
stop; it tests `active_blink`, reads it again, reads the step, increments it, takes the
mutex and acts, one step each: none of the first four is protected. The increment stores
the value read before plus one, or that of a second read, as a compiler may do. An
`active_blink` of -1 at the second read makes the step an arbitrary value, and the increment
a write outside of the array, whose effect is not followed; a step index outside of the list
yields an arbitrary step. Under the mutex, writing the slot, setting `active_blink` to -1 and
setting it to the blink that was found are a step each: an unprotected reader can tell these
moments apart. The search is one step; only a third task could make it find a blink that no
single moment had.

**LedDevices.** `parts` is what `led_indicator_create` has made so far (object, steps,
mutex, pin, timer), `handle` the pointer that the wrapper keeps and tests before each call,
`listed` the node in the list of indicators, `deletion` where `led_indicator_delete` is.
Each allocation may fail, which jumps to one of three labels; `Cleanup` is what those free.
Deletion is several steps: the pin and the timer, each of which may fail and ends the call,
then the node, the memory and the handle. Between them the timer may expire. The destructor
of the wrapper ignores a failure: the handle is gone, the memory, the node and the mutex stay.
A failed creation may be tried again.

**Assumptions.** Time is abstracted: an armed timer may expire at any moment, which
covers all hold times. The command queue of the timer task has room.
`Overlap = FALSE` lets a call or callback start only when none is under way; the
code does not enforce this, and `led_resurrect` shows what happens otherwise.
The lists of the code all end with LOOP or STOP and only there (`EndsAssumption`).
In `LedDevices` no caller uses an LED that another is deleting, which is up to the callers,
and a start command that a callback sends behind the deletion of the timer is not followed.

| run | instance | shows |
|---|---|---|
| `led_serialized` | 2 callers, no overlap, three lists (looping, run once, untimed first step) | `InBounds`, `ActiveIsFirst`, `StopIsFinal`, `BlinkGoesOn` |
| `led_concurrent` (`MCLedDevices`) | 1 caller and the timer at any interleaving, creation that fails anywhere, deletion that fails or not, wild steps; `MaxStep` = 3, the length of the longest list, bounds the index | `ActiveIsIncomplete`, `AllOrNothing` |
| `led_resurrect` | 1 caller and the timer at any interleaving | finding: `StopIsFinal` fails |

Fairness: tasks run, an armed timer expires (`BlinkGoesOn` assumes quiet callers,
as each start postpones the timer). Deadlock is not checked where deletion ends
the system, and in the run that looks for one violation.

The documentation promises thread-safe operation (`components/indicator/README.md:97`)
and a stop at any time (`include/led_indicator.h:130`). One caller and the timer are
enough to break both. `led_resurrect`: the stop comes before the runner's increment,
which makes the stopped blink incomplete again. The configuration of that run
(`Overlap = TRUE`) violates two more of the properties that hold without overlap:

* `InBounds`: the runner has read which blink is active, a stop writes -1 into the
  slot, the runner executes `list[-1]`; or start or stop sets `active_blink` to -1 between
  the runner's test of it and its second read, and -1 is its index into the lists
  (`IndexIsBlink`);
* `NoStall`: start of a less urgent blink sets `active_blink` to -1 for a moment;
  the timer callback reads it and returns without arming the timer; the urgent
  blink is active and never goes on.

Readers without the mutex may see an active blink that is stopped: start, stop and the
runner write the slot first (`led_indicator.c:439`, `302`) and `active_blink` after it
(`257`). What survives any interleaving is that they see it only for so long
(`ActiveIsIncomplete`): whoever made it so holds the mutex and is about to switch away. Of
the memory, `AllOrNothing` survives: whatever fails, an LED with a handle has all its memory;
one without has none and is in no list, unless its deletion failed, which leaks all of it.

**Proved** (`LedIndicatorProofs`), for any callers and any lists that end with LOOP or STOP:
`TypeCorrect` and `ActiveIncomplete` under every interleaving, `DeletedIncomplete` also with
creation and deletion around it, which touch the mutex and the timer only; `WholeOrGone`
(that is `AllOrNothing`), for which it is enough to know where a deletion stands and that
nobody is in a call without a handle; `Bounds`,
`MostUrgentActive`, `NeverStalled` and `StopsAreFinal` when calls and callbacks do not
overlap, which they state as a hypothesis because the findings show that they are false
without it. The invariant has layers: `Bound` (parameters against program counters), `Locked`
(a critical section has the mutex, which `ActiveIncomplete` needs), `Alone`
(one task at a time), `InList` (a step that is about to be executed is in its list),
`ActiveFirst` (the active blink, and how far a switch has come), `Rearmed` (who goes on with
the blink: an armed timer, or the one task under way). `NoStall` is in no run, as
`NeverStalled` proves it; `BlinkGoesOn` is only model-checked.

## 5. Button

Modules `ButtonGesture` (abstract), `Button` (one button's state machine),
`ButtonProofs`.

**State.** `button_level`, `debounce_cnt`, `state`, `ticks`, `repeat`, `event` are the
fields of `button_dev_t`, with the widths of its bit fields as constants
(`DebounceMod` = 2^3, `RepeatMod` = 2^8, `TicksMod` = 2^16); `raw` is what the
driver reads. `calls` holds the callbacks of the last scan, each with what it could
read from `iot_button_get_event` and `iot_button_get_repeat`; `presses` and `recent`
are histories that the properties compare with.

**Steps.** A scan (`button_handler`) is one step, because nothing else writes these
fields; each transition of its switch is an action. `Move` is the contact, which may
change between any two scans.

**Abstract specification.** `ButtonGesture` says which callbacks may follow each other and
which click a number of presses is, without levels, time or widths.

| run | instance | shows |
|---|---|---|
| `button_gesture` | debounce 7, short 9, long 12 scans; a clock of 32 and a count of 16 values; up to 15 presses | `CountInCallbacks`, `GestureRefined`, `DebounceHonest`, `LevelAccepted`, `GestureEnds`, `HoldReported` |
| `button_debounce8` | debounce 8 | finding: `LevelAccepted` fails |

The widths are scaled down so that a held button makes the clock wrap and a gesture fills the
count; debounce 7 is the largest value that 3 bits count to. `MaxHold` ends presses of
states 3 and 5 before the clock passes its value, `MaxPresses` keeps the contact open when a
gesture has as many; both bound the environment, not the code. Fairness: the periodic
timer goes on (weak fairness of `Scan`).

`button_debounce8`: with `DEBOUNCE_TICKS` = 8, which `Kconfig:12` allows, the 3-bit
`debounce_cnt` wraps to 0 before it reaches 8: no change of the level is ever accepted.
With `MaxPresses` = `RepeatMod`, `button_gesture` violates `CountInCallbacks`: `repeat` is
a `uint8_t` in the code, so the 256th press of a gesture is reported as number 0 and 257
presses as a single click.

**Proved** (`ButtonProofs`), for any tick counts and widths: `TypeCorrect`, `Debounced`
(the counter equals the number of contrary levels at the end of `recent`), `Counted` and
`Refinement` (the state machine implements `ButtonGesture`), the last two for gestures
that the count can hold. The invariant ties `repeat` to `presses` in every state and
the level to the last readings. `Accepts` is the converse of `Debounced`: a level that
`DEBOUNCE_TICKS` scans in a row have read is the button's at the last of them
(`AcceptedInTime`), provided that the counter can count so far, which is exactly what
`button_debounce8` lacks. Its invariant (`Latest`) is that the level read before the contrary
ones is the button's. The liveness properties are only model-checked.

## 6. WifiManager

Modules `WifiManager`, `WifiManagerProofs`.

**State.** `init`, `is_ready`, `config`, `s_retry_num` are the manager's; `leds` the
blinks that it has started; `api_pc`, `ev_pc`, `arg`, `seen` the places and locals of the
API call and of the handler on the event task. `driver`, `link` and `queue` are external:
the Wi-Fi driver and the events that it has posted and the event task has not handled. `said`
(the early return of the last call), `told` (what the listener heard last), `retries`
(retries since the last success or Start) and `refused` (the last event was answered by an
`esp_wifi_connect` that the station refused) are histories.

**Steps.** API calls are made by one task; between its accesses to shared state the event
task may run, so that `Start`, `Stop` and `SwitchStationMode` are several steps each.
`s_retry_num++` is a read and a write. `Deinit` is called with a stopped driver, which
`esp_wifi_deinit` requires. The listener is always set. Two things happen to the station
without any event. `esp_wifi_connect` may be refused, and neither of its callers looks at the
result (`wifi_manager.cc:27`, `32`): the station stays down. And `SwitchStationMode` replaces
the netif (`105-106`) also when its `Stop` returned early and the station runs: the address
is gone (`link` is "no_ip") and the connection stays until it is lost or stopped.

| run | instance | shows |
|---|---|---|
| `wifi` | every operation, 2 networks, 5 retries, 3 events in the queue | `ReadyIsConnected`, `RetriesBounded`, `LossIsNoticed` |

`ReadyIsConnected` is about the moments at which everything has been handled and the driver
runs: then the ready flag, CONNECTED on the LED and what the listener heard agree with the
station, if the driver told what became of it (`Told`: neither of the two silent cases).
Without that, or of a stopped driver, or of CONNECTING on the LED, the code does not keep it:
`RefusalIsNoticed`, `ReplacementIsNoticed`, `AlreadyStarted` and `ConnectingIsOver` in
section 12. `LossIsNoticed` likewise: it speaks of a station that stays without a
connection while, again and again, its last connect was not refused. Three events hold a
stale answer, a loss and a start at once. Fairness: calls and events are
carried out, and an attempt to connect ends; nothing is assumed of how it ends.

**Proved** (`WifiManagerProofs`), for any networks, number of retries and queue:
`TypeCorrect`, `Bounded` and `Agreement`. `Bounded`: at most `RETRIES` retries follow a
Start or a success. The bound is not inductive; `Counted` says that every retry is in
`s_retry_num`, or about to be added to it by a handler that read a value below the limit,
which stays true when `Start` writes 0 between the handler's read and write. `Agreement` is
`ReadyIsConnected`. Flag and station disagree most of the time, so its invariant (`Agree`)
speaks of the newest event that waits: it is the one that tells what became of the station.
When none waits, the handler's place says what it has made, or is making, of the last one
(`Good`, `Bad`), unless a connect was refused. That is kept by a post, which makes a newer
event, by the handler, which takes from the other end, and by Stop and Start, whose driver calls settle the station
before they post. Only `LossIsNoticed` is just model-checked.

## 7. MqttClient

Modules `MqttClient`, `MqttClientProofs`.

**State.** `handle`, `is_start`, `is_ready`, `auto` are the object's fields, `object` whether
it exists. `lib` is the library's client, from created over connecting, connected or ended
to stopped; `cb_pc` is where its task is in `mqtt_event_handler`; `api_pc` and `call`
where the owner is.

**Steps.** One task owns the object, as in `app_main`; each call of the library in Start and
Stop is a step and may fail, and between two of them the library's task may run a handler.
That task runs one handler at a time, and `esp_mqtt_client_stop` waits for it: both are
assumptions on the library. The ready callback subscribes, as that of `app_main` does.

| run | instance | shows |
|---|---|---|
| `mqtt` | everything; there are no bounds | `ClientIsOwned`, `CallbackHasClient`, `ReadyFollows` |

Fairness: calls and callbacks go on, an attempt to connect ends.

**Proved** (`MqttClientProofs`), without assumptions: `TypeCorrect`, `NoLeak` and
`ReadyCallbackIsSafe`: the ready callback, which calls Subscribe, has an object with a client,
and no callback comes after the destructor. All follow from one invariant, `Owned`, which says
for each place of a call in which state the library's client is; a callback is under way
only while that client runs. `ReadyIsNoted` is the safety that `ReadyFollows` rests on:
between callbacks the flag is right about a client that is connected or has given up
(`ReadySettles`); while it is connecting, the flag may be left from before a Stop.
`ReadyFollows` itself is only model-checked.

## 8. ButtonDevices

**State.** `g_head_handle`, `next`, `alive`, `device` are the linked list and its cells;
`g_is_timer_running` is what the code believes of the timer, `timer` what it is: the results
of `esp_timer_create` and `esp_timer_start_periodic` are not looked at, so that the flag may
be set without a timer. `ch` and `is_configured` are the table of ADC channels; `vol` says
from which channel the static voltage was sampled; `target` is the button that the scan is
at. Histories: `leaked`, the devices whose creation failed in `calloc` after the table was
changed, and `held`, the rows that entered the scan with a sample of an earlier scan that is
still taken for new.

**Steps.** Creation is two steps, the driver's set-up and the list, and so is deletion; the
scan visits one button per step and may be between any of them. Two cases are
assumed away: `button_delete_com` runs between two scans (nothing keeps a scan from the cell
that it frees; `PROJECT.json` lists it as a hazard), and one task makes the calls.
`After`, the buttons behind one in the list, is the least set that is closed under `next`,
so that no recursion is needed. Voltages are abstracted to the channel that they come from.
A row is `fresh` while its sample is less than 1 ms old by `button_adc.c:194`. At the start
of a scan any of the rows may still be: a period is longer than 1 ms, but a scan that a
callback has held up is followed by the overdue one at once.

| run | instance | shows |
|---|---|---|
| `button_devices` | 3 buttons, channels 0 and 1 with 2 indices each, pins, 2 slots | `ListHoldsButtons`, `TableMatchesButtons`, `GroupedIsOwnSample`, `EveryButtonScanned` |

Channel 0 has to be among the channels, because rows that were zeroed have it as their
channel; three buttons are needed for A, B, A in the list. Fairness: the timer goes on, if
there is one (`EveryButtonScanned` is about buttons while it runs).

**Proved** (`ButtonProofs`), for any number of buttons, channels, indices and rows of the
table: `DevTypeCorrect`; `ListCorrect` (`ListHoldsButtons`); `TableCorrect`
(`TableMatchesButtons`); `OwnSampleWhenGrouped` (`GroupedIsOwnSample`). The invariants come in
three layers, each of which uses those before it.

1. The list. `Linked` says with sets of buttons what a recursive walk would: every set that
   holds the head and is closed under `next` holds all buttons that exist, and every set of
   them that is closed has an end. Both survive a new head and the removal of a button
   from the middle. `Busy` says where the button of a call under way and that of the scan are.
2. The table. `Table`: a row in use is the only one with its channel up to there, so that it is
   the one that `find_channel` finds, and a row that is free has no index. `Taken`: an index
   is in use from before its button is in the list until before it is taken out, and no two
   buttons have the same.
3. The sample. `Sampled`: in a list whose channels do not mix, a row that was sampled in this
   scan (fresh and not `held`) and has a button still to be scanned is the row of the last
   sample.

They hold under the two assumptions above, deletion between scans and one calling task.
`EveryButtonScanned` is only model-checked.

## 9. Light

**State.** `g_light_group`, `g_fade_installed` and the lights and channels (`exists`, `chn`)
are the code's; `fade_driver`, `out` (the duty that a channel is at or fades to), `timers`
and `commands` are the LED controller and FreeRTOS. The result of `ledc_fade_func_install` is
not looked at: `g_fade_installed` is what the code believes, `fade_driver` what is. Histories:
`blinking`, `mode` and `fade_refused`, which says that the last installation failed.

**Steps.** One task calls the API; each call that sends a command to the timer task is
a step of its own and waits while the queue is full. A timer that has not got its command yet
may expire; `breath_timer_callback` is one step. Fades do nothing without the driver
(`FadedTo`). A `duty_mode` that there is not is refused after the breathing was told to stop
(`DutyRefused`). A light that blinks gets no other
mode before `iot_light_blink_stop`, as `components/light/README.md` requires. Duties are 0,
half and full.

| run | instance | shows |
|---|---|---|
| `light` | 2 lights of 1 channel, a group of 1, 2 timers, 2 periods, 1 command | `TimersAreOwned`, `FadesWork`, `BreathGoesOn`, `DutyRests` |

Two periods make a channel change its timer; two timers are not always enough, which is how
creation fails. In this run a half duty is the full one (`FullDuty` = 1), which none of its
properties tells apart. Fairness: calls go on, commands are carried out, an active timer
expires. One slot for two lights (`LIGHT_NUM_MAX` = 1) is the case of the fifth light:
`iot_light_create` returns a light that no slot points at. What the code keeps, `FadesWork`
and `BreathGoesOn` say of the light that has the slot; what it does not keep of the other one
(`EveryChannelFades`, `EveryBreathGoesOn`) is in section 12.

**Proved** (`LightProofs`), for any lights, channels, timers and length of the queue:
`TypeCorrect`; `Owned` (`TimersAreOwned`); and `Faded` (`FadesWork`). Between a call that sends a command and the timer task that carries it out, code
and timers disagree, so the invariant of `Owned` (`Timed`) is about both ends of the queue: a
timer that a channel has exists, has no deletion in the queue and belongs to no other channel
(`Unique`, `Kept`); one that nobody has is to be deleted (`Found`); no command is for a timer
that does not exist, and a deletion is the last one for its timer (`Quiet`, `LastIsDelete`).
`Busy` says so of calls that are about to send one. `Faded` needs that a channel is that of a
light that exists (`Shown`): a light that is new in its slot has no channels, and the last
one that leaves the group takes the last channels of the group with it.

`Breathed` is the safety that `BreathGoesOn` and `DutyRests` rest on (`TimersFollow`): between
calls, once the queue is empty, a channel of the group that was set to breathe is turned by a
running timer and one that was given a duty by none. What a timer will do in the end (`WillRun`,
`WillRest`) is what the last command for it says, or the timer itself if there is none; the
timer task taking a command does not change it, and a command to one timer says nothing of
another (`EndsSent`, `EndsTaken`). The invariant (`Following`) ties that to what was last asked
of the channel, except while a call has told the timer and not yet written the duty. That
the running timer goes on expiring is fairness, and with it `BreathGoesOn` and `DutyRests` are
only model-checked.

## 10. Sntp and Application

Modules `Sntp`, `Application`, `ApplicationProofs`.

**Sntp.** `SyncTime` polls a status that reading clears, up to `SNTP_TRY_COUNT` times, and
reads it once more at the end; the server's answer may come at any step and sets the clock to
a valid time or not. `synced` and `answered` are histories.

**Application.** `app_main` step by step: `main` is where it is, `turn` which of the three
events of a round it publishes next. `wifi` tells whether a station was started, without which
no server answers; MQTT answers at once, ready or not. The steps of `SyncTime` are those of
`Sntp`, also when another task calls it later. The bus is `EventDelivery`, which the real bus
implements (`Refinement`, section 3), with `Publish` obtaining the mutex in time. `pending`
and the rest of the bus are its variables; `lost` (an event was refused) and `behind` (a round
began before the queue was empty) are histories. An event is known by its class and an
address; addresses are taken in order, because the system does not tell them apart.

| run | instance | shows |
|---|---|---|
| `application` | 2 tries, one handler, capacity 3 | `SuccessIsValid`, `AnswerIsNoticed`, `LossMeansBehind`, `GoesOn` |

Two tries tell the first, the last and the additional reading apart; capacity 3 is the
smallest that holds a round. Fairness: every task runs. Deadlock is not checked, as
`app_main` returns without its base.

**Proved** (`ApplicationProofs`), for 1 to 255 tries and any capacity from 3 on:
`TypeCorrect` (with it, that no call polls more often), `Valid`, `Synced`, `NoneMissed`;
`SyncRefined` (every step of the application is one of `Sntp` or none, so that all of them
hold in it); `Lost` (`LossMeansBehind`). The invariant `Noticed` says where an answer is at
each step of `SyncTime`: in the status, or in `success`. That of `Lost` (`Keeps`) bounds what
waits by the events already published in this round, unless the bus is behind.
`SuccessIsSynced` is in no run. `GoesOn` is only model-checked.

## 11. Http

Modules `Http`, `HttpProofs`, instances in `MCHttp`.

**State.** `clients` are the connections of the library that are open, `handle` the one that
each task's call has, `pc` where the call is. `response` is `HttpResponse`: the size of its
vector, `current_size_`, and from where on its bytes are 0. `dl` are the locals of each
`DoDownload` with its last result; `buffer` belongs to the `HttpDownload` object and holds the
piece that some task has read last. `sent`, `got`, `given` and `leaked` are histories: what
the server sent and the callback saw, and connections that no task knows any more.

**Steps.** Each call of the library is a step and may fail; a read returns any part of what
is left, or nothing. One task makes requests, the others download, each with an object of its
own or sharing one. Of data only lengths are kept.

| run | instance | shows |
|---|---|---|
| `http` | 1 requester, 1 downloader, 2 connections; the buffer grows by 2 or more, pieces of up to 2, bodies and contents of up to 3 | `BodyIsString`, `ClientsAreOwned`, `DownloadIsWhole`, `DownloadsEnd` |

The sizes are those of the code scaled down: a piece is smaller than, equal to or larger than
what the buffer grows by, fills it exactly or not, and a content takes one, two or three
reads. Fairness: calls of the library and callbacks return.

**Proved** (`HttpProofs`), for any sizes, any number of tasks and connections: `TypeCorrect`,
`BodyTerminated` (`BodyIsString`), `ClientsOwned` (`ClientsAreOwned`) and, if each task
downloads with an object of its own (`OwnObjects`), `Whole` (`DownloadIsWhole`).
`BodyTerminated` needs that the buffer is also longer than its data while a request is under
way (`Collecting`); `ClientsOwned` that a task has a connection only at certain places
(`Placed`); `Whole` that at each place of the loop the callback has seen all that was read, or
all but the piece it is about to see. `DownloadsEnd` is only model-checked.

## 12. What the code does not keep

Beside the findings, these properties are violated. They stand at the end of their
modules; each is checked by adding it to the configuration given and leaving the
others out.

| property | configuration | trace |
|---|---|---|
| `NoUseAfterFree` (LedDevices) | `led_concurrent` | `xTimerDelete` only posts a command and the object is freed at once; the timer expires before the command is processed (`led_indicator.c:399-411`) |
| `HandleIsFound` (LedDevices) | `led_concurrent` | creation ignores that there was no memory for the node (`led_indicator.c:153`): `led_indicator_get_handle` does not know a handle that was given out, as the component's test expects of it (`led_indicator_test.c:39`) |
| `MutexIsGivenBack` (LedDevices) | `led_concurrent` | a deletion that fails returns with the mutex (`led_indicator.c:397-400`): the timer's callback never gets it again |
| `NothingLeaks` (LedDevices) | `led_concurrent` | the wrapper's destructor ignores a deletion that failed (`led_indicator_wrapper.cc:24-28`): nobody has the handle any more, and object, steps and mutex stay allocated |
| `IndexIsBlink` (LedIndicator) | `led_concurrent` | `active_blink` is tested (`led_indicator.c:280`), set to -1 by a start or stop (`257`), read again (`283`) and used as an index (`284`, `287`) |
| `PinIsReset` (LedDevices) | `led_concurrent` | a creation that fails at the timer leaves the pin configured (`led_indicator.c:369-373`) |
| `CountAtPress` (Button) | `button_gesture` | the PRESS_DOWN callback runs before `repeat` is written and reads the count of the last gesture (`iot_button.c:88-90`) |
| `AlreadyStarted` (WifiManager) | `wifi` | a reconnect posts GOT_IP, Stop stops the driver and clears the flag, the event sets it again; Start then reports success and starts nothing (`wifi_manager.cc:43`, `137`) |
| `AlreadyStopped` (WifiManager) | `wifi` | Stop of a station that is connecting or retrying sees `is_ready_` false and leaves the driver running (`wifi_manager.cc:154`) |
| `RefusalIsNoticed` (WifiManager) | `wifi` | a ready station loses its network, and the reconnect is refused: no further event comes, and `is_ready_`, LED and listener go on showing a connection (`wifi_manager.cc:32`) |
| `ReplacementIsNoticed` (WifiManager) | `wifi` | `is_ready_` is still false when `SwitchStationMode` looks, so that it stops nothing; GOT_IP is handled, the netif is replaced, in either order, and the manager is ready without an address (`wifi_manager.cc:103-106`) |
| `ConnectingIsOver` (WifiManager) | `wifi` | the connection comes between `esp_wifi_start` and the LED in `Start`: CONNECTING is started beside CONNECTED and nobody stops it (`wifi_manager.cc:142-149`) |
| `RetriesConfigured` (WifiManager) | `wifi`, `MAXIMUM_RETRY` = 2 | the handler retries while the count is below 5, whatever is configured (`wifi_manager.cc:31`) |
| `RequestHasClient` (MqttClient) | `mqtt` | Stop leaves `is_ready_`; a later Publish passes a null handle to the library (`mqtt_client_wrapper.cc:174-194`) |
| `FailedIsFailed` (MqttClient) | `mqtt` | the message id that the library returns is compared with `ESP_OK`, so that accepted requests are reported as failures (`mqtt_client_wrapper.cc:194`) |
| `OwnSample` (ButtonDevices) | `button_devices` | channels A, B, A in the list: the third button is judged by the voltage of B (`button_adc.c:185-194`) |
| `OwnSampleIfGrouped` (ButtonDevices) | `button_devices` | A, A, B in the list: a callback holds a scan up, the next follows at once, and the first of A finds its sample of less than 1 ms ago while `vol` is of B (`button_adc.c:194`) |
| `FlagIsTimer` (ButtonDevices) | `button_devices` | the timer cannot be created or started and the flag is set all the same: no button is ever scanned, and no later creation tries again (`iot_button.c:188-190`) |
| `UsedIsUsed` (ButtonDevices) | `button_devices` | `calloc` fails after the table was changed; the index is refused from then on (`iot_button.c:250`) |
| `DutyIsWritten` (Light) | `light` | a breathing timer expires before its stop is carried out and overwrites the duty (`light.c:167`) |
| `FreedIsNotRead` (Light) | `light` | a timer may expire, and its callback read the channel, after `iot_light_delete` has freed it and before the light leaves the group (`light.c:82`, `42`, `124-129`) |
| `EveryChannelFades` (Light) | `light` | the light in the group is deleted: the fade driver is uninstalled while a light without a slot still has channels (`light.c:130-136`) |
| `FlagIsDriver` (Light) | `light` | `ledc_fade_func_install` fails and the flag is set all the same: no later channel tries again while the group holds a light (`light.c:152-155`) |
| `EveryBreathGoesOn` (Light) | `light` | the callback looks at the group only: a light that found no slot fades once, and `ESP_OK` is returned (`light.c:106-112`, `39-43`) |
| `RefusedIsNothing` (Light) | `light` | a call with an unknown `duty_mode` returns `ESP_FAIL` and has stopped the breathing (`light.c:167-169`) |
| `NothingLost` (Application) | `application` | the answer of Publish is not looked at: a refused event has no owner (`esp_smart_home.cc:89`) |
| `StartIsRetried` (Application) | `application` | a Wi-Fi that could not be started is never tried again (`esp_smart_home.cc:54-60`) |
| `AllDelivered` (Application) | `application` | if the bus takes one event in a pause, the urgent ones of the next round go first for ever |
| `NothingLeaks` (Http) | `http` | `DoDownload` returns without cleaning its client up when open fails or there is no content length (`http_download.cc:45-53`) |
| `ClientIsChecked` (Http) | `http` | the result of `esp_http_client_init` is used unseen (`http_download.cc:43`) |
| `RetrySendsBody` (Http) | `http` | the first attempt takes the body out of the request; one that is repeated after an error sends none (`http_client.cc:145`) |
| `SetIsReleased` (Http) | `http` | `SetResponseData` sets `current_size_` to 0, the size to which `ReleaseReponseData` resizes: the body is dropped (`http_response.cc:23`, `50`) |
| `AlwaysEnds` (Http) | `http` | a server that closes early makes every read return 0, and the loop goes round (`http_download.cc:57`) |
| `DownloadIsWhole` (Http) | `http`, `Downloaders` = {d1, d2}, `Object <- SharedObject` | two tasks with one object read into one buffer, and a callback sees the other's piece |

## 13. Checking

    tlc -config eventbus.cfg MCEventBus.tla
    tlc -config led_serialized.cfg MCLedIndicator.tla    (also led_resurrect)
    tlc -config led_concurrent.cfg MCLedDevices.tla
    tlc -config button_gesture.cfg Button.tla            (also button_debounce8)
    tlc -config wifi.cfg WifiManager.tla
    tlc -config mqtt.cfg MqttClient.tla
    tlc -config button_devices.cfg ButtonDevices.tla
    tlc -config light.cfg Light.tla
    tlc -config application.cfg Application.tla
    tlc -config http.cfg MCHttp.tla
    tlapm EventBusProofs.tla                             (and the other ...Proofs)

`led_resurrect` and `button_debounce8` are expected to report a violation, the others to pass;
none takes more than a few minutes. Type invariants are proved. Definitions commented `(mutant)` are
plausible bugs in the definition they are named after; `PROJECT.json` pairs them with the
property that catches each.

Only model-checked: everything about fairness, as the prover has no rule for it here. Of
most liveness properties the safety that they rest on is proved: `NeverStalled`
(`BlinkGoesOn`), `Accepts` (`LevelAccepted`), `Agreement` (`LossIsNoticed`), `ReadyIsNoted`
(`ReadyFollows`), `Breathed` (`BreathGoesOn`, `DutyRests`).

## 14. Not modelled

ButtonGpio configures and reads a pin; Board reads chip information, prints free memory and
delays: neither keeps state. Left out of the modules above:

* two tasks on the list of LED indicators, which has no lock, and calls on an LED that is
  being deleted: every property would say that callers must not do so;
* callbacks that are registered or cleared during a scan, and a button that is deleted during
  one (section 2);
* two application tasks on one `WifiManager`, `MqttClient` or light, and a listener of
  `WifiManager` that is removed while the event task calls it;
* the guard `MutexLock`, which has no user;
* memory exhaustion, except where a section names it;
* headers, certificates and buffer sizes, which are handed to the libraries as they are, and
  the hardware.
