---------------------------- MODULE ButtonDevices ----------------------------
(***************************************************************************)
(* components/button: the list of buttons in iot_button.c, which a timer    *)
(* scans, and the table of ADC channels in button_adc.c.  One task creates  *)
(* and deletes buttons while the timer's task scans them; what a scan does  *)
(* with the level of a button is in Button.                                 *)
(*                                                                         *)
(* Of a button on an ADC channel only the channel and its index are kept;   *)
(* of a sample, only which channel it was taken from.                       *)
(***************************************************************************)
EXTENDS Integers, FiniteSets

CONSTANTS Buttons, NULL,    \* cells of the heap
          Channels,         \* ADC channels that are used, 0 among them
          Indexes,          \* indices of the buttons on a channel
          MAX_CHANNEL,      \* ADC_BUTTON_MAX_CHANNEL
          CHANNEL_MAX       \* ADC1_CHANNEL_MAX, which is no channel

ASSUME ButtonAssumption == NULL \notin Buttons
ASSUME ChannelAssumption ==
    MAX_CHANNEL \in Nat \ {0} /\ Channels \subseteq Nat /\ CHANNEL_MAX \notin Channels

VARIABLES
    g_head_handle, next,     \* the list
    alive,                   \* cells that are allocated
    device,                  \* of each cell: what its usr_data and type say
    g_is_timer_running,
    timer,                   \* g_button_timer_handle is a timer that runs
    ch,                      \* g_button.ch: the table of channels
    is_configured,
    vol,                     \* the channel that the static vol was sampled from
    target,                  \* the button that the scan is at, or NULL
    api_pc, btn, dev,        \* the call under way, its button and device
    said,                    \* why the last call refused
    leaked,                  \* history: devices whose creation failed in calloc
    held                     \* history: rows that entered the scan with a sample of an
                             \*   earlier one that is taken for new, and still have it

list == <<g_head_handle, next, alive, device, g_is_timer_running, timer>>
adc == <<ch, is_configured>>
call == <<api_pc, btn, dev, said>>
devVars == <<list, adc, vol, target, call, leaked, held>>

Gpio == [channel |-> CHANNEL_MAX, index |-> 0]
Adc == [channel : Channels, index : Indexes]
Slots == 1 .. MAX_CHANNEL

\* A row of a table that calloc or memset has zeroed: it has channel 0.
ZeroRow == [channel |-> 0, is_init |-> FALSE, used |-> {}, fresh |-> FALSE]

\* Every variable has its type; a row in use has a channel.
DevTypeOK ==
    /\ g_head_handle \in Buttons \cup {NULL}
    /\ next \in [Buttons -> Buttons \cup {NULL}]
    /\ alive \subseteq Buttons
    /\ device \in [Buttons -> Adc \cup {Gpio}]
    /\ g_is_timer_running \in BOOLEAN /\ timer \in BOOLEAN /\ is_configured \in BOOLEAN
    /\ ch \in [Slots -> [channel : Channels \cup {0, CHANNEL_MAX}, is_init : BOOLEAN,
                         used : SUBSET Indexes, fresh : BOOLEAN]]
    /\ \A s \in Slots : ch[s].is_init => ch[s].channel \in Channels
    /\ vol \in Channels \cup {CHANNEL_MAX}
    /\ target \in Buttons \cup {NULL}
    /\ api_pc \in {"idle", "link", "unlink"}
    /\ btn \in Buttons \cup {NULL} /\ dev \in Adc \cup {Gpio}
    /\ said \in {"", "used", "exceed", "alloc failed", "deinit failed"}
    /\ leaked \subseteq Adc /\ held \subseteq Slots

DevInit ==
    /\ g_head_handle = NULL /\ next = [b \in Buttons |-> NULL]
    /\ alive = {} /\ device = [b \in Buttons |-> Gpio]
    /\ g_is_timer_running = FALSE /\ timer = FALSE
    /\ ch = [s \in Slots |-> ZeroRow] /\ is_configured = FALSE
    /\ vol = CHANNEL_MAX
    /\ target = NULL
    /\ api_pc = "idle" /\ btn = NULL /\ dev = Gpio /\ said = ""
    /\ leaked = {} /\ held = {}

-----------------------------------------------------------------------------
(* button_adc.c                                                             *)

First(S) == CHOOSE s \in S : \A other \in S : s <= other

\* find_channel does not ask whether the row is in use; find_unused_channel does.
Having(channel) == {s \in Slots : ch[s].channel = channel}
Unused == {s \in Slots : ~ch[s].is_init}

\* button_adc_init in row s, whose voltages are set last.
Use(s, d) ==
    /\ ch' = [ch EXCEPT ![s] = [ch[s] EXCEPT !.channel = d.channel,
                                             !.is_init = TRUE,
                                             !.used = ch[s].used \cup {d.index},
                                             !.fresh = ch[s].is_init /\ ch[s].fresh]]
    /\ is_configured' = TRUE

\* (mutant) A row that is no longer in use is cleared.
Freed_Cleared(s, i) ==
    LET left == ch[s].used \ {i}
        row == IF left = {} THEN ZeroRow ELSE [ch[s] EXCEPT !.used = left]
        table == [ch EXCEPT ![s] = row]
    IN  IF \A t \in Slots : ~table[t].is_init THEN [t \in Slots |-> ZeroRow] ELSE table

\* The table after button_adc_deinit of index i in row s: a row without buttons is free,
\* a table without rows in use is cleared.
Freed(s, i) ==
    LET left == ch[s].used \ {i}
        row == IF left = {} /\ ch[s].is_init
               THEN [ch[s] EXCEPT !.used = {}, !.is_init = FALSE, !.channel = CHANNEL_MAX]
               ELSE [ch[s] EXCEPT !.used = left]
        table == [ch EXCEPT ![s] = row]
    IN  IF is_configured /\ \A t \in Slots : ~table[t].is_init
        THEN [t \in Slots |-> ZeroRow]
        ELSE table

-----------------------------------------------------------------------------
(* The task that creates and deletes buttons                                *)

Return(why) ==
    /\ said' = why
    /\ api_pc' = "idle" /\ btn' = NULL /\ dev' = Gpio

\* The driver has been set up for device d, or refuses it; the list comes next.
Proceed(place, b, d) ==
    /\ said' = ""
    /\ api_pc' = place /\ btn' = b /\ dev' = d

CreateGpio(b) ==
    /\ api_pc = "idle" /\ b \notin alive
    /\ Proceed("link", b, Gpio)
    /\ UNCHANGED <<list, adc, vol, target, leaked, held>>

\* iot_button_create, up to button_adc_init.
CreateAdc(b, d) ==
    /\ api_pc = "idle" /\ b \notin alive
    /\ \/ /\ Having(d.channel) # {}
          /\ LET s == First(Having(d.channel))
             IN  IF d.index \in ch[s].used
                 THEN Return("used") /\ UNCHANGED adc
                 ELSE Proceed("link", b, d) /\ Use(s, d)
       \/ /\ Having(d.channel) = {}
          /\ IF Unused = {}
             THEN Return("exceed") /\ UNCHANGED adc
             ELSE Proceed("link", b, d) /\ Use(First(Unused), d)
    /\ UNCHANGED <<list, vol, target, leaked, held>>

\* button_create_com: the new button goes to the head of the list.  Whether the timer could
\* be created and started is not looked at.
Link ==
    /\ api_pc = "link"
    /\ next' = [next EXCEPT ![btn] = g_head_handle]
    /\ g_head_handle' = btn
    /\ alive' = alive \cup {btn}
    /\ device' = [device EXCEPT ![btn] = dev]
    /\ g_is_timer_running' = TRUE
    /\ IF g_is_timer_running THEN UNCHANGED timer ELSE timer' \in BOOLEAN
    /\ Return("")
    /\ UNCHANGED <<adc, vol, target, leaked, held>>

\* calloc fails, and button_adc_deinit is not called.
AllocFailed ==
    /\ api_pc = "link"
    /\ leaked' = leaked \cup ({dev} \cap Adc)
    /\ Return("alloc failed")
    /\ UNCHANGED <<list, adc, vol, target, held>>

\* iot_button_delete of a button that exists, up to button_adc_deinit.
DeleteCall(b) ==
    /\ api_pc = "idle" /\ b \in alive
    /\ LET d == device[b]
       IN  IF d = Gpio
           THEN Proceed("unlink", b, d) /\ UNCHANGED adc
           ELSE IF Having(d.channel) = {}
           THEN Return("deinit failed") /\ UNCHANGED adc
           ELSE /\ Proceed("unlink", b, d)
                /\ ch' = Freed(First(Having(d.channel)), d.index)
                /\ is_configured' = \E s \in Slots : ch'[s].is_init
    /\ UNCHANGED <<list, vol, target, leaked, held>>

\* (mutant) What follows the button goes with it.
Unlinked_Truncates(b) ==
    [x \in Buttons |-> IF next[x] = b THEN NULL ELSE next[x]]

\* The links after the button has been taken out of them.
Unlinked(b) == [x \in Buttons |-> IF next[x] = b /\ x \in alive THEN next[b] ELSE next[x]]

\* button_delete_com; by an application that does not delete a button during a scan.
Unlink ==
    /\ api_pc = "unlink" /\ target = NULL
    /\ next' = [Unlinked(btn) EXCEPT ![btn] = NULL]
    /\ g_head_handle' = IF g_head_handle = btn THEN next[btn] ELSE g_head_handle
    /\ alive' = alive \ {btn}
    /\ device' = [device EXCEPT ![btn] = Gpio]
    /\ g_is_timer_running' = (g_is_timer_running /\ g_head_handle' # NULL)
    /\ timer' = (timer /\ g_is_timer_running')
    /\ Return("")
    /\ UNCHANGED <<adc, vol, target, leaked, held>>

-----------------------------------------------------------------------------
(* The timer's task                                                         *)

Expired(rows) == [s \in Slots |-> [ch[s] EXCEPT !.fresh = @ /\ s \notin rows]]

\* A period later a sample is older than 1 ms, but a scan that callbacks have held up is
\* followed by the next at once.
ScanStart ==
    /\ timer /\ target = NULL /\ g_head_handle # NULL
    /\ target' = g_head_handle
    /\ \E rows \in SUBSET Slots : ch' = Expired(rows)
    /\ held' = {s \in Slots : ch'[s].fresh}
    /\ UNCHANGED <<list, is_configured, vol, call, leaked>>

ScanNext == target' = next[target]

ScanGpio ==
    /\ target # NULL /\ device[target] = Gpio
    /\ ScanNext
    /\ UNCHANGED <<list, adc, vol, call, leaked, held>>

TakeSample(s, d) ==
    /\ ch' = [ch EXCEPT ![s].fresh = TRUE]
    /\ vol' = d.channel
    /\ held' = held \ {s}

\* (mutant) One time of sampling for all channels.
Sample_Shared(s, d) ==
    IF \E t \in Slots : ch[t].fresh
    THEN UNCHANGED <<ch, vol, held>>
    ELSE TakeSample(s, d)

\* button_adc_get_key_level samples unless the channel was sampled within 1 ms, which
\* may have passed or not.
Sample(s, d) ==
    \/ ch[s].fresh /\ UNCHANGED <<ch, vol, held>>
    \/ TakeSample(s, d)

ScanAdc ==
    /\ target # NULL /\ device[target] # Gpio
    /\ LET d == device[target]
       IN  IF Having(d.channel) = {}
           THEN UNCHANGED <<ch, vol, held>>
           ELSE Sample(First(Having(d.channel)), d)
    /\ ScanNext
    /\ UNCHANGED <<list, is_configured, call, leaked>>

-----------------------------------------------------------------------------
Call ==
    \E b \in Buttons :
        \/ CreateGpio(b) \/ DeleteCall(b)
        \/ \E d \in Adc : CreateAdc(b, d)

CallStep == Link \/ AllocFailed \/ Unlink
DevScan == ScanStart \/ ScanGpio \/ ScanAdc
DevNext == Call \/ CallStep \/ DevScan

DevSpec == DevInit /\ [][DevNext]_devVars

\* The timer goes on.
DevFairSpec == DevSpec /\ WF_devVars(DevScan)

-----------------------------------------------------------------------------
(* Properties                                                               *)

\* Whoever follows the links from a button in S stays in S.
Closed(S) == \A b \in S : next[b] \in S \cup {NULL}

\* The buttons from b on, as far as the links go.
After(b) == {x \in Buttons : \A S \in SUBSET Buttons : b \in S /\ Closed(S) => x \in S}

\* The list holds the buttons that exist, and ends; the flag of the timer says whether
\* there are any, and no timer runs without the flag.
ListHoldsButtons ==
    /\ IF g_head_handle = NULL
       THEN alive = {}
       ELSE After(g_head_handle) = alive /\ \E last \in alive : next[last] = NULL
    /\ api_pc = "idle" => (g_is_timer_running <=> alive # {})
    /\ timer => g_is_timer_running

Owners(d) == {b \in alive : device[b] = d}
UsedBy(d) ==
    {s \in Slots : ch[s].is_init /\ ch[s].channel = d.channel /\ d.index \in ch[s].used}

\* Between calls, the table has an index in use for each ADC button that exists, in the
\* row that find_channel finds, and for no other, unless a creation of it failed late.
TableMatchesButtons ==
    api_pc = "idle" =>
        \A d \in Adc :
            /\ UsedBy(d) # {} <=> Owners(d) # {} \/ d \in leaked
            /\ Cardinality(Owners(d)) <= 1
            /\ \A s \in UsedBy(d) : s = First(Having(d.channel))

\* The buttons of a channel follow each other: no button of another channel is between.
Grouped ==
    \A x \in alive \ Owners(Gpio) :
        \A y \in After(x) \ Owners(Gpio) :
            \A z \in After(y) :
                device[x].channel = device[z].channel => device[y].channel = device[x].channel

\* The scan is at a button of device d, on a channel that has a row, and goes on.
Judges(d) == target # NULL /\ target' # target /\ device[target] = d /\ Having(d.channel) # {}

\* As long as the buttons of a channel follow each other in the list, a level is judged by
\* a sample of the button's own channel, unless that has one from the scan before that is
\* not yet too old.
GroupedIsOwnSample ==
    [][\A d \in Adc : Judges(d) /\ Grouped /\ First(Having(d.channel)) \notin held
            => vol' = d.channel]_devVars

\* Every button that stays is scanned again and again, if the timer runs.
EveryButtonScanned ==
    \A b \in Buttons : <>[](b \in alive /\ timer) => []<>(target = b)

-----------------------------------------------------------------------------
(* What this code does not keep: checked on its own, each is violated        *)

\* A level is judged by a sample of the button's own channel.
OwnSample == [][\A d \in Adc : Judges(d) => vol' = d.channel]_devVars

\* At least if the buttons of a channel follow each other.
OwnSampleIfGrouped == [][\A d \in Adc : Judges(d) /\ Grouped => vol' = d.channel]_devVars

\* g_is_timer_running: the timer runs.
FlagIsTimer == g_is_timer_running => timer

\* "The button_index has been used": of an index that a button has.
UsedIsUsed ==
    [][\A b \in Buttons, d \in Adc :
           CreateAdc(b, d) /\ said' = "used" => Owners(d) # {}]_devVars
=============================================================================
