------------------------------- MODULE Button -------------------------------
(***************************************************************************)
(* components/button/iot_button.c: the state machine of one button, which   *)
(* the esp_timer task runs once in each scan period (button_handler).       *)
(*                                                                         *)
(* A scan is one step: nothing else writes the fields it uses.  Levels are  *)
(* BOOLEAN, TRUE being the active level.  The counters have the widths of   *)
(* button_dev_t, as constants.  All callbacks are registered; what each one *)
(* would read from iot_button_get_event and iot_button_get_repeat is kept   *)
(* in calls.                                                                *)
(***************************************************************************)
EXTENDS Integers, Sequences

CONSTANTS DEBOUNCE_TICKS, SHORT_TICKS, LONG_TICKS,   \* CONFIG_BUTTON_*, in scans
          TicksMod, RepeatMod, DebounceMod,          \* 2^16, 2^8 and 2^3
          MaxHold,      \* bound: no repeated or long press lasts longer, in scans
          MaxPresses    \* bound: no gesture has more presses

ASSUME TicksAssumption ==
    /\ DEBOUNCE_TICKS \in Nat \ {0}
    /\ SHORT_TICKS \in Nat /\ LONG_TICKS \in Nat
ASSUME WidthAssumption ==
    /\ TicksMod \in Nat /\ SHORT_TICKS + 1 < TicksMod /\ LONG_TICKS + 1 < TicksMod
    /\ RepeatMod \in Nat /\ RepeatMod > 2
    /\ DebounceMod \in Nat /\ DebounceMod > 1
ASSUME BoundAssumption == MaxHold \in Nat /\ MaxPresses \in Nat \ {0}

Events == {"PRESS_DOWN", "PRESS_UP", "PRESS_REPEAT", "SINGLE_CLICK", "DOUBLE_CLICK",
           "LONG_PRESS_START", "LONG_PRESS_HOLD", "NONE_PRESS"}

VARIABLES
    raw,                                   \* what hal_button_Level returns
    button_level, debounce_cnt,            \* the fields of button_dev_t
    state, ticks, repeat, event,
    calls,                                 \* the callbacks of the last scan
    presses,                               \* history: presses of the gesture
    recent                                 \* history: the last DEBOUNCE_TICKS levels

debounce == <<button_level, debounce_cnt, recent>>
vars == <<raw, debounce, state, ticks, repeat, event, calls, presses>>

Callbacks == [cb : Events, event : Events, repeat : 0 .. RepeatMod - 1]

\* Every variable has its type.
TypeOK ==
    /\ raw \in BOOLEAN
    /\ button_level \in BOOLEAN
    /\ debounce_cnt \in 0 .. DebounceMod - 1
    /\ state \in {0, 1, 2, 3, 5}
    /\ ticks \in 0 .. TicksMod - 1
    /\ repeat \in 0 .. RepeatMod - 1
    /\ event \in Events
    /\ calls \in Seq(Callbacks)
    /\ presses \in 0 .. MaxPresses
    /\ recent \in Seq(BOOLEAN)

\* After button_create_com.
Init ==
    /\ raw \in BOOLEAN
    /\ button_level = FALSE
    /\ debounce_cnt = 0
    /\ state = 0
    /\ ticks = 0
    /\ repeat = 0
    /\ event = "NONE_PRESS"
    /\ calls = <<>>
    /\ presses = 0
    /\ recent = <<>>

-----------------------------------------------------------------------------
\* ++ of an unsigned field, with that many values.
Increment(n, mod) == IF n + 1 = mod THEN 0 ELSE n + 1

\* The contact moves between two scans, if it does.
Move ==
    /\ raw \/ state = 0 \/ presses < MaxPresses
    /\ raw' = ~raw
    /\ UNCHANGED <<debounce, state, ticks, repeat, event, calls, presses>>

\* The clock that this scan sees.
Now == IF state > 0 THEN Increment(ticks, TicksMod) ELSE ticks

\* (mutant) The count of contrary levels survives a level that is not contrary.
Debounce_NoReset ==
    LET cnt == Increment(debounce_cnt, DebounceMod)
        accepted == raw # button_level /\ cnt >= DEBOUNCE_TICKS
    IN  /\ button_level' = (IF accepted THEN raw ELSE button_level)
        /\ debounce_cnt' = IF accepted THEN 0
                           ELSE IF raw = button_level THEN debounce_cnt ELSE cnt
        /\ recent' = LET r == Append(recent, raw)
                     IN  IF Len(r) > DEBOUNCE_TICKS THEN Tail(r) ELSE r
        /\ UNCHANGED raw

\* (mutant) One contrary level too many is asked for.
Debounce_Strict ==
    LET cnt == Increment(debounce_cnt, DebounceMod)
        accepted == raw # button_level /\ cnt > DEBOUNCE_TICKS
    IN  /\ button_level' = (IF accepted THEN raw ELSE button_level)
        /\ debounce_cnt' = IF raw = button_level \/ accepted THEN 0 ELSE cnt
        /\ recent' = LET r == Append(recent, raw)
                     IN  IF Len(r) > DEBOUNCE_TICKS THEN Tail(r) ELSE r
        /\ UNCHANGED raw

\* Read the level; DEBOUNCE_TICKS contrary ones in a row make it the button's level.
Debounce ==
    LET cnt == Increment(debounce_cnt, DebounceMod)
        accepted == raw # button_level /\ cnt >= DEBOUNCE_TICKS
    IN  /\ button_level' = (IF accepted THEN raw ELSE button_level)
        /\ debounce_cnt' = IF raw = button_level \/ accepted THEN 0 ELSE cnt
        /\ recent' = LET r == Append(recent, raw)
                     IN  IF Len(r) > DEBOUNCE_TICKS THEN Tail(r) ELSE r
        /\ UNCHANGED raw

\* btn->event = ev; CALL_EVENT_CB(ev)
Report(ev) ==
    /\ event' = ev
    /\ calls' = <<[cb |-> ev, event |-> ev, repeat |-> repeat]>>

Silent == calls' = <<>> /\ UNCHANGED event

-----------------------------------------------------------------------------
(* The cases of the switch                                                  *)

\* (mutant) The count of the last gesture goes on.
Press_NoReset ==
    /\ state = 0
    /\ Debounce
    /\ button_level'
    /\ Report("PRESS_DOWN")
    /\ ticks' = 0
    /\ repeat' = Increment(repeat, RepeatMod)
    /\ state' = 1
    /\ presses' = 1

Press ==
    /\ state = 0
    /\ Debounce
    /\ button_level'
    /\ Report("PRESS_DOWN")
    /\ ticks' = 0
    /\ repeat' = 1
    /\ state' = 1
    /\ presses' = 1

Idle ==
    /\ state = 0
    /\ Debounce
    /\ ~button_level'
    /\ event' = "NONE_PRESS"
    /\ calls' = <<>>
    /\ UNCHANGED <<ticks, repeat, state, presses>>

Release ==
    /\ state = 1
    /\ Debounce
    /\ ~button_level'
    /\ Report("PRESS_UP")
    /\ ticks' = 0
    /\ state' = 2
    /\ UNCHANGED <<repeat, presses>>

LongStart ==
    /\ state = 1
    /\ Debounce
    /\ button_level' /\ Now > LONG_TICKS
    /\ Report("LONG_PRESS_START")
    /\ ticks' = Now
    /\ state' = 5
    /\ UNCHANGED <<repeat, presses>>

\* (mutant) The second press is counted after the callbacks.
PressAgain_CountsLate ==
    /\ state = 2
    /\ Debounce
    /\ button_level'
    /\ event' = "PRESS_DOWN"
    /\ repeat' = Increment(repeat, RepeatMod)
    /\ calls' = <<[cb |-> "PRESS_DOWN", event |-> "PRESS_DOWN", repeat |-> repeat],
                  [cb |-> "PRESS_REPEAT", event |-> "PRESS_DOWN", repeat |-> repeat]>>
    /\ ticks' = 0
    /\ state' = 3
    /\ presses' = presses + 1

\* Both callbacks run; the event stays PRESS_DOWN, and the count changes in between.
PressAgain ==
    /\ state = 2
    /\ Debounce
    /\ button_level'
    /\ event' = "PRESS_DOWN"
    /\ repeat' = Increment(repeat, RepeatMod)
    /\ calls' = <<[cb |-> "PRESS_DOWN", event |-> "PRESS_DOWN", repeat |-> repeat],
                  [cb |-> "PRESS_REPEAT", event |-> "PRESS_DOWN", repeat |-> repeat']>>
    /\ ticks' = 0
    /\ state' = 3
    /\ presses' = presses + 1

\* (mutant) The machine stays in state 2.
Click_Stays ==
    /\ state = 2
    /\ Debounce
    /\ ~button_level' /\ Now > SHORT_TICKS
    /\ CASE repeat = 1 -> Report("SINGLE_CLICK")
         [] repeat = 2 -> Report("DOUBLE_CLICK")
         [] OTHER -> Silent
    /\ ticks' = Now
    /\ UNCHANGED <<state, repeat, presses>>

Click ==
    /\ state = 2
    /\ Debounce
    /\ ~button_level' /\ Now > SHORT_TICKS
    /\ CASE repeat = 1 -> Report("SINGLE_CLICK")
         [] repeat = 2 -> Report("DOUBLE_CLICK")
         [] OTHER -> Silent
    /\ ticks' = Now
    /\ state' = 0
    /\ UNCHANGED <<repeat, presses>>

ReleaseAgain ==
    /\ state = 3
    /\ Debounce
    /\ ~button_level'
    /\ Report("PRESS_UP")
    /\ IF Now < SHORT_TICKS
       THEN ticks' = 0 /\ state' = 2
       ELSE ticks' = Now /\ state' = 0
    /\ UNCHANGED <<repeat, presses>>

\* (mutant) The event stays the one of the start.
LongHold_Silent ==
    /\ state = 5
    /\ Debounce
    /\ button_level' /\ (raw => ticks < MaxHold)
    /\ Silent
    /\ ticks' = Now
    /\ UNCHANGED <<state, repeat, presses>>

LongHold ==
    /\ state = 5
    /\ Debounce
    /\ button_level' /\ (raw => ticks < MaxHold)
    /\ Report("LONG_PRESS_HOLD")
    /\ ticks' = Now
    /\ UNCHANGED <<state, repeat, presses>>

LongRelease ==
    /\ state = 5
    /\ Debounce
    /\ ~button_level'
    /\ Report("PRESS_UP")
    /\ ticks' = Now
    /\ state' = 0
    /\ UNCHANGED <<repeat, presses>>

\* The level and the clock give no reason for a transition.
Wait ==
    /\ Debounce
    /\ \/ state = 1 /\ button_level' /\ Now <= LONG_TICKS
       \/ state = 2 /\ ~button_level' /\ Now <= SHORT_TICKS
       \/ state = 3 /\ button_level' /\ (raw => ticks < MaxHold)
    /\ Silent
    /\ ticks' = Now
    /\ UNCHANGED <<state, repeat, presses>>

-----------------------------------------------------------------------------
\* One scan: button_handler.
Scan == \/ Press \/ Idle \/ Release \/ LongStart \/ PressAgain \/ Click
        \/ ReleaseAgain \/ LongHold \/ LongRelease \/ Wait

Next == Move \/ Scan

Spec == Init /\ [][Next]_vars

\* The periodic timer goes on.
FairSpec == Spec /\ WF_vars(Scan)

-----------------------------------------------------------------------------
(* Properties                                                               *)

Phase == CASE state = 0 -> "idle"
           [] state \in {1, 3} -> "down"
           [] state = 2 -> "between"
           [] OTHER -> "long"

Names == [i \in DOMAIN calls |-> calls[i].cb]

Gesture == INSTANCE ButtonGesture
             WITH phase <- Phase, calls <- Names

\* The callbacks come in the order of a gesture, and a click is reported for the
\* number of presses that were made, although the count has eight bits.
GestureRefined == Gesture!Spec

\* A level becomes the button's only when each of the last DEBOUNCE_TICKS scans has
\* read it: contact bounce in between starts the count again.
DebounceHonest ==
    [][button_level' # button_level =>
         /\ Len(recent') = DEBOUNCE_TICKS
         /\ \A i \in 1 .. DEBOUNCE_TICKS : recent'[i] = button_level']_vars

\* iot_button_get_repeat counts the presses of the gesture, in every callback but
\* that of PRESS_DOWN.
CountInCallbacks ==
    \A i \in DOMAIN calls :
        calls[i].cb # "PRESS_DOWN" => calls[i].repeat = presses

\* A contact that stays is noticed.
LevelAccepted == \A l \in BOOLEAN : <>[](raw = l) => <>[](button_level = l)

\* A button that stays up finishes its gesture, whatever came before.
GestureEnds == <>[](~raw) => <>[](state = 0)

\* A button that stays down is reported as held again and again, unless it was
\* pressed again after a short press.
HoldReported ==
    <>[]raw => []<>(event = "LONG_PRESS_HOLD") \/ <>[](state = 3)

-----------------------------------------------------------------------------
(* What this code does not keep: checked on its own, each is violated        *)

\* iot_button_get_repeat counts this press in the callback of PRESS_DOWN.
CountAtPress ==
    \A i \in DOMAIN calls : calls[i].cb = "PRESS_DOWN" => calls[i].repeat = presses
=============================================================================
