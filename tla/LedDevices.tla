----------------------------- MODULE LedDevices -----------------------------
(***************************************************************************)
(* The life of one LED: led_indicator_create with every allocation failing  *)
(* or not, the handle that the wrapper LedIndicator keeps and tests before  *)
(* each call, the list in which led_indicator_get_handle looks it up, and   *)
(* led_indicator_delete step by step.  What the calls and the timer do to   *)
(* the blinks in between is LedIndicator.                                   *)
(*                                                                         *)
(* A creation that failed may be tried again; a deleted LED stays deleted.  *)
(* The LED is in GPIO mode: the wrapper's PWM leaves the configuration 0,   *)
(* which is LED_GPIO_MODE too.                                              *)
(***************************************************************************)
EXTENDS LedIndicator

VARIABLES
    parts,     \* what exists of the LED
    handle,    \* the owner holds a handle that is not null
    listed,    \* s_led_indicator_slist_head has a node for it
    deletion   \* where led_indicator_delete is, if it is called

device == <<parts, handle, listed, deletion>>
devVars == <<vars, device>>

\* In the order in which led_indicator_create makes them.
Order == <<"object", "steps", "mutex", "gpio", "timer">>
Memory == {"object", "steps", "mutex"}

DevInit ==
    /\ Init
    /\ parts = {}
    /\ handle = FALSE
    /\ listed = FALSE
    /\ deletion = "none"

freed == deletion = "done"

\* ~LedIndicator has returned.
Gone == deletion \in {"done", "failed"}

-----------------------------------------------------------------------------
(* led_indicator_create                                                     *)

\* (mutant) The failures behind the mutex go to the label before theirs.
Cleanup_WrongLabel(i) == {Order[j] : j \in 1 .. IF i <= 3 THEN i - 1 ELSE 2}

\* What is freed when the i-th part cannot be made, by the label that is jumped to:
\* cleanup_indicator, cleanup_indicator_blinkstep and, for the last two, cleanup_all,
\* which leaves the pin configured.
Cleanup(i) == {Order[j] : j \in 1 .. IF i <= 3 THEN i - 1 ELSE 3}

CreateFails ==
    /\ ~handle /\ ~Gone
    /\ \E i \in DOMAIN Order :
          parts' = (parts \cup {Order[j] : j \in 1 .. i - 1}) \ Cleanup(i)
    /\ UNCHANGED <<vars, handle, listed, deletion>>

\* _led_indicator_add_node, which may find no memory for the node.
AddNode == listed' \in BOOLEAN

\* What add_node returns is ignored.
Create ==
    /\ ~handle /\ ~Gone
    /\ parts' = {Order[j] : j \in DOMAIN Order}
    /\ handle' = TRUE
    /\ AddNode
    /\ UNCHANGED <<vars, deletion>>

-----------------------------------------------------------------------------
(* ~LedIndicator and led_indicator_delete, while no caller is in a call     *)

DeleteCall ==
    /\ handle /\ deletion = "none"
    /\ \A t \in Callers : pc[t] = "idle"
    /\ deletion' = "lock"
    /\ UNCHANGED <<vars, parts, handle, listed>>

DeleteLock ==
    /\ deletion = "lock"
    /\ mutex = Nobody
    /\ mutex' \in Callers
    /\ deletion' = "free"
    /\ UNCHANGED <<object, led, armed, pc, locals, parts, handle, listed>>

\* _led_gpio_deinit
Reset == parts \ {"gpio"}

\* The pin is not reset, or the timer not deleted.  A failure returns with the mutex, and
\* ~LedIndicator does not look at it: the handle goes with the wrapper.
DeleteFails ==
    /\ deletion = "free"
    /\ "timer" \in parts
    /\ parts' \in {parts, Reset}
    /\ handle' = FALSE
    /\ deletion' = "failed"
    /\ UNCHANGED <<vars, listed>>

\* Reset the pin; xTimerDelete posts a command to the timer task and does not wait for it.
DeleteTimer ==
    /\ deletion = "free"
    /\ "timer" \in parts
    /\ parts' = Reset \ {"timer"}
    /\ UNCHANGED <<vars, handle, listed, deletion>>

RemoveNode == listed' = FALSE

\* Remove the node, free the rest, with the mutex taken, and clear the handle.
DeleteRest ==
    /\ deletion = "free"
    /\ "timer" \notin parts
    /\ parts' = {}
    /\ handle' = FALSE
    /\ RemoveNode
    /\ deletion' = "done"
    /\ UNCHANGED vars

\* The timer task comes to the command, before the object is freed or after.  A start that
\* a callback sent behind it is not followed.
TimerGone ==
    /\ "timer" \notin parts
    /\ pc[Timer] = "idle"
    /\ armed
    /\ armed' = FALSE
    /\ UNCHANGED <<object, mutex, led, pc, locals, device>>

-----------------------------------------------------------------------------
\* The calls of the wrapper, which return at once without a handle.  Nothing keeps a
\* call from an LED that another caller is deleting: the callers see to that.
Use ==
    /\ handle /\ deletion = "none"
    /\ \E t \in Callers, b \in Blinks : Call(t, b)
    /\ UNCHANGED device

\* What is under way.  What a task does with freed memory is not followed.
Proceed ==
    /\ \/ ~freed /\ \E t \in Tasks : Continue(t)
       \/ TimerFire
    /\ UNCHANGED device

DevNext ==
    \/ Create \/ CreateFails
    \/ Use \/ Proceed
    \/ DeleteCall \/ DeleteLock \/ DeleteFails \/ DeleteTimer \/ DeleteRest
    \/ TimerGone

DevSpec == DevInit /\ [][DevNext]_devVars

-----------------------------------------------------------------------------
(* Properties                                                               *)

\* Whatever failed in between, the memory of an LED is all there or all gone.  It has its
\* three parts while somebody has a handle, is in a call or deletes it, and also when the
\* deletion failed, after which the timer goes on to use them.  Otherwise nothing of it is
\* left, nor does the list name it.
AllOrNothing ==
    IF handle \/ (\E t \in Callers : pc[t] # "idle") \/ deletion \in {"lock", "free", "failed"}
    THEN Memory \subseteq parts
    ELSE parts \cap Memory = {} /\ ~listed

-----------------------------------------------------------------------------
(* What this code does not keep: checked on its own, each is violated        *)

\* Nobody uses the object after led_indicator_delete freed it.
NoUseAfterFree == freed => \A t \in Tasks : ~Running(t)

\* An LED with a handle can be found by its pin.
HandleIsFound == handle => listed

\* Between calls the mutex is free: a deletion that failed gave it back.
MutexIsGivenBack == Quiet /\ deletion \in {"none", "failed"} => mutex = Nobody

\* Without an owner there is no memory: a deletion that failed did not leak it.
NothingLeaks == ~handle => parts \cap Memory = {}

\* An LED that could not be created leaves its pin alone.
PinIsReset == ~handle /\ deletion = "none" => parts = {}
=============================================================================
