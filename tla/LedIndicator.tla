---------------------------- MODULE LedIndicator ----------------------------
(***************************************************************************)
(* components/indicator/led_indicator.c: one LED that executes the most     *)
(* urgent of the blinks started on it.  A blink is a list of steps; a hold  *)
(* step sets the LED and arms a one-shot FreeRTOS timer, whose callback     *)
(* goes on with the next step.                                              *)
(*                                                                         *)
(* The caller of led_indicator_start runs the callback function too, and    *)
(* the callback reads active_blink, twice, and p_blink_steps before it      *)
(* takes the mutex.  Each of these reads is therefore a step, and so is     *)
(* each write under the mutex that such a reader can see: of the slot in    *)
(* p_blink_steps, of -1 and of the next blink to active_blink.              *)
(*                                                                         *)
(* Time is not modelled: an armed timer may expire at any moment.           *)
(***************************************************************************)
EXTENDS Integers, Sequences, FiniteSets

CONSTANTS Callers,    \* the tasks that call the API
          Timer,      \* the FreeRTOS timer task
          Nobody,     \* holder of a free mutex
          BlinkMax,   \* BLINK_MAX: blinks are 0 .. BlinkMax - 1, 0 is the most urgent
          BlinkList,  \* led_indicator_blink_lists: a sequence of steps for each
          MaxStep,    \* bound: no step index grows beyond it
          Overlap     \* FALSE: a call or callback starts only when none is under way

Tasks == Callers \cup {Timer}
Blinks == 0 .. BlinkMax - 1
NoBlink == -1                \* NULL_ACTIVE_BLINK
Stop == -1                   \* LED_BLINK_STOP in p_blink_steps

Steps == [type : {"HOLD", "LOOP", "STOP"}, on : BOOLEAN, timed : BOOLEAN]

ASSUME TasksAssumption == Timer \notin Callers /\ Nobody \notin Callers \cup {Timer}
ASSUME ListsAssumption ==
    /\ BlinkMax \in Nat
    /\ \A b \in Blinks : BlinkList[b] \in Seq(Steps) /\ BlinkList[b] # <<>>
ASSUME MaxStepAssumption ==
    MaxStep \in Nat /\ \A b \in Blinks : Len(BlinkList[b]) <= MaxStep
ASSUME ModeAssumption == Overlap \in BOOLEAN

\* A list that is executed ends with LOOP or STOP, and only there.
ASSUME EndsAssumption ==
    \A b \in Blinks : \A i \in 1 .. Len(BlinkList[b]) :
        BlinkList[b][i].type = "HOLD" <=> i < Len(BlinkList[b])

VARIABLES
    active_blink, p_blink_steps, mutex,   \* the fields of _led_indicator_t
    led,                                  \* the level of the gpio: is the LED lit
    armed,                                \* h_timer is running
    pc,                                   \* [Tasks -> where the task is]
    blink_type,                           \* [Tasks -> parameter of start and stop]
    blink, step                           \* [Tasks -> active_blink, active_step of
                                          \*  _blink_list_runner]

object == <<active_blink, p_blink_steps>>
locals == <<blink_type, blink, step>>
vars == <<object, mutex, led, armed, pc, locals>>

Pcs == {"idle", "start_lock", "stop_lock", "switch", "pick", "check",
        "run", "read_active", "read_step", "increment", "take", "act",
        "run_switch", "run_pick"}

\* The task executes _blink_list_runner.
Running(t) ==
    pc[t] \in {"run", "read_active", "read_step", "increment", "take", "act",
              "run_switch", "run_pick"}

\* Every variable has its type.
TypeOK ==
    /\ active_blink \in Blinks \cup {NoBlink}
    /\ p_blink_steps \in [Blinks -> Stop .. MaxStep]
    /\ mutex \in Tasks \cup {Nobody}
    /\ led \in BOOLEAN
    /\ armed \in BOOLEAN
    /\ pc \in [Tasks -> Pcs]
    /\ blink_type \in [Tasks -> Blinks \cup {NoBlink}]
    /\ blink \in [Tasks -> Blinks \cup {NoBlink}]
    /\ step \in [Tasks -> Stop .. MaxStep]

\* After led_indicator_create.
Init ==
    /\ active_blink = NoBlink
    /\ p_blink_steps = [b \in Blinks |-> Stop]
    /\ mutex = Nobody
    /\ led = FALSE
    /\ armed = FALSE
    /\ pc = [t \in Tasks |-> "idle"]
    /\ blink_type = [t \in Tasks |-> NoBlink]
    /\ blink = [t \in Tasks |-> NoBlink]
    /\ step = [t \in Tasks |-> Stop]

-----------------------------------------------------------------------------
Goto(t, label) == pc' = [pc EXCEPT ![t] = label]

At(t, label) == pc[t] = label

MayBegin(t) ==
    /\ pc[t] = "idle"
    /\ Overlap \/ \A u \in Tasks : pc[u] = "idle"

\* (mutant) The loop goes on to the last incomplete blink.
First_NoBreak(steps) ==
    IF \A b \in Blinks : steps[b] = Stop
    THEN NoBlink
    ELSE CHOOSE b \in Blinks :
            steps[b] # Stop /\ \A c \in Blinks : c > b => steps[c] = Stop

\* The result of _blink_list_switch: the first incomplete blink, if any.
First(steps) ==
    IF \A b \in Blinks : steps[b] = Stop
    THEN NoBlink
    ELSE CHOOSE b \in Blinks :
            steps[b] # Stop /\ \A c \in Blinks : c < b => steps[c] = Stop

\* The read of led_indicator_blink_lists[b][i]: outside of the list it is whatever
\* the memory holds.
StepsRead(b, i) ==
    IF b \in Blinks /\ i \in 0 .. Len(BlinkList[b]) - 1
    THEN {BlinkList[b][i + 1]}
    ELSE Steps

-----------------------------------------------------------------------------
(* led_indicator_start and led_indicator_stop                               *)

Call(t, b) ==
    /\ t \in Callers
    /\ MayBegin(t)
    /\ \E label \in {"start_lock", "stop_lock"} : Goto(t, label)
    /\ blink_type' = [blink_type EXCEPT ![t] = b]
    /\ UNCHANGED <<object, mutex, led, armed, blink, step>>

StartLock(t) ==
    /\ At(t, "start_lock")
    /\ mutex = Nobody
    /\ mutex' = t
    /\ p_blink_steps' = [p_blink_steps EXCEPT ![blink_type[t]] = 0]
    /\ Goto(t, "switch")
    /\ UNCHANGED <<active_blink, led, armed, locals>>

\* (mutant) stop does not switch away from the active blink.
StopLock_NoSwitch(t) ==
    /\ At(t, "stop_lock")
    /\ mutex = Nobody
    /\ p_blink_steps' = [p_blink_steps EXCEPT ![blink_type[t]] = Stop]
    /\ Goto(t, "check")
    /\ UNCHANGED <<active_blink, mutex, led, armed, locals>>

\* (mutant) stop rewinds the blink, as start does.
StopLock_Rewinds(t) ==
    /\ At(t, "stop_lock")
    /\ mutex = Nobody
    /\ mutex' = t
    /\ p_blink_steps' = [p_blink_steps EXCEPT ![blink_type[t]] = 0]
    /\ Goto(t, "switch")
    /\ UNCHANGED <<active_blink, led, armed, locals>>

StopLock(t) ==
    /\ At(t, "stop_lock")
    /\ mutex = Nobody
    /\ mutex' = t
    /\ p_blink_steps' = [p_blink_steps EXCEPT ![blink_type[t]] = Stop]
    /\ Goto(t, "switch")
    /\ UNCHANGED <<active_blink, led, armed, locals>>

\* _blink_list_switch: first there is no active blink at all.
Switch(t) ==
    /\ \/ At(t, "switch") /\ Goto(t, "pick")
       \/ At(t, "run_switch") /\ Goto(t, "run_pick")
    /\ active_blink' = NoBlink
    /\ UNCHANGED <<p_blink_steps, mutex, led, armed, locals>>

\* Then the one that is found, if any; the mutex is given back.
Pick(t) ==
    /\ \/ At(t, "pick") /\ Goto(t, "check")
       \/ At(t, "run_pick") /\ Goto(t, "run")
    /\ active_blink' = First(p_blink_steps)
    /\ mutex' = Nobody
    /\ UNCHANGED <<p_blink_steps, led, armed, locals>>

\* Without the mutex: run the callback function when the blink is the active one.
Check(t) ==
    /\ At(t, "check")
    /\ Goto(t, IF active_blink = blink_type[t] THEN "run" ELSE "idle")
    /\ UNCHANGED <<object, mutex, led, armed, locals>>

-----------------------------------------------------------------------------
(* _blink_list_runner, by the timer task or by the caller of start          *)

TimerFire ==
    /\ armed
    /\ MayBegin(Timer)
    /\ armed' = FALSE
    /\ Goto(Timer, "run")
    /\ UNCHANGED <<object, mutex, led, locals>>

FindActive(t) ==
    /\ At(t, "run")
    /\ Goto(t, IF active_blink = NoBlink THEN "idle" ELSE "read_active")
    /\ UNCHANGED <<object, mutex, led, armed, locals>>

\* A second read, which may find no active blink any more.
ReadActive(t) ==
    /\ At(t, "read_active")
    /\ blink' = [blink EXCEPT ![t] = active_blink]
    /\ Goto(t, "read_step")
    /\ UNCHANGED <<object, mutex, led, armed, blink_type, step>>

\* p_blink_steps[b]: whatever the memory holds, if b is NULL_ACTIVE_BLINK.
Slot(b) == IF b \in Blinks THEN {p_blink_steps[b]} ELSE Stop .. MaxStep

\* p_blink_steps[b] = value.  What a write outside of the array destroys is not followed.
Write(b, value) ==
    p_blink_steps' = [c \in Blinks |-> IF c = b THEN value ELSE p_blink_steps[c]]

ReadStep(t) ==
    /\ At(t, "read_step")
    /\ \E value \in Slot(blink[t]) : step' = [step EXCEPT ![t] = value]
    /\ Goto(t, "increment")
    /\ UNCHANGED <<object, mutex, led, armed, blink_type, blink>>

\* += 1 of a value that is in a register or is read once more, not protected.
Increment(t) ==
    /\ At(t, "increment")
    /\ \E old \in {step[t]} \cup Slot(blink[t]) :
          old < MaxStep /\ Write(blink[t], old + 1)
    /\ Goto(t, "take")
    /\ UNCHANGED <<active_blink, mutex, led, armed, locals>>

\* When nobody gives it back, "blockTime expired, try repairing": arm the timer and return.
Take(t) ==
    /\ At(t, "take")
    /\ IF mutex = Nobody
       THEN mutex' = t /\ Goto(t, "act") /\ UNCHANGED armed
       ELSE armed' = TRUE /\ Goto(t, "idle") /\ UNCHANGED mutex
    /\ UNCHANGED <<object, led, locals>>

\* (mutant) LOOP does not rewind.
ActLoop_NoRewind(t) ==
    /\ At(t, "act")
    /\ \E s \in StepsRead(blink[t], step[t]) : s.type = "LOOP"
    /\ mutex' = Nobody
    /\ Goto(t, "run")
    /\ UNCHANGED <<object, led, armed, locals>>

\* (mutant) LOOP leaves, as HOLD does.
ActLoop_Leaves(t) ==
    /\ At(t, "act")
    /\ \E s \in StepsRead(blink[t], step[t]) : s.type = "LOOP"
    /\ Write(blink[t], 0)
    /\ mutex' = Nobody
    /\ Goto(t, "idle")
    /\ UNCHANGED <<active_blink, led, armed, locals>>

ActLoop(t) ==
    /\ At(t, "act")
    /\ \E s \in StepsRead(blink[t], step[t]) : s.type = "LOOP"
    /\ Write(blink[t], 0)
    /\ mutex' = Nobody
    /\ Goto(t, "run")
    /\ UNCHANGED <<active_blink, led, armed, locals>>

ActStop(t) ==
    /\ At(t, "act")
    /\ \E s \in StepsRead(blink[t], step[t]) : s.type = "STOP"
    /\ Write(blink[t], Stop)
    /\ Goto(t, "run_switch")
    /\ UNCHANGED <<active_blink, mutex, led, armed, locals>>

\* Set the LED; with a hold time, arm the timer and leave, else go on.
ActHold(t) ==
    /\ At(t, "act")
    /\ \E s \in StepsRead(blink[t], step[t]) :
          /\ s.type = "HOLD"
          /\ led' = s.on
          /\ armed' = (armed \/ s.timed)
          /\ Goto(t, IF s.timed THEN "idle" ELSE "run")
    /\ mutex' = Nobody
    /\ UNCHANGED <<object, locals>>

-----------------------------------------------------------------------------
\* The steps of a task that is in a call or in the callback.
Continue(t) ==
    \/ StartLock(t) \/ StopLock(t) \/ Switch(t) \/ Pick(t) \/ Check(t)
    \/ FindActive(t) \/ ReadActive(t) \/ ReadStep(t) \/ Increment(t) \/ Take(t)
    \/ ActLoop(t) \/ ActStop(t) \/ ActHold(t)

Next ==
    \/ \E t \in Tasks : Continue(t)
    \/ \E t \in Tasks, b \in Blinks : Call(t, b)
    \/ TimerFire

Spec == Init /\ [][Next]_vars

\* Every task that can run runs, and an armed timer expires when its task is free.
Fairness ==
    /\ \A t \in Tasks : WF_vars(Continue(t))
    /\ WF_vars(TimerFire)

FairSpec == Spec /\ Fairness

-----------------------------------------------------------------------------
(* Properties                                                               *)

Quiet == \A t \in Tasks : pc[t] = "idle"

\* The step that the runner is about to execute is in the list of its blink.
InBounds ==
    \A t \in Tasks : pc[t] = "act" =>
        blink[t] \in Blinks /\ step[t] \in 0 .. Len(BlinkList[blink[t]]) - 1

\* Between calls the active blink is the most urgent of those that were started
\* and have neither ended nor been stopped; there is one if any is left.
ActiveIsFirst ==
    Quiet =>
        \A b \in Blinks : p_blink_steps[b] # Stop => active_blink \in 0 .. b

\* Between calls an active blink has a timer that will go on with it.
NoStall == Quiet /\ active_blink # NoBlink => armed

\* A stopped or finished blink stays so until it is started again.
StopIsFinal ==
    [][\A b \in Blinks :
         p_blink_steps[b] = Stop /\ p_blink_steps'[b] # Stop =>
             \E c \in Callers : pc[c] = "start_lock" /\ blink_type[c] = b]_vars

\* Under any interleaving of calls and callbacks, also when a runner acts on steps that
\* are out of date or writes outside of the array: a blink that is active although it was
\* stopped or has ended is seen only until the holder of the mutex switches away from it.
ActiveIsIncomplete ==
    active_blink # NoBlink /\ p_blink_steps[active_blink] = Stop =>
        \E t \in Tasks : mutex = t /\ pc[t] \in {"switch", "run_switch"}

Shows(b, on) == \E i \in 1 .. Len(BlinkList[b]) :
    BlinkList[b][i].type = "HOLD" /\ BlinkList[b][i].on = on

\* Once the callers are quiet, the blink that stays active goes on: the LED shows
\* each of the two states again and again when the list has both.
BlinkGoesOn ==
    \A b \in Blinks : \A on \in BOOLEAN :
        (Shows(b, on) /\ <>[](active_blink = b /\ \A c \in Callers : pc[c] = "idle"))
            => []<>(led = on)
-----------------------------------------------------------------------------
(* What this code does not keep: checked on its own with overlap, violated   *)

\* The runner uses active_blink as an index only while it is one.
IndexIsBlink ==
    \A t \in Tasks : pc[t] \in {"read_step", "increment"} => blink[t] # NoBlink
=============================================================================
