---------------------------- MODULE ButtonGesture ----------------------------
(***************************************************************************)
(* What a button promises to its callbacks: the order of the callbacks in a *)
(* gesture, and which click a number of presses is.  No levels, no time, no *)
(* width of any counter; when a press or a pause is long is left open.      *)
(***************************************************************************)
EXTENDS Naturals, Sequences

VARIABLES phase,     \* "idle", "down", "long", "between" two presses
          presses,   \* presses of this gesture, or of the last one
          calls      \* the callbacks of the last scan

vars == <<phase, presses, calls>>

Init == phase = "idle" /\ presses = 0 /\ calls = <<>>

Press ==
    /\ phase = "idle"
    /\ phase' = "down"
    /\ presses' = 1
    /\ calls' = <<"PRESS_DOWN">>

PressAgain ==
    /\ phase = "between"
    /\ phase' = "down"
    /\ presses' = presses + 1
    /\ calls' = <<"PRESS_DOWN", "PRESS_REPEAT">>

\* A repeated press that was too long ends the gesture without a click.
Release ==
    /\ phase = "down"
    /\ phase' = "between" \/ (presses > 1 /\ phase' = "idle")
    /\ calls' = <<"PRESS_UP">>
    /\ UNCHANGED presses

Click ==
    /\ phase = "between"
    /\ phase' = "idle"
    /\ calls' = CASE presses = 1 -> <<"SINGLE_CLICK">>
                  [] presses = 2 -> <<"DOUBLE_CLICK">>
                  [] OTHER -> <<>>
    /\ UNCHANGED presses

\* Only the first press can become a long one.
LongStart ==
    /\ phase = "down" /\ presses = 1
    /\ phase' = "long"
    /\ calls' = <<"LONG_PRESS_START">>
    /\ UNCHANGED presses

LongHold ==
    /\ phase = "long"
    /\ calls' = <<"LONG_PRESS_HOLD">>
    /\ UNCHANGED <<phase, presses>>

LongRelease ==
    /\ phase = "long"
    /\ phase' = "idle"
    /\ calls' = <<"PRESS_UP">>
    /\ UNCHANGED presses

\* A scan without a callback.
Nothing ==
    /\ phase # "long"
    /\ calls' = <<>>
    /\ UNCHANGED <<phase, presses>>

Next == \/ Press \/ PressAgain \/ Release \/ Click
        \/ LongStart \/ LongHold \/ LongRelease \/ Nothing

Spec == Init /\ [][Next]_vars
=============================================================================
