--------------------------- MODULE MCLedIndicator ---------------------------
(* Instances of LedIndicator for TLC: a blink that loops over ON and OFF     *)
(* (factory_reset), one that runs once (provisioned), one with an extra step *)
(* without hold time.                                                        *)
EXTENDS LedIndicator, TLC

Hold(lit) == [type |-> "HOLD", on |-> lit, timed |-> TRUE]
Pass(lit) == [type |-> "HOLD", on |-> lit, timed |-> FALSE]
EndLoop == [type |-> "LOOP", on |-> FALSE, timed |-> FALSE]
EndStop == [type |-> "STOP", on |-> FALSE, timed |-> FALSE]

FactoryReset == <<Hold(TRUE), Hold(FALSE), EndLoop>>
Connected == <<Hold(TRUE), EndLoop>>
Provisioned == <<Hold(FALSE), EndStop>>
Untimed == <<Pass(TRUE), Hold(FALSE), EndLoop>>

OneShotFirst == 0 :> Provisioned @@ 1 :> FactoryReset
ThreeLists == 0 :> FactoryReset @@ 1 :> Provisioned @@ 2 :> Untimed
=============================================================================
