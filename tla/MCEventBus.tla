---------------------------- MODULE MCEventBus ----------------------------
(* Instances of EventBus for TLC: four events of one name on two levels of    *)
(* urgency, as many as it takes for two tasks to publish while the queue      *)
(* lacks one event of being full and another one is being delivered.          *)
EXTENDS EventBus, TLC

CONSTANTS e1, e2, e3, e4, n1

MCEvents == {e1, e2, e3, e4}
MCNames == {n1}
MCName == [e \in MCEvents |-> n1]
MCPriority == e1 :> -1 @@ e2 :> 3 @@ e3 :> 3 @@ e4 :> 3
=============================================================================
