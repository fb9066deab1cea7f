--------------------------- MODULE EventDelivery ---------------------------
(***************************************************************************)
(* What the event bus promises, without tasks, mutexes or memory.          *)
(*                                                                         *)
(* An accepted event waits in a bounded pool, the bus takes one event at a *)
(* time and always one of the most urgent ones (a smaller Priority is more *)
(* urgent), fixes the set of handlers it goes to from the subscriptions of *)
(* that moment, and offers it once to each of them before the next event   *)
(* is taken.  The bus may also give the event to nobody (the subscription  *)
(* table could not be locked in time): delivery is at most once.           *)
(***************************************************************************)
EXTENDS Naturals, FiniteSets

CONSTANTS Events, Names, Handlers,
          Name,      \* [Events -> Names]: the virtual Event::Name()
          Priority,  \* [Events -> Int]: the virtual Event::Priority()
          Capacity,  \* the most events that wait at a time
          None       \* no event

VARIABLES pending,   \* accepted and not yet taken
          inflight,  \* the event being delivered, or None
          stage,     \* "free" -> "taken" -> "delivering" -> "free"
          todo,      \* the handlers that inflight still has to go to
          subs       \* the handlers subscribed to each name

dvars == <<pending, inflight, stage, todo, subs>>

DInit ==
    /\ pending = {}
    /\ inflight = None
    /\ stage = "free"
    /\ todo = {}
    /\ subs = [n \in Names |-> {}]

Accept(e) ==
    /\ e \notin pending
    /\ e # inflight
    /\ Cardinality(pending) < Capacity
    /\ pending' = pending \cup {e}
    /\ UNCHANGED <<inflight, stage, todo, subs>>

Take(e) ==
    /\ stage = "free"
    /\ e \in pending
    /\ \A f \in pending : Priority[e] <= Priority[f]
    /\ pending' = pending \ {e}
    /\ inflight' = e
    /\ stage' = "taken"
    /\ UNCHANGED <<todo, subs>>

\* The receivers are the subscribers of this very moment, or nobody.
Fix ==
    /\ stage = "taken"
    /\ stage' = "delivering"
    /\ \/ todo' = subs[Name[inflight]]
       \/ todo' = {}
    /\ UNCHANGED <<pending, inflight, subs>>

Deliver(h) ==
    /\ stage = "delivering"
    /\ h \in todo
    /\ todo' = todo \ {h}
    /\ UNCHANGED <<pending, inflight, stage, subs>>

Finish ==
    /\ stage = "delivering"
    /\ todo = {}
    /\ inflight' = None
    /\ stage' = "free"
    /\ UNCHANGED <<pending, todo, subs>>

Subscribed(n, h) ==
    /\ subs' = [subs EXCEPT ![n] = @ \cup {h}]
    /\ UNCHANGED <<pending, inflight, stage, todo>>

Unsubscribed(n, h) ==
    /\ subs' = [subs EXCEPT ![n] = @ \ {h}]
    /\ UNCHANGED <<pending, inflight, stage, todo>>

DNext ==
    \/ \E e \in Events : Accept(e) \/ Take(e)
    \/ Fix
    \/ Finish
    \/ \E h \in Handlers : Deliver(h)
    \/ \E n \in Names, h \in Handlers : Subscribed(n, h) \/ Unsubscribed(n, h)

DSpec == DInit /\ [][DNext]_dvars
=============================================================================
