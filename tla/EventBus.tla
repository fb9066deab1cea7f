------------------------------ MODULE EventBus ------------------------------
(***************************************************************************)
(* main/core/event/event_bus.cc: a bounded priority queue of heap-allocated *)
(* events, a table of handlers per event name, each behind a FreeRTOS mutex *)
(* that is taken with a timeout, and one task that pops events and calls    *)
(* the handlers.                                                            *)
(*                                                                         *)
(* A task runs at most one call of the API at a time; pc says where in the  *)
(* call it is.  The loop task runs calls too: a handler may publish,        *)
(* subscribe and unsubscribe while it processes an event.  A critical       *)
(* section is one step when it reads and writes in one go; Publish reads    *)
(* the size in one step and pushes in the next.                             *)
(*                                                                         *)
(* Pointers: an Event is a member of Events, standing for its address, so   *)
(* an address that was deleted can be allocated again.  live is the set of  *)
(* addresses that hold an object, held[t] those of which task t is the      *)
(* owner outside of any call.  The bus leaves to its callers (event.h,      *)
(* event_bus.h): they publish what they own, do not touch an event after a  *)
(* Publish that returned true, and do not call into a bus that they         *)
(* destroy.                                                                 *)
(***************************************************************************)
EXTENDS Integers, FiniteSets

CONSTANTS Clients,     \* the tasks that use the bus
          Loop,        \* the task of EventBusLoop
          Events, Names, Handlers,
          Name,        \* [Events -> Names]
          Priority,    \* [Events -> int8_t]
          Capacity,    \* Config::max_event_cout
          None,        \* a null pointer, a free mutex
          CanDestroy   \* FALSE for GlobalEventBus, whose bus is never destroyed

ASSUME TasksAssumption == Loop \notin Clients /\ None \notin Clients \cup {Loop}
ASSUME EventsAssumption ==
    /\ IsFiniteSet(Events)
    /\ None \notin Events
    /\ Name \in [Events -> Names]
    /\ Priority \in [Events -> -128..127]
ASSUME CapacityAssumption == Capacity \in Nat
ASSUME CanDestroyAssumption == CanDestroy \in BOOLEAN

Tasks == Clients \cup {Loop}

VARIABLES
    live, held,               \* the heap, and the events owned by tasks
    event_queue,              \* the pointers in the priority queue
    event_mutex,              \* its holder, or None
    event_handlers,           \* a missing entry of the map is an empty set
    handler_mutex,
    pc,                       \* [Tasks -> where the task is in its API call]
    arg, success,             \* the locals of Publish
    wakeup_sem, exit_sem,     \* binary semaphores, TRUE when given
    exit,                     \* the atomic exit_
    loop,                     \* where the loop task is in EventLoop
    event, handlers,          \* the locals of EventLoop
    dtor                      \* progress of ~EventBusImpl

heap == <<live, held>>
queue == <<event_queue, event_mutex>>
table == <<event_handlers, handler_mutex>>
call == <<pc, arg, success>>
sems == <<wakeup_sem, exit_sem>>
looping == <<loop, event, handlers>>
life == <<exit, dtor>>
vars == <<heap, queue, table, call, sems, looping, life>>

PublishPcs == {"pub_lock", "pub_size", "pub_push", "pub_wake"}
TablePcs == {"sub_lock", "sub_body", "unsub_lock", "unsub_body"}
LoopPcs == {"lock", "take", "lock_handlers", "copy", "process", "in_handler",
            "wait", "check_exit", "done"}

\* Every variable has its type.
TypeOK ==
    /\ live \subseteq Events
    /\ held \in [Tasks -> SUBSET Events]
    /\ event_queue \subseteq Events
    /\ event_mutex \in Tasks \cup {None}
    /\ event_handlers \in [Names -> SUBSET Handlers]
    /\ handler_mutex \in Tasks \cup {None}
    /\ pc \in [Tasks -> {"idle"} \cup PublishPcs \cup TablePcs]
    /\ arg \in [Tasks -> Events \cup {None}]
    /\ success \in [Tasks -> BOOLEAN]
    /\ wakeup_sem \in BOOLEAN
    /\ exit_sem \in BOOLEAN
    /\ exit \in BOOLEAN
    /\ loop \in LoopPcs
    /\ event \in Events \cup {None}
    /\ handlers \subseteq Handlers
    /\ dtor \in {"none", "waiting", "leaked", "undefined"}

Init ==
    /\ live = {}
    /\ held = [t \in Tasks |-> {}]
    /\ event_queue = {}
    /\ event_mutex = None
    /\ event_handlers = [n \in Names |-> {}]
    /\ handler_mutex = None
    /\ pc = [t \in Tasks |-> "idle"]
    /\ arg = [t \in Tasks |-> None]
    /\ success = [t \in Tasks |-> FALSE]
    /\ wakeup_sem = FALSE
    /\ exit_sem = FALSE
    /\ exit = FALSE
    /\ loop = "lock"
    /\ event = None
    /\ handlers = {}
    /\ dtor = "none"

-----------------------------------------------------------------------------
(* Mutex::Lock(ms) and Mutex::Unlock: the timeout can expire whenever        *)
(* another task is the holder.                                              *)

Goto(t, label) == pc' = [pc EXCEPT ![t] = label]

\* A client calls between calls, the loop task from inside a handler.
CanCall(t) ==
    /\ pc[t] = "idle"
    /\ IF t = Loop THEN loop = "in_handler" ELSE dtor = "none"

-----------------------------------------------------------------------------
(* Publish(event): a new event, or one that an earlier call refused.        *)

Obtain(t, e) ==
    \/ e \notin live /\ live' = live \cup {e}
    \/ e \in held[t] /\ UNCHANGED live

PublishCall(t, e) ==
    /\ CanCall(t)
    /\ ~exit
    /\ Obtain(t, e)
    /\ held' = [held EXCEPT ![t] = @ \ {e}]
    /\ Goto(t, "pub_lock")
    /\ arg' = [arg EXCEPT ![t] = e]
    /\ UNCHANGED <<queue, table, success, sems, looping, life>>

\* exit_ is set: the event stays with the caller.
PublishRejected(t, e) ==
    /\ CanCall(t)
    /\ exit
    /\ Obtain(t, e)
    /\ held' = [held EXCEPT ![t] = @ \cup {e}]
    /\ UNCHANGED <<queue, table, call, sems, looping, life>>

PublishLock(t) ==
    /\ pc[t] = "pub_lock"
    /\ event_mutex = None
    /\ event_mutex' = t
    /\ Goto(t, "pub_size")
    /\ UNCHANGED <<heap, event_queue, table, arg, success, sems, looping, life>>

\* (mutant) Publish goes on although Lock returned false.
PublishTimeout_Ignored(t) ==
    /\ pc[t] = "pub_lock"
    /\ event_mutex # None
    /\ Goto(t, "pub_size")
    /\ UNCHANGED <<heap, queue, table, arg, success, sems, looping, life>>

PublishTimeout(t) ==
    /\ pc[t] = "pub_lock"
    /\ event_mutex # None
    /\ Goto(t, "pub_wake")
    /\ UNCHANGED <<heap, queue, table, arg, success, sems, looping, life>>

Full == Cardinality(event_queue) >= Capacity

PublishRoom(t) ==
    /\ pc[t] = "pub_size"
    /\ ~Full
    /\ Goto(t, "pub_push")
    /\ UNCHANGED <<heap, queue, table, arg, success, sems, looping, life>>

PublishFull(t) ==
    /\ pc[t] = "pub_size"
    /\ Full
    /\ event_mutex' = None
    /\ Goto(t, "pub_wake")
    /\ UNCHANGED <<heap, event_queue, table, arg, success, sems, looping, life>>

PublishPush(t) ==
    /\ pc[t] = "pub_push"
    /\ event_queue' = event_queue \cup {arg[t]}
    /\ event_mutex' = None
    /\ success' = [success EXCEPT ![t] = TRUE]
    /\ Goto(t, "pub_wake")
    /\ UNCHANGED <<heap, table, arg, sems, looping, life>>

\* Wakeup() and return success: false gives the event back to the caller.
\* Nothing ever takes wakeup_sem_; the loop finds the event by polling.
PublishReturn(t) ==
    /\ pc[t] = "pub_wake"
    /\ wakeup_sem' = TRUE
    /\ held' = [held EXCEPT ![t] = IF success[t] THEN @ ELSE @ \cup {arg[t]}]
    /\ arg' = [arg EXCEPT ![t] = None]
    /\ success' = [success EXCEPT ![t] = FALSE]
    /\ Goto(t, "idle")
    /\ UNCHANGED <<live, queue, table, exit_sem, looping, life>>

\* The owner of a refused event gives up and deletes it.
Discard(t, e) ==
    /\ CanCall(t)
    /\ e \in held[t]
    /\ held' = [held EXCEPT ![t] = @ \ {e}]
    /\ live' = live \ {e}
    /\ UNCHANGED <<queue, table, call, sems, looping, life>>

-----------------------------------------------------------------------------
(* Subscribe and Unsubscribe.  The arguments are first looked at under the  *)
(* mutex, and are chosen there.                                             *)

TableCall(t) ==
    /\ CanCall(t)
    /\ \E label \in {"sub_lock", "unsub_lock"} : Goto(t, label)
    /\ UNCHANGED <<heap, queue, table, arg, success, sems, looping, life>>

SubscribeLock(t) ==
    /\ pc[t] = "sub_lock"
    /\ handler_mutex = None
    /\ handler_mutex' = t
    /\ Goto(t, "sub_body")
    /\ UNCHANGED <<heap, queue, event_handlers, arg, success, sems, looping, life>>

UnsubscribeLock(t) ==
    /\ pc[t] = "unsub_lock"
    /\ handler_mutex = None
    /\ handler_mutex' = t
    /\ Goto(t, "unsub_body")
    /\ UNCHANGED <<heap, queue, event_handlers, arg, success, sems, looping, life>>

\* The mutex was not obtained: return false.
TableTimeout(t) ==
    /\ pc[t] \in {"sub_lock", "unsub_lock"}
    /\ handler_mutex # None
    /\ Goto(t, "idle")
    /\ UNCHANGED <<heap, queue, table, arg, success, sems, looping, life>>

Subscribe(t, n, h) ==
    /\ pc[t] = "sub_body"
    /\ event_handlers' = [event_handlers EXCEPT ![n] = @ \cup {h}]
    /\ handler_mutex' = None
    /\ Goto(t, "idle")
    /\ UNCHANGED <<heap, queue, arg, success, sems, looping, life>>

Unsubscribe(t, n, h) ==
    /\ pc[t] = "unsub_body"
    /\ event_handlers' = [event_handlers EXCEPT ![n] = @ \ {h}]
    /\ handler_mutex' = None
    /\ Goto(t, "idle")
    /\ UNCHANGED <<heap, queue, arg, success, sems, looping, life>>

-----------------------------------------------------------------------------
(* EventLoop                                                                *)

LoopLock ==
    /\ loop = "lock"
    /\ event_mutex = None
    /\ event_mutex' = Loop
    /\ loop' = "take"
    /\ UNCHANGED <<heap, event_queue, table, call, sems, event, handlers, life>>

\* No event and no wait: straight to the test of exit_.
LoopLockTimeout ==
    /\ loop = "lock"
    /\ event_mutex # None
    /\ loop' = "check_exit"
    /\ UNCHANGED <<heap, queue, table, call, sems, event, handlers, life>>

\* (mutant) The comparison of EventCmp the other way round.
MostUrgent_Reversed(e) == \A f \in event_queue : Priority[e] >= Priority[f]

\* EventCmp puts the smallest Priority() on top; the heap decides among equals.
MostUrgent(e) == \A f \in event_queue : Priority[e] <= Priority[f]

LoopTake(e) ==
    /\ loop = "take"
    /\ e \in event_queue
    /\ MostUrgent(e)
    /\ event_queue' = event_queue \ {e}
    /\ event_mutex' = None
    /\ event' = e
    /\ loop' = "lock_handlers"
    /\ UNCHANGED <<heap, table, call, sems, handlers, life>>

LoopEmpty ==
    /\ loop = "take"
    /\ event_queue = {}
    /\ event_mutex' = None
    /\ loop' = "wait"
    /\ UNCHANGED <<heap, event_queue, table, call, sems, event, handlers, life>>

LoopLockHandlers ==
    /\ loop = "lock_handlers"
    /\ handler_mutex = None
    /\ handler_mutex' = Loop
    /\ loop' = "copy"
    /\ UNCHANGED <<heap, queue, event_handlers, call, sems, event, handlers, life>>

\* "drop event": the local set of handlers stays empty.
LoopDrop ==
    /\ loop = "lock_handlers"
    /\ handler_mutex # None
    /\ loop' = "process"
    /\ UNCHANGED <<heap, queue, table, call, sems, event, handlers, life>>

LoopCopy ==
    /\ loop = "copy"
    /\ handlers' = event_handlers[Name[event]]
    /\ handler_mutex' = None
    /\ loop' = "process"
    /\ UNCHANGED <<heap, queue, event_handlers, call, sems, event, life>>

\* The set iterates by address, which is any order of the handlers.
LoopProcess(h) ==
    /\ loop = "process"
    /\ h \in handlers
    /\ handlers' = handlers \ {h}
    /\ loop' = "in_handler"
    /\ UNCHANGED <<heap, queue, table, call, sems, event, life>>

HandlerReturn ==
    /\ loop = "in_handler"
    /\ pc[Loop] = "idle"
    /\ loop' = "process"
    /\ UNCHANGED <<heap, queue, table, call, sems, event, handlers, life>>

\* (mutant) The event is not deleted when nobody subscribed to its name.
LoopDelete_OnlyIfHandled ==
    /\ loop = "process"
    /\ handlers = {}
    /\ live' = IF event_handlers[Name[event]] = {} THEN live ELSE live \ {event}
    /\ event' = None
    /\ loop' = "check_exit"
    /\ UNCHANGED <<held, queue, table, call, sems, handlers, life>>

LoopDelete ==
    /\ loop = "process"
    /\ handlers = {}
    /\ live' = live \ {event}
    /\ event' = None
    /\ loop' = "check_exit"
    /\ UNCHANGED <<held, queue, table, call, sems, handlers, life>>

\* (mutant) The wait has no timeout.
LoopWait_Forever ==
    /\ loop = "wait"
    /\ exit_sem
    /\ exit_sem' = FALSE
    /\ loop' = "check_exit"
    /\ UNCHANGED <<heap, queue, table, call, wakeup_sem, event, handlers, life>>

\* 50 ms on exit_sem_: taken, or timed out; the result is not looked at.
LoopWait ==
    /\ loop = "wait"
    /\ exit_sem' = FALSE
    /\ loop' = "check_exit"
    /\ UNCHANGED <<heap, queue, table, call, wakeup_sem, event, handlers, life>>

LoopAgain ==
    /\ loop = "check_exit"
    /\ ~exit
    /\ loop' = "lock"
    /\ UNCHANGED <<heap, queue, table, call, sems, event, handlers, life>>

\* (mutant) The loop leaves without giving exit_sem_.
LoopExit_NoGive ==
    /\ loop = "check_exit"
    /\ exit
    /\ loop' = "done"
    /\ UNCHANGED <<heap, queue, table, call, sems, event, handlers, life>>

LoopExit ==
    /\ loop = "check_exit"
    /\ exit
    /\ exit_sem' = TRUE
    /\ loop' = "done"
    /\ UNCHANGED <<heap, queue, table, call, wakeup_sem, event, handlers, life>>

-----------------------------------------------------------------------------
(* ~EventBusImpl, by a client while no client is in a call.                 *)

DestroyBegin ==
    /\ CanDestroy
    /\ dtor = "none"
    /\ \A c \in Clients : pc[c] = "idle"
    /\ exit' = TRUE
    /\ dtor' = "waiting"
    /\ UNCHANGED <<heap, queue, table, call, sems, looping>>

\* (mutant) The destructor waits for a limited time only.
DestroyFinish_Impatient ==
    /\ dtor = "waiting"
    /\ exit_sem' = FALSE
    /\ wakeup_sem' = TRUE
    /\ dtor' = IF event_queue = {} THEN "undefined" ELSE "leaked"
    /\ UNCHANGED <<heap, queue, table, call, looping, exit>>

\* exit_sem_ was given.  The loop that should delete what is left runs while
\* the queue is EMPTY: it leaves a non-empty queue alone, and calls top() and
\* pop() on an empty one, which is undefined.
DestroyFinish ==
    /\ dtor = "waiting"
    /\ exit_sem
    /\ exit_sem' = FALSE
    /\ wakeup_sem' = TRUE
    /\ dtor' = IF event_queue = {} THEN "undefined" ELSE "leaked"
    /\ UNCHANGED <<heap, queue, table, call, looping, exit>>

-----------------------------------------------------------------------------
\* The steps that a task in a call takes to get out of it.
CallStep(t) ==
    \/ PublishLock(t) \/ PublishTimeout(t) \/ PublishRoom(t) \/ PublishFull(t)
    \/ PublishPush(t) \/ PublishReturn(t)
    \/ SubscribeLock(t) \/ UnsubscribeLock(t) \/ TableTimeout(t)
    \/ \E n \in Names, h \in Handlers : Subscribe(t, n, h) \/ Unsubscribe(t, n, h)

StartCall(t) ==
    \/ \E e \in Events : PublishCall(t, e) \/ PublishRejected(t, e) \/ Discard(t, e)
    \/ TableCall(t)

LoopStep ==
    \/ LoopLock \/ LoopLockTimeout
    \/ \E e \in Events : LoopTake(e)
    \/ LoopEmpty \/ LoopLockHandlers \/ LoopDrop \/ LoopCopy
    \/ \E h \in Handlers : LoopProcess(h)
    \/ LoopDelete \/ LoopWait \/ LoopAgain \/ LoopExit

Next ==
    \/ \E t \in Tasks : StartCall(t) \/ CallStep(t)
    \/ LoopStep
    \/ HandlerReturn
    \/ DestroyBegin
    \/ DestroyFinish

Spec == Init /\ [][Next]_vars

(***************************************************************************)
(* Every task that can run runs, and a wait for a mutex is bounded by its  *)
(* timeout: weak fairness ends every call.  A holder needs a few           *)
(* instructions and the timeout is 1000 ms, so the loop does not run into  *)
(* it every time from some point on (the last conjunct).  Strong fairness: *)
(* a handler returns although it may make any number of calls before.      *)
(***************************************************************************)
Fairness ==
    /\ \A t \in Tasks : WF_vars(CallStep(t))
    /\ WF_vars(LoopStep)
    /\ SF_vars(HandlerReturn)
    /\ WF_vars(DestroyFinish)
    /\ []<><<LoopLock>>_vars \/ <>[][~LoopLockTimeout]_vars

FairSpec == Spec /\ Fairness

-----------------------------------------------------------------------------
(* Safety                                                                   *)

\* The size that Publish reads is still right when it pushes, so the queue never
\* exceeds max_event_cout: two tasks that publish at once do not both get the last place.
QueueBounded == Cardinality(event_queue) <= Capacity

\* Publish(event) is on its way to return false, or has not pushed yet.
NotAccepted(t) ==
    \/ pc[t] \in {"pub_lock", "pub_size", "pub_push"}
    \/ pc[t] = "pub_wake" /\ ~success[t]

\* The events that task t has to delete or to publish again.
Owns(t) == held[t] \cup (IF NotAccepted(t) THEN {arg[t]} ELSE {})

\* Every object on the heap has exactly one owner, a task, the queue or the
\* loop, and no owner refers to a deleted object: no event is lost, deleted
\* twice or processed after its deletion, and the result of Publish says
\* whether the caller is still the owner.
Ownership ==
    /\ \A t \in Tasks :
          /\ Owns(t) \cap event_queue = {}
          /\ event \notin Owns(t)
          /\ NotAccepted(t) => arg[t] \notin held[t]
          /\ \A u \in Tasks \ {t} : Owns(t) \cap Owns(u) = {}
    /\ event \notin event_queue
    /\ live = event_queue \cup ({event} \ {None}) \cup UNION {Owns(t) : t \in Tasks}

\* The mutexes are not recursive: a handler that publishes or subscribes does
\* not find its own task holding one.
HandlersRunUnlocked ==
    loop = "in_handler" /\ pc[Loop] = "idle" =>
        event_mutex # Loop /\ handler_mutex # Loop

\* When the destructor has its semaphore and frees the object, the loop is past
\* its last use of it, no event is half delivered and no call is under way.
HandshakeSafe ==
    dtor \in {"leaked", "undefined"} =>
        /\ loop = "done"
        /\ event = None /\ handlers = {}
        /\ \A t \in Tasks : pc[t] = "idle"
        /\ event_mutex = None /\ handler_mutex = None

-----------------------------------------------------------------------------
(* Implementation of EventDelivery                                          *)

Delivery == INSTANCE EventDelivery WITH
    pending  <- event_queue,
    inflight <- event,
    stage    <- IF event = None THEN "free"
                ELSE IF loop \in {"lock_handlers", "copy"} THEN "taken"
                ELSE "delivering",
    todo     <- handlers,
    subs     <- event_handlers

\* Seen from outside, locks, timeouts, refused calls, re-entrant handlers and the
\* shutdown are steps of EventDelivery or no step: one event at a time, a most
\* urgent one first, at most once to each of the handlers subscribed when the
\* loop looks, none after it was unsubscribed at that point.
DeliveryRefined == Delivery!DSpec

-----------------------------------------------------------------------------
(* Liveness                                                                 *)

\* An accepted event stays in the queue for ever only if events that are as
\* urgent keep coming: polling makes up for the wakeup nobody waits for, and no
\* lost unlock stops the loop.
EventuallyServed ==
    \A e \in Events :
        \/ <>exit
        \/ []<>(e \notin event_queue)
        \/ []<>(\E f \in event_queue \ {e} : Priority[f] <= Priority[e])

\* ~EventBus does not hang: the loop sees exit_ whatever it is doing, with a
\* full queue and with handlers that keep publishing.
DestructorReturns == dtor = "waiting" ~> dtor \in {"leaked", "undefined"}
=============================================================================
