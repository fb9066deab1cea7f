--------------------------- MODULE EventBusProofs ---------------------------
(***************************************************************************)
(* Proofs about EventBus, for any number of tasks, events, names and        *)
(* handlers and any capacity.                                               *)
(*                                                                         *)
(* The inductive invariant is built in layers, each proved with the help of *)
(* the ones before: Control (who is where and holds which mutex), Room (the *)
(* size test stays valid up to the push), Owners (one owner per event), and *)
(* Lifetime (what the destructor may rely on).                              *)
(***************************************************************************)
EXTENDS EventBus, FiniteSetTheorems, TLAPS

InPublish(t) == pc[t] \in {"pub_size", "pub_push"}
InTable(t) == pc[t] \in {"sub_body", "unsub_body"}
HasEvent == loop \in {"lock_handlers", "copy", "process", "in_handler"}

\* A mutex is held by the one task that is inside its critical section; only a
\* handler makes calls on the loop task; the loop has an event from take to delete.
Control ==
    /\ TypeOK
    /\ \A t \in Tasks :
          /\ event_mutex = t <=> (InPublish(t) \/ (t = Loop /\ loop = "take"))
          /\ handler_mutex = t <=> (InTable(t) \/ (t = Loop /\ loop = "copy"))
          /\ pc[t] \in PublishPcs => arg[t] \in Events
          /\ success[t] => pc[t] = "pub_wake"
    /\ pc[Loop] # "idle" => loop = "in_handler"
    /\ event # None <=> HasEvent
    /\ handlers # {} => loop \in {"process", "in_handler"}

LEMMA ControlInit == Init => Control
<1> SUFFICES ASSUME Init PROVE Control
  OBVIOUS
<1> USE TasksAssumption, EventsAssumption DEF Init, Tasks
<1>1. TypeOK
  BY DEF TypeOK, LoopPcs
<1>2. QED
  BY <1>1 DEF Control, InPublish, InTable, HasEvent, PublishPcs

LEMMA ControlStep == Control /\ [Next]_vars => Control'
<1> SUFFICES ASSUME Control, [Next]_vars PROVE Control'
  OBVIOUS
<1> USE TasksAssumption, EventsAssumption, CanDestroyAssumption
    DEF Control, TypeOK, Tasks, PublishPcs, TablePcs, LoopPcs, InPublish, InTable,
        HasEvent, Goto, heap, queue, table, call, sems, looping, life
<1>1. ASSUME NEW t \in Tasks, NEW e \in Events, PublishCall(t, e) PROVE Control'
  BY <1>1 DEF PublishCall, CanCall, Obtain
<1>2. ASSUME NEW t \in Tasks, NEW e \in Events, PublishRejected(t, e) PROVE Control'
  BY <1>2 DEF PublishRejected, CanCall, Obtain
<1>3. ASSUME NEW t \in Tasks, NEW e \in Events, Discard(t, e) PROVE Control'
  BY <1>3 DEF Discard, CanCall
<1>4. ASSUME NEW t \in Tasks, TableCall(t) PROVE Control'
  BY <1>4 DEF TableCall, CanCall
<1>5. ASSUME NEW t \in Tasks, PublishLock(t) PROVE Control'
  BY <1>5 DEF PublishLock
<1>6. ASSUME NEW t \in Tasks, PublishTimeout(t) PROVE Control'
  BY <1>6 DEF PublishTimeout
<1>7. ASSUME NEW t \in Tasks, PublishRoom(t) PROVE Control'
  BY <1>7 DEF PublishRoom
<1>8. ASSUME NEW t \in Tasks, PublishFull(t) PROVE Control'
  BY <1>8 DEF PublishFull
<1>9. ASSUME NEW t \in Tasks, PublishPush(t) PROVE Control'
  BY <1>9 DEF PublishPush
<1>10. ASSUME NEW t \in Tasks, PublishReturn(t) PROVE Control'
  BY <1>10 DEF PublishReturn
<1>11. ASSUME NEW t \in Tasks, SubscribeLock(t) PROVE Control'
  BY <1>11 DEF SubscribeLock
<1>12. ASSUME NEW t \in Tasks, UnsubscribeLock(t) PROVE Control'
  BY <1>12 DEF UnsubscribeLock
<1>13. ASSUME NEW t \in Tasks, TableTimeout(t) PROVE Control'
  BY <1>13 DEF TableTimeout
<1>14. ASSUME NEW t \in Tasks, NEW n \in Names, NEW h \in Handlers, Subscribe(t, n, h)
       PROVE  Control'
  BY <1>14 DEF Subscribe
<1>15. ASSUME NEW t \in Tasks, NEW n \in Names, NEW h \in Handlers, Unsubscribe(t, n, h)
       PROVE  Control'
  BY <1>15 DEF Unsubscribe
<1>16. CASE LoopLock
  BY <1>16 DEF LoopLock
<1>17. CASE LoopLockTimeout
  BY <1>17 DEF LoopLockTimeout
<1>18. ASSUME NEW e \in Events, LoopTake(e) PROVE Control'
  BY <1>18 DEF LoopTake
<1>19. CASE LoopEmpty
  BY <1>19 DEF LoopEmpty
<1>20. CASE LoopLockHandlers
  BY <1>20 DEF LoopLockHandlers
<1>21. CASE LoopDrop
  BY <1>21 DEF LoopDrop
<1>22. CASE LoopCopy
  BY <1>22 DEF LoopCopy
<1>23. ASSUME NEW h \in Handlers, LoopProcess(h) PROVE Control'
  BY <1>23 DEF LoopProcess
<1>24. CASE LoopDelete
  BY <1>24 DEF LoopDelete
<1>25. CASE LoopWait
  BY <1>25 DEF LoopWait
<1>26. CASE LoopAgain
  BY <1>26 DEF LoopAgain
<1>27. CASE LoopExit
  BY <1>27 DEF LoopExit
<1>28. CASE HandlerReturn
  BY <1>28 DEF HandlerReturn
<1>29. CASE DestroyBegin
  BY <1>29 DEF DestroyBegin
<1>30. CASE DestroyFinish
  BY <1>30 DEF DestroyFinish
<1>31. CASE UNCHANGED vars
  BY <1>31 DEF vars
<1>32. QED
  BY <1>1, <1>2, <1>3, <1>4, <1>5, <1>6, <1>7, <1>8, <1>9, <1>10, <1>11, <1>12,
     <1>13, <1>14, <1>15, <1>16, <1>17, <1>18, <1>19, <1>20, <1>21, <1>22, <1>23,
     <1>24, <1>25, <1>26, <1>27, <1>28, <1>29, <1>30, <1>31
     DEF Next, StartCall, CallStep, LoopStep

-----------------------------------------------------------------------------
(* The size that Publish has read is still below the capacity when it pushes: *)
(* nobody else is inside the critical section, and the loop only takes away.  *)

Room ==
    /\ QueueBounded
    /\ \A t \in Tasks : pc[t] = "pub_push" => ~Full

LEMMA QueueCardinality ==
    ASSUME TypeOK
    PROVE  IsFiniteSet(event_queue) /\ Cardinality(event_queue) \in Nat
BY EventsAssumption, FS_Subset, FS_CardinalityType DEF TypeOK

LEMMA RoomInit == Init => Room
BY FS_EmptySet, CapacityAssumption DEF Init, Room, QueueBounded, Full

LEMMA RoomStep == Control /\ Room /\ [Next]_vars => Room'
<1> SUFFICES ASSUME Control, Room, [Next]_vars PROVE Room'
  OBVIOUS
<1> DEFINE Size == Cardinality(event_queue)
<1>a. IsFiniteSet(event_queue) /\ Size \in Nat
  BY QueueCardinality DEF Control
<1> USE TasksAssumption, EventsAssumption, CapacityAssumption, CanDestroyAssumption
    DEF Control, TypeOK, Room, QueueBounded, Full, Tasks, PublishPcs, TablePcs,
        InPublish, Goto, heap, queue, table, call, sems, looping, life
<1>1. ASSUME NEW t \in Tasks, NEW e \in Events, PublishCall(t, e) PROVE Room'
  BY <1>1 DEF PublishCall, CanCall, Obtain
<1>2. ASSUME NEW t \in Tasks, NEW e \in Events, PublishRejected(t, e) PROVE Room'
  BY <1>2 DEF PublishRejected, CanCall, Obtain
<1>3. ASSUME NEW t \in Tasks, NEW e \in Events, Discard(t, e) PROVE Room'
  BY <1>3 DEF Discard, CanCall
<1>4. ASSUME NEW t \in Tasks, TableCall(t) PROVE Room'
  BY <1>4 DEF TableCall, CanCall
<1>5. ASSUME NEW t \in Tasks, PublishLock(t) PROVE Room'
  BY <1>5 DEF PublishLock
<1>6. ASSUME NEW t \in Tasks, PublishTimeout(t) PROVE Room'
  BY <1>6 DEF PublishTimeout
<1>7. ASSUME NEW t \in Tasks, PublishRoom(t) PROVE Room'
  BY <1>7 DEF PublishRoom
<1>8. ASSUME NEW t \in Tasks, PublishFull(t) PROVE Room'
  BY <1>8 DEF PublishFull
<1>9. ASSUME NEW t \in Tasks, PublishPush(t) PROVE Room'
  <2>1. event_queue' = event_queue \cup {arg[t]} /\ Size < Capacity
    BY <1>9, <1>a DEF PublishPush
  <2>2. Size' = Size \/ Size' = Size + 1
    BY <2>1, <1>a, FS_AddElement
  <2>3. \A u \in Tasks : pc'[u] # "pub_push"
    BY <1>9 DEF PublishPush
  <2>4. QED
    BY <2>1, <2>2, <2>3, <1>a
<1>10. ASSUME NEW t \in Tasks, PublishReturn(t) PROVE Room'
  BY <1>10 DEF PublishReturn
<1>11. ASSUME NEW t \in Tasks, SubscribeLock(t) PROVE Room'
  BY <1>11 DEF SubscribeLock
<1>12. ASSUME NEW t \in Tasks, UnsubscribeLock(t) PROVE Room'
  BY <1>12 DEF UnsubscribeLock
<1>13. ASSUME NEW t \in Tasks, TableTimeout(t) PROVE Room'
  BY <1>13 DEF TableTimeout
<1>14. ASSUME NEW t \in Tasks, NEW n \in Names, NEW h \in Handlers, Subscribe(t, n, h)
       PROVE  Room'
  BY <1>14 DEF Subscribe
<1>15. ASSUME NEW t \in Tasks, NEW n \in Names, NEW h \in Handlers, Unsubscribe(t, n, h)
       PROVE  Room'
  BY <1>15 DEF Unsubscribe
<1>16. CASE LoopLock
  BY <1>16 DEF LoopLock
<1>17. CASE LoopLockTimeout
  BY <1>17 DEF LoopLockTimeout
<1>18. ASSUME NEW e \in Events, LoopTake(e) PROVE Room'
  <2>1. event_queue' = event_queue \ {e} /\ pc' = pc
    BY <1>18 DEF LoopTake
  <2>2. IsFiniteSet(event_queue \ {e}) /\ Cardinality(event_queue \ {e}) <= Size
    BY <1>a, FS_Subset
  <2>3. Cardinality(event_queue \ {e}) \in Nat
    BY <2>2, FS_CardinalityType
  <2>4. Cardinality(event_queue') \in Nat /\ Cardinality(event_queue') <= Size
    BY ONLY <2>1, <2>2, <2>3
  <2>5. QueueBounded'
    BY ONLY <2>4, <1>a, Room, CapacityAssumption DEF Room, QueueBounded
  <2>6. ASSUME NEW t \in Tasks, pc[t] = "pub_push" PROVE ~Full'
    BY ONLY <2>4, <2>6, <1>a, Room, CapacityAssumption DEF Room, Full
  <2>7. QED
    BY ONLY <2>1, <2>5, <2>6 DEF Room
<1>19. CASE LoopEmpty
  BY <1>19 DEF LoopEmpty
<1>20. CASE LoopLockHandlers
  BY <1>20 DEF LoopLockHandlers
<1>21. CASE LoopDrop
  BY <1>21 DEF LoopDrop
<1>22. CASE LoopCopy
  BY <1>22 DEF LoopCopy
<1>23. ASSUME NEW h \in Handlers, LoopProcess(h) PROVE Room'
  BY <1>23 DEF LoopProcess
<1>24. CASE LoopDelete
  BY <1>24 DEF LoopDelete
<1>25. CASE LoopWait
  BY <1>25 DEF LoopWait
<1>26. CASE LoopAgain
  BY <1>26 DEF LoopAgain
<1>27. CASE LoopExit
  BY <1>27 DEF LoopExit
<1>28. CASE HandlerReturn
  BY <1>28 DEF HandlerReturn
<1>29. CASE DestroyBegin
  BY <1>29 DEF DestroyBegin
<1>30. CASE DestroyFinish
  BY <1>30 DEF DestroyFinish
<1>31. CASE UNCHANGED vars
  BY <1>31 DEF vars
<1>32. QED
  BY <1>1, <1>2, <1>3, <1>4, <1>5, <1>6, <1>7, <1>8, <1>9, <1>10, <1>11, <1>12,
     <1>13, <1>14, <1>15, <1>16, <1>17, <1>18, <1>19, <1>20, <1>21, <1>22,
     <1>23, <1>24, <1>25, <1>26, <1>27, <1>28, <1>29, <1>30, <1>31
     DEF Next, StartCall, CallStep, LoopStep

-----------------------------------------------------------------------------
(* One owner per event.                                                     *)

Has(t, e) == e \in held[t] \/ (NotAccepted(t) /\ e = arg[t])

\* Ownership, one event and two owners at a time.
Owners ==
    /\ \A t \in Tasks : \A e \in Events :
          Has(t, e) => e \in live /\ e \notin event_queue /\ e # event
    /\ \A t, u \in Tasks : \A e \in Events : Has(t, e) /\ Has(u, e) => t = u
    /\ \A t \in Tasks : NotAccepted(t) => arg[t] \notin held[t]
    /\ event_queue \subseteq live
    /\ event # None => event \in live
    /\ event \notin event_queue
    /\ \A e \in live :
          e \in event_queue \/ e = event \/ \E t \in Tasks : Has(t, e)

LEMMA OwnersInit == Init => Owners
BY EventsAssumption DEF Init, Owners, Has, NotAccepted

LEMMA OwnersStep == Control /\ Owners /\ [Next]_vars => Owners'
<1> SUFFICES ASSUME Control, Owners, [Next]_vars PROVE Owners'
  OBVIOUS
<1> USE TasksAssumption, EventsAssumption, CanDestroyAssumption
    DEF Control, TypeOK, Owners, Has, NotAccepted, Tasks, PublishPcs, TablePcs,
        LoopPcs, InPublish, HasEvent, Goto, heap, queue, table, call, sems, looping,
        life
<1>1. ASSUME NEW t \in Tasks, NEW e \in Events, PublishCall(t, e) PROVE Owners'
  BY <1>1 DEF PublishCall, CanCall, Obtain
<1>2. ASSUME NEW t \in Tasks, NEW e \in Events, PublishRejected(t, e)
       PROVE  Owners'
  BY <1>2 DEF PublishRejected, CanCall, Obtain
<1>3. ASSUME NEW t \in Tasks, NEW e \in Events, Discard(t, e) PROVE Owners'
  BY <1>3 DEF Discard, CanCall
<1>4. ASSUME NEW t \in Tasks, TableCall(t) PROVE Owners'
  BY <1>4 DEF TableCall, CanCall
<1>5. ASSUME NEW t \in Tasks, PublishLock(t) PROVE Owners'
  BY <1>5 DEF PublishLock
<1>6. ASSUME NEW t \in Tasks, PublishTimeout(t) PROVE Owners'
  BY <1>6 DEF PublishTimeout
<1>7. ASSUME NEW t \in Tasks, PublishRoom(t) PROVE Owners'
  BY <1>7 DEF PublishRoom
<1>8. ASSUME NEW t \in Tasks, PublishFull(t) PROVE Owners'
  BY <1>8 DEF PublishFull
<1>9. ASSUME NEW t \in Tasks, PublishPush(t) PROVE Owners'
  BY <1>9 DEF PublishPush
<1>10. ASSUME NEW t \in Tasks, PublishReturn(t) PROVE Owners'
  BY <1>10 DEF PublishReturn
<1>11. ASSUME NEW t \in Tasks, SubscribeLock(t) PROVE Owners'
  BY <1>11 DEF SubscribeLock
<1>12. ASSUME NEW t \in Tasks, UnsubscribeLock(t) PROVE Owners'
  BY <1>12 DEF UnsubscribeLock
<1>13. ASSUME NEW t \in Tasks, TableTimeout(t) PROVE Owners'
  BY <1>13 DEF TableTimeout
<1>14. ASSUME NEW t \in Tasks, NEW n \in Names, NEW h \in Handlers, Subscribe(t, n, h)
       PROVE  Owners'
  BY <1>14 DEF Subscribe
<1>15. ASSUME NEW t \in Tasks, NEW n \in Names, NEW h \in Handlers, Unsubscribe(t, n, h)
       PROVE  Owners'
  BY <1>15 DEF Unsubscribe
<1>16. CASE LoopLock
  BY <1>16 DEF LoopLock
<1>17. CASE LoopLockTimeout
  BY <1>17 DEF LoopLockTimeout
<1>18. ASSUME NEW e \in Events, LoopTake(e) PROVE Owners'
  BY <1>18 DEF LoopTake
<1>19. CASE LoopEmpty
  BY <1>19 DEF LoopEmpty
<1>20. CASE LoopLockHandlers
  BY <1>20 DEF LoopLockHandlers
<1>21. CASE LoopDrop
  BY <1>21 DEF LoopDrop
<1>22. CASE LoopCopy
  BY <1>22 DEF LoopCopy
<1>23. ASSUME NEW h \in Handlers, LoopProcess(h) PROVE Owners'
  BY <1>23 DEF LoopProcess
<1>24. CASE LoopDelete
  BY <1>24 DEF LoopDelete
<1>25. CASE LoopWait
  BY <1>25 DEF LoopWait
<1>26. CASE LoopAgain
  BY <1>26 DEF LoopAgain
<1>27. CASE LoopExit
  BY <1>27 DEF LoopExit
<1>28. CASE HandlerReturn
  BY <1>28 DEF HandlerReturn
<1>29. CASE DestroyBegin
  BY <1>29 DEF DestroyBegin
<1>30. CASE DestroyFinish
  BY <1>30 DEF DestroyFinish
<1>31. CASE UNCHANGED vars
  BY <1>31 DEF vars
<1>32. QED
  BY <1>1, <1>2, <1>3, <1>4, <1>5, <1>6, <1>7, <1>8, <1>9, <1>10, <1>11, <1>12,
     <1>13, <1>14, <1>15, <1>16, <1>17, <1>18, <1>19, <1>20, <1>21, <1>22,
     <1>23, <1>24, <1>25, <1>26, <1>27, <1>28, <1>29, <1>30, <1>31
     DEF Next, StartCall, CallStep, LoopStep

-----------------------------------------------------------------------------
(* What the destructor may rely on.                                         *)

Lifetime ==
    /\ exit <=> dtor # "none"
    /\ exit => \A c \in Clients : pc[c] = "idle"
    /\ exit_sem => loop = "done"
    /\ dtor \in {"leaked", "undefined"} => loop = "done"

LEMMA LifetimeInit == Init => Lifetime
BY DEF Init, Lifetime

LEMMA LifetimeStep == Control /\ Lifetime /\ [Next]_vars => Lifetime'
<1> SUFFICES ASSUME Control, Lifetime, [Next]_vars PROVE Lifetime'
  OBVIOUS
<1> USE TasksAssumption, EventsAssumption, CanDestroyAssumption
    DEF Control, TypeOK, Lifetime, Tasks, PublishPcs, TablePcs, LoopPcs, InPublish,
        HasEvent, Goto, heap, queue, table, call, sems, looping, life
<1>1. ASSUME NEW t \in Tasks, NEW e \in Events, PublishCall(t, e) PROVE Lifetime'
  BY <1>1 DEF PublishCall, CanCall, Obtain
<1>2. ASSUME NEW t \in Tasks, NEW e \in Events, PublishRejected(t, e)
       PROVE  Lifetime'
  BY <1>2 DEF PublishRejected, CanCall, Obtain
<1>3. ASSUME NEW t \in Tasks, NEW e \in Events, Discard(t, e) PROVE Lifetime'
  BY <1>3 DEF Discard, CanCall
<1>4. ASSUME NEW t \in Tasks, TableCall(t) PROVE Lifetime'
  BY <1>4 DEF TableCall, CanCall
<1>5. ASSUME NEW t \in Tasks, PublishLock(t) PROVE Lifetime'
  BY <1>5 DEF PublishLock
<1>6. ASSUME NEW t \in Tasks, PublishTimeout(t) PROVE Lifetime'
  BY <1>6 DEF PublishTimeout
<1>7. ASSUME NEW t \in Tasks, PublishRoom(t) PROVE Lifetime'
  BY <1>7 DEF PublishRoom
<1>8. ASSUME NEW t \in Tasks, PublishFull(t) PROVE Lifetime'
  BY <1>8 DEF PublishFull
<1>9. ASSUME NEW t \in Tasks, PublishPush(t) PROVE Lifetime'
  BY <1>9 DEF PublishPush
<1>10. ASSUME NEW t \in Tasks, PublishReturn(t) PROVE Lifetime'
  BY <1>10 DEF PublishReturn
<1>11. ASSUME NEW t \in Tasks, SubscribeLock(t) PROVE Lifetime'
  BY <1>11 DEF SubscribeLock
<1>12. ASSUME NEW t \in Tasks, UnsubscribeLock(t) PROVE Lifetime'
  BY <1>12 DEF UnsubscribeLock
<1>13. ASSUME NEW t \in Tasks, TableTimeout(t) PROVE Lifetime'
  BY <1>13 DEF TableTimeout
<1>14. ASSUME NEW t \in Tasks, NEW n \in Names, NEW h \in Handlers, Subscribe(t, n, h)
       PROVE  Lifetime'
  BY <1>14 DEF Subscribe
<1>15. ASSUME NEW t \in Tasks, NEW n \in Names, NEW h \in Handlers, Unsubscribe(t, n, h)
       PROVE  Lifetime'
  BY <1>15 DEF Unsubscribe
<1>16. CASE LoopLock
  BY <1>16 DEF LoopLock
<1>17. CASE LoopLockTimeout
  BY <1>17 DEF LoopLockTimeout
<1>18. ASSUME NEW e \in Events, LoopTake(e) PROVE Lifetime'
  BY <1>18 DEF LoopTake
<1>19. CASE LoopEmpty
  BY <1>19 DEF LoopEmpty
<1>20. CASE LoopLockHandlers
  BY <1>20 DEF LoopLockHandlers
<1>21. CASE LoopDrop
  BY <1>21 DEF LoopDrop
<1>22. CASE LoopCopy
  BY <1>22 DEF LoopCopy
<1>23. ASSUME NEW h \in Handlers, LoopProcess(h) PROVE Lifetime'
  BY <1>23 DEF LoopProcess
<1>24. CASE LoopDelete
  BY <1>24 DEF LoopDelete
<1>25. CASE LoopWait
  BY <1>25 DEF LoopWait
<1>26. CASE LoopAgain
  BY <1>26 DEF LoopAgain
<1>27. CASE LoopExit
  BY <1>27 DEF LoopExit
<1>28. CASE HandlerReturn
  BY <1>28 DEF HandlerReturn
<1>29. CASE DestroyBegin
  BY <1>29 DEF DestroyBegin
<1>30. CASE DestroyFinish
  BY <1>30 DEF DestroyFinish
<1>31. CASE UNCHANGED vars
  BY <1>31 DEF vars
<1>32. QED
  BY <1>1, <1>2, <1>3, <1>4, <1>5, <1>6, <1>7, <1>8, <1>9, <1>10, <1>11, <1>12,
     <1>13, <1>14, <1>15, <1>16, <1>17, <1>18, <1>19, <1>20, <1>21, <1>22,
     <1>23, <1>24, <1>25, <1>26, <1>27, <1>28, <1>29, <1>30, <1>31
     DEF Next, StartCall, CallStep, LoopStep

-----------------------------------------------------------------------------
(* The layers together are inductive, and imply the properties.             *)

Inv == Control /\ Room /\ Owners /\ Lifetime

\* The inductive invariant holds in every state that the bus can reach.
THEOREM Invariance == Spec => []Inv
<1>1. Init => Inv
  BY ControlInit, RoomInit, OwnersInit, LifetimeInit DEF Inv
<1>2. Inv /\ [Next]_vars => Inv'
  BY ControlStep, RoomStep, OwnersStep, LifetimeStep DEF Inv
<1>3. QED
  BY <1>1, <1>2, PTL DEF Spec

\* Type correctness.
THEOREM TypeCorrect == Spec => []TypeOK
<1>1. Inv => TypeOK
  BY DEF Inv, Control
<1>2. QED
  BY <1>1, Invariance, PTL

\* However many tasks publish at once, the queue never exceeds max_event_cout: the
\* size that Publish tests under event_mutex_ is still right when it pushes.
THEOREM Bounded == Spec => []QueueBounded
<1>1. Inv => QueueBounded
  BY DEF Inv, Room
<1>2. QED
  BY <1>1, Invariance, PTL

LEMMA OwnersOwnership == Control /\ Owners => Ownership
<1> SUFFICES ASSUME Control, Owners PROVE Ownership
  OBVIOUS
<1> USE EventsAssumption DEF Control, TypeOK
<1>1. \A t \in Tasks : Owns(t) \subseteq Events
  BY DEF Owns, NotAccepted, PublishPcs
<1>2. \A t \in Tasks : \A e \in Events : e \in Owns(t) <=> Has(t, e)
  BY DEF Owns, Has
<1>3. ASSUME NEW t \in Tasks
      PROVE  /\ Owns(t) \cap event_queue = {}
             /\ event \notin Owns(t)
             /\ NotAccepted(t) => arg[t] \notin held[t]
             /\ \A u \in Tasks \ {t} : Owns(t) \cap Owns(u) = {}
  <2>1. Owns(t) \cap event_queue = {}
    BY <1>1, <1>2 DEF Owners
  <2>2. event \notin Owns(t)
    BY <1>1, <1>2 DEF Owners
  <2>3. \A u \in Tasks \ {t} : Owns(t) \cap Owns(u) = {}
    BY <1>1, <1>2 DEF Owners
  <2>4. QED
    BY <2>1, <2>2, <2>3 DEF Owners
<1>4. live = event_queue \cup ({event} \ {None}) \cup UNION {Owns(t) : t \in Tasks}
  <2>1. ASSUME NEW e \in live
        PROVE  e \in event_queue \cup ({event} \ {None}) \cup UNION {Owns(t) : t \in Tasks}
    BY <1>2 DEF Owners
  <2>2. event_queue \subseteq live /\ {event} \ {None} \subseteq live
    BY DEF Owners
  <2>3. ASSUME NEW t \in Tasks PROVE Owns(t) \subseteq live
    BY <1>1, <1>2 DEF Owners
  <2>4. QED
    BY <2>1, <2>2, <2>3
<1>5. QED
  BY <1>3, <1>4 DEF Ownership, Owners

\* No event is lost, deleted twice or used after its deletion, whatever calls,
\* timeouts, refusals and re-entrant handlers interleave.
THEOREM SingleOwner == Spec => []Ownership
<1>1. Inv => Ownership
  BY OwnersOwnership DEF Inv
<1>2. QED
  BY <1>1, Invariance, PTL

\* Handlers may use the bus: the loop holds no mutex while it runs them.
THEOREM Unlocked == Spec => []HandlersRunUnlocked
<1>1. Inv => HandlersRunUnlocked
  BY TasksAssumption DEF Inv, Control, HandlersRunUnlocked, InPublish, InTable, Tasks
<1>2. QED
  BY <1>1, Invariance, PTL

\* The destructor frees the object only when the loop is past its last use of it.
THEOREM Handshake == Spec => []HandshakeSafe
<1>1. Inv => HandshakeSafe
  BY TasksAssumption
     DEF Inv, Control, Lifetime, HandshakeSafe, TypeOK, InPublish, InTable, HasEvent,
         Tasks
<1>2. QED
  BY <1>1, Invariance, PTL

-----------------------------------------------------------------------------
(* The bus implements EventDelivery.                                        *)

LEMMA DeliveryInit == Init => Delivery!DInit
BY DEF Init, Delivery!DInit

LEMMA DeliveryStep == Inv /\ [Next]_vars => [Delivery!DNext]_(Delivery!dvars)
<1> SUFFICES ASSUME Control, Room, Owners, [Next]_vars
             PROVE  [Delivery!DNext]_(Delivery!dvars)
  BY DEF Inv
<1> USE TasksAssumption, EventsAssumption
    DEF Control, TypeOK, HasEvent, PublishPcs, heap, queue, table, call, sems, looping,
        life, Delivery!dvars
<1>1. ASSUME NEW t \in Tasks, NEW e \in Events, PublishCall(t, e)
       PROVE  [Delivery!DNext]_(Delivery!dvars)
  BY <1>1 DEF PublishCall, CanCall, Obtain
<1>2. ASSUME NEW t \in Tasks, NEW e \in Events, PublishRejected(t, e)
       PROVE  [Delivery!DNext]_(Delivery!dvars)
  BY <1>2 DEF PublishRejected, CanCall, Obtain
<1>3. ASSUME NEW t \in Tasks, NEW e \in Events, Discard(t, e)
       PROVE  [Delivery!DNext]_(Delivery!dvars)
  BY <1>3 DEF Discard, CanCall
<1>4. ASSUME NEW t \in Tasks, TableCall(t) PROVE [Delivery!DNext]_(Delivery!dvars)
  BY <1>4 DEF TableCall, CanCall
<1>5. ASSUME NEW t \in Tasks, PublishLock(t)
       PROVE  [Delivery!DNext]_(Delivery!dvars)
  BY <1>5 DEF PublishLock
<1>6. ASSUME NEW t \in Tasks, PublishTimeout(t)
       PROVE  [Delivery!DNext]_(Delivery!dvars)
  BY <1>6 DEF PublishTimeout
<1>7. ASSUME NEW t \in Tasks, PublishRoom(t)
       PROVE  [Delivery!DNext]_(Delivery!dvars)
  BY <1>7 DEF PublishRoom
<1>8. ASSUME NEW t \in Tasks, PublishFull(t)
       PROVE  [Delivery!DNext]_(Delivery!dvars)
  BY <1>8 DEF PublishFull
<1>9. ASSUME NEW t \in Tasks, PublishPush(t)
       PROVE  [Delivery!DNext]_(Delivery!dvars)
  <2>1. arg[t] \in Events /\ ~Full /\ NotAccepted(t)
    BY <1>9 DEF PublishPush, Room, NotAccepted
  <2>2. arg[t] \notin event_queue /\ arg[t] # event
    BY <2>1 DEF Owners, Has
  <2>3. Cardinality(event_queue) < Capacity
    <3>1. Cardinality(event_queue) \in Nat
      BY QueueCardinality
    <3>2. QED
      BY ONLY <3>1, <2>1, CapacityAssumption DEF Full
  <2>4. event_queue' = event_queue \cup {arg[t]} /\ UNCHANGED <<event_handlers, looping>>
    BY <1>9 DEF PublishPush
  <2>5. Delivery!Cardinality(event_queue) = Cardinality(event_queue)
    BY DEF Delivery!Cardinality, Cardinality
  <2>6. Delivery!Accept(arg[t])
    BY ONLY <2>2, <2>3, <2>4, <2>5 DEF Delivery!Accept, looping
  <2>7. QED
    BY <2>1, <2>6 DEF Delivery!DNext
<1>10. ASSUME NEW t \in Tasks, PublishReturn(t)
       PROVE  [Delivery!DNext]_(Delivery!dvars)
  BY <1>10 DEF PublishReturn
<1>11. ASSUME NEW t \in Tasks, SubscribeLock(t)
       PROVE  [Delivery!DNext]_(Delivery!dvars)
  BY <1>11 DEF SubscribeLock
<1>12. ASSUME NEW t \in Tasks, UnsubscribeLock(t)
       PROVE  [Delivery!DNext]_(Delivery!dvars)
  BY <1>12 DEF UnsubscribeLock
<1>13. ASSUME NEW t \in Tasks, TableTimeout(t)
       PROVE  [Delivery!DNext]_(Delivery!dvars)
  BY <1>13 DEF TableTimeout
<1>14. ASSUME NEW t \in Tasks, NEW n \in Names, NEW h \in Handlers, Subscribe(t, n, h)
       PROVE  [Delivery!DNext]_(Delivery!dvars)
  <2>1. Delivery!Subscribed(n, h)
    BY <1>14 DEF Subscribe, Delivery!Subscribed
  <2>2. QED
    BY <2>1 DEF Delivery!DNext
<1>15. ASSUME NEW t \in Tasks, NEW n \in Names, NEW h \in Handlers, Unsubscribe(t, n, h)
       PROVE  [Delivery!DNext]_(Delivery!dvars)
  <2>1. Delivery!Unsubscribed(n, h)
    BY <1>15 DEF Unsubscribe, Delivery!Unsubscribed
  <2>2. QED
    BY <2>1 DEF Delivery!DNext
<1>16. CASE LoopLock
  BY <1>16 DEF LoopLock
<1>17. CASE LoopLockTimeout
  BY <1>17 DEF LoopLockTimeout
<1>18. ASSUME NEW e \in Events, LoopTake(e)
       PROVE  [Delivery!DNext]_(Delivery!dvars)
  <2>1. Delivery!Take(e)
    BY <1>18 DEF LoopTake, MostUrgent, Delivery!Take
  <2>2. QED
    BY <2>1 DEF Delivery!DNext
<1>19. CASE LoopEmpty
  BY <1>19 DEF LoopEmpty
<1>20. CASE LoopLockHandlers
  BY <1>20 DEF LoopLockHandlers
<1>21. CASE LoopDrop
  <2>1. Delivery!Fix
    BY <1>21 DEF LoopDrop, Delivery!Fix
  <2>2. QED
    BY <2>1 DEF Delivery!DNext
<1>22. CASE LoopCopy
  <2>1. Delivery!Fix
    BY <1>22 DEF LoopCopy, Delivery!Fix
  <2>2. QED
    BY <2>1 DEF Delivery!DNext
<1>23. ASSUME NEW h \in Handlers, LoopProcess(h)
       PROVE  [Delivery!DNext]_(Delivery!dvars)
  <2>1. Delivery!Deliver(h)
    BY <1>23 DEF LoopProcess, Delivery!Deliver
  <2>2. QED
    BY <2>1 DEF Delivery!DNext
<1>24. CASE LoopDelete
  <2>1. Delivery!Finish
    BY <1>24 DEF LoopDelete, Delivery!Finish
  <2>2. QED
    BY <2>1 DEF Delivery!DNext
<1>25. CASE LoopWait
  BY <1>25 DEF LoopWait
<1>26. CASE LoopAgain
  BY <1>26 DEF LoopAgain
<1>27. CASE LoopExit
  BY <1>27 DEF LoopExit
<1>28. CASE HandlerReturn
  BY <1>28 DEF HandlerReturn
<1>29. CASE DestroyBegin
  BY <1>29 DEF DestroyBegin
<1>30. CASE DestroyFinish
  BY <1>30 DEF DestroyFinish
<1>31. CASE UNCHANGED vars
  BY <1>31 DEF vars
<1>32. QED
  BY <1>1, <1>2, <1>3, <1>4, <1>5, <1>6, <1>7, <1>8, <1>9, <1>10, <1>11, <1>12,
     <1>13, <1>14, <1>15, <1>16, <1>17, <1>18, <1>19, <1>20, <1>21, <1>22,
     <1>23, <1>24, <1>25, <1>26, <1>27, <1>28, <1>29, <1>30, <1>31
     DEF Next, StartCall, CallStep, LoopStep

\* Every behaviour of the bus is one of EventDelivery: calls and the loop's steps map
\* to one of its steps or to none.
THEOREM Refinement == Spec => DeliveryRefined
<1>1. QED
  BY DeliveryInit, DeliveryStep, Invariance, PTL DEF Spec, DeliveryRefined, Delivery!DSpec
=============================================================================
