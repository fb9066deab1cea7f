------------------------- MODULE LedIndicatorProofs -------------------------
(***************************************************************************)
(* Proofs about LedIndicator and LedDevices, for any blink lists and any     *)
(* number of callers.                                                       *)
(*                                                                         *)
(* First what holds under every interleaving; then what holds when no call  *)
(* and no callback overlap, which is where the code keeps its promises; and *)
(* last what creation and deletion keep.                                    *)
(***************************************************************************)
EXTENDS LedDevices, FiniteSetTheorems, WellFoundedInduction, TLAPS

\* A nonempty set of blinks has a smallest element: the one whose interval from 0 is
\* minimal for inclusion.
LEMMA Smallest ==
    ASSUME NEW S \in SUBSET Blinks, S # {}
    PROVE  \E m \in S : \A k \in S : m <= k
<1> DEFINE R == StrictSubsetOrdering(Blinks)
           Below == {0 .. k : k \in S}
<1>1. IsFiniteSet(Blinks)
  BY FS_Interval, ListsAssumption DEF Blinks
<1>2. IsWellFoundedOn(R, SUBSET Blinks)
  BY <1>1, FS_StrictSubsetOrderingWellFounded, FS_FiniteSubsetsOfFinite
<1>3. Below \subseteq SUBSET Blinks /\ Below # {}
  <2>1. \A k \in S : 0 .. k \subseteq Blinks
    BY ListsAssumption DEF Blinks
  <2>2. \A i \in Below : i \subseteq Blinks
    BY <2>1, Zenon
  <2>3. QED BY <2>2, Zenon
<1>4. PICK i \in Below : \A j \in Below : <<j, i>> \notin R
  <2> HIDE DEF R, Below
  <2> QED BY <1>2, <1>3, WFMin
<1>5. PICK m \in S : i = 0 .. m
  OBVIOUS
<1>6. ASSUME NEW k \in S PROVE m <= k
  <2>1. m \in Nat /\ k \in Nat /\ m < BlinkMax /\ k < BlinkMax
    BY ListsAssumption DEF Blinks
  <2>2. <<0 .. k, 0 .. m>> \notin R
    BY <1>4, <1>5
  <2>3. 0 .. k \subseteq Blinks /\ 0 .. m \subseteq Blinks
    BY ListsAssumption DEF Blinks
  <2>4. ~ (0 .. k \subseteq 0 .. m /\ 0 .. k # 0 .. m)
    <3> DEFINE K == 0 .. k
               M == 0 .. m
    <3>1. K \in SUBSET Blinks /\ M \in SUBSET Blinks /\ <<K, M>> \notin R
      BY <2>2, <2>3
    <3> HIDE DEF K, M
    <3>2. ~ (K \subseteq M /\ K # M)
      BY <3>1 DEF StrictSubsetOrdering
    <3>3. QED BY <3>2 DEF K, M
  <2>5. ~ (k < m)
    <3>1. ASSUME k < m PROVE m \in 0 .. m /\ m \notin 0 .. k /\ 0 .. k \subseteq 0 .. m
      BY <2>1, <3>1
    <3>2. QED BY <2>4, <3>1
  <2>6. QED BY <2>1, <2>5
<1>7. QED
  BY <1>6

\* What _blink_list_switch finds.
LEMMA FirstFinds ==
    ASSUME NEW steps \in [Blinks -> Stop .. MaxStep]
    PROVE  /\ First(steps) \in Blinks \cup {NoBlink}
           /\ First(steps) # NoBlink => steps[First(steps)] # Stop
           /\ \A b \in Blinks : steps[b] # Stop => First(steps) \in 0 .. b
<1> DEFINE Incomplete == {b \in Blinks : steps[b] # Stop}
<1>1. CASE Incomplete = {}
  BY <1>1 DEF First, NoBlink, Stop
<1>2. CASE Incomplete # {}
  <2>1. Incomplete \in SUBSET Blinks
    OBVIOUS
  <2>2. PICK m \in Incomplete : \A k \in Incomplete : m <= k
    <3> HIDE DEF Incomplete
    <3> QED BY <1>2, <2>1, Smallest
  <2>3. m \in Blinks /\ steps[m] # Stop /\ \A c \in Blinks : c < m => steps[c] = Stop
    BY <2>2, ListsAssumption DEF Blinks
  <2>4. /\ First(steps) \in Blinks
        /\ steps[First(steps)] # Stop
        /\ \A c \in Blinks : c < First(steps) => steps[c] = Stop
    BY <2>3 DEF First
  <2>5. QED
    BY <2>4, ListsAssumption DEF Blinks
<1>3. QED
  BY <1>1, <1>2
-----------------------------------------------------------------------------
(* The invariants, in layers                                                *)

\* The parameter that is about to be used as an index is a blink.
Bound ==
    /\ TypeOK
    /\ \A t \in Tasks :
          pc[t] \in {"start_lock", "stop_lock", "switch", "pick", "check"} =>
              blink_type[t] \in Blinks

\* A task has the mutex inside a critical section.
Locked ==
    \A t \in Tasks :
        pc[t] \in {"switch", "pick", "act", "run_switch", "run_pick"} => mutex = t

\* Without overlap one task is under way at most, and holds the mutex nowhere else.
Alone ==
    /\ \A t, u \in Tasks : pc[t] # "idle" /\ pc[u] # "idle" => t = u
    /\ \A t \in Tasks :
          mutex = t => pc[t] \in {"switch", "pick", "act", "run_switch", "run_pick"}
    /\ pc[Timer] \notin {"start_lock", "stop_lock", "switch", "pick", "check"}

\* The runner works on the active blink, and the step of every blink is in its
\* list but for the blink that is between its increment and the end of its step.
InList ==
    /\ \A t \in Tasks :
          /\ pc[t] = "read_active" => active_blink # NoBlink
          /\ pc[t] \in {"read_step", "increment", "take", "act"} =>
                blink[t] \in Blinks /\ active_blink = blink[t]
          /\ pc[t] = "increment" =>
                step[t] # Stop /\ p_blink_steps[blink[t]] = step[t]
          /\ pc[t] \in {"increment", "take", "act"} =>
                step[t] \in 0 .. Len(BlinkList[blink[t]]) - 1
          /\ pc[t] \in {"take", "act"} => p_blink_steps[blink[t]] = step[t] + 1
    /\ \A b \in Blinks :
          \/ p_blink_steps[b] = Stop
          \/ p_blink_steps[b] \in 0 .. Len(BlinkList[b]) - 1
          \/ \E t \in Tasks : pc[t] \in {"take", "act"} /\ blink[t] = b

\* Outside of _blink_list_switch the active blink is the most urgent one.
ActiveFirst ==
    (\A t \in Tasks : pc[t] \notin {"switch", "pick", "run_switch", "run_pick"}) =>
        \A b \in Blinks : p_blink_steps[b] # Stop => active_blink \in 0 .. b

\* A call finds the timer armed if any blink but its own is to go on, and leaves it
\* so or runs the callback function itself.
Rearmed ==
    /\ Quiet /\ active_blink # NoBlink => armed
    /\ \A t \in Tasks :
          /\ pc[t] \in {"start_lock", "stop_lock"} /\ active_blink # NoBlink => armed
          /\ pc[t] \in {"switch", "pick"} =>
                \A b \in Blinks \ {blink_type[t]} : p_blink_steps[b] # Stop => armed
          /\ pc[t] = "check" /\ active_blink \notin {NoBlink, blink_type[t]} => armed

\* A step that is read is a step, in the list or not.
LEMMA ReadsSteps ==
    ASSUME NEW b, NEW i
    PROVE  StepsRead(b, i) \subseteq Steps
BY ListsAssumption DEF StepsRead

\* No step breaks Bound, whatever overlaps.
LEMMA BoundStep ==
    ASSUME Bound, [Next]_vars
    PROVE  Bound'
<1> USE DEF Bound, TypeOK, Pcs, Tasks, At, Goto, object, locals
<1>1. ASSUME NEW t \in Tasks, NEW b \in Blinks, Call(t, b) PROVE Bound'
  BY <1>1 DEF Call, MayBegin
<1>2. ASSUME NEW t \in Tasks, StartLock(t) PROVE Bound'
  BY <1>2, MaxStepAssumption DEF StartLock, Stop
<1>3. ASSUME NEW t \in Tasks, StopLock(t) PROVE Bound'
  BY <1>3, MaxStepAssumption DEF StopLock, Stop
<1>4. ASSUME NEW t \in Tasks, Switch(t) PROVE Bound'
  BY <1>4 DEF Switch
<1>5. ASSUME NEW t \in Tasks, Pick(t) PROVE Bound'
  BY <1>5, FirstFinds DEF Pick
<1>6. ASSUME NEW t \in Tasks, Check(t) PROVE Bound'
  BY <1>6 DEF Check
<1>7. CASE TimerFire
  BY <1>7 DEF TimerFire, MayBegin
<1>8. ASSUME NEW t \in Tasks, FindActive(t) PROVE Bound'
  BY <1>8 DEF FindActive
<1>9. ASSUME NEW t \in Tasks, ReadActive(t) PROVE Bound'
  BY <1>9 DEF ReadActive
<1>10. ASSUME NEW t \in Tasks, ReadStep(t) PROVE Bound'
  BY <1>10 DEF ReadStep, Slot
<1>11. ASSUME NEW t \in Tasks, Increment(t) PROVE Bound'
  BY <1>11, MaxStepAssumption DEF Increment, Slot, Write, Stop
<1>12. ASSUME NEW t \in Tasks, Take(t) PROVE Bound'
  BY <1>12 DEF Take
<1>13. ASSUME NEW t \in Tasks, ActLoop(t) PROVE Bound'
  BY <1>13, MaxStepAssumption DEF ActLoop, Write, Stop
<1>14. ASSUME NEW t \in Tasks, ActStop(t) PROVE Bound'
  BY <1>14, MaxStepAssumption DEF ActStop, Write, Stop
<1>15. ASSUME NEW t \in Tasks, ActHold(t) PROVE Bound'
  BY <1>15, ReadsSteps DEF ActHold, Steps
<1>16. CASE UNCHANGED vars
  BY <1>16 DEF vars
<1>17. QED
  BY <1>1, <1>2, <1>3, <1>4, <1>5, <1>6, <1>7, <1>8, <1>9, <1>10, <1>11, <1>12,
     <1>13, <1>14, <1>15, <1>16
     DEF Next, Continue

\* The mutex is taken when it is free, and given back by the task that has it.
LEMMA LockedStep ==
    ASSUME Bound, Locked, [Next]_vars
    PROVE  Locked'
<1> USE DEF Bound, TypeOK, Locked, Pcs, Tasks, At, Goto, object, locals
<1>1. ASSUME NEW t \in Tasks, NEW b \in Blinks, Call(t, b) PROVE Locked'
  BY <1>1, TasksAssumption DEF Call, MayBegin
<1>2. ASSUME NEW t \in Tasks, StartLock(t) PROVE Locked'
  BY <1>2, TasksAssumption DEF StartLock
<1>3. ASSUME NEW t \in Tasks, StopLock(t) PROVE Locked'
  BY <1>3, TasksAssumption DEF StopLock
<1>4. ASSUME NEW t \in Tasks, Switch(t) PROVE Locked'
  BY <1>4 DEF Switch
<1>5. ASSUME NEW t \in Tasks, Pick(t) PROVE Locked'
  BY <1>5, TasksAssumption DEF Pick
<1>6. ASSUME NEW t \in Tasks, Check(t) PROVE Locked'
  BY <1>6 DEF Check
<1>7. CASE TimerFire
  BY <1>7 DEF TimerFire, MayBegin
<1>8. ASSUME NEW t \in Tasks, FindActive(t) PROVE Locked'
  BY <1>8 DEF FindActive
<1>9. ASSUME NEW t \in Tasks, ReadActive(t) PROVE Locked'
  BY <1>9 DEF ReadActive
<1>10. ASSUME NEW t \in Tasks, ReadStep(t) PROVE Locked'
  BY <1>10 DEF ReadStep, Slot
<1>11. ASSUME NEW t \in Tasks, Increment(t) PROVE Locked'
  BY <1>11 DEF Increment, Slot, Write
<1>12. ASSUME NEW t \in Tasks, Take(t) PROVE Locked'
  BY <1>12, TasksAssumption DEF Take
<1>13. ASSUME NEW t \in Tasks, ActLoop(t) PROVE Locked'
  BY <1>13, TasksAssumption DEF ActLoop, Write
<1>14. ASSUME NEW t \in Tasks, ActStop(t) PROVE Locked'
  BY <1>14 DEF ActStop, Write
<1>15. ASSUME NEW t \in Tasks, ActHold(t) PROVE Locked'
  BY <1>15, TasksAssumption DEF ActHold
<1>16. CASE UNCHANGED vars
  BY <1>16 DEF vars
<1>17. QED
  BY <1>1, <1>2, <1>3, <1>4, <1>5, <1>6, <1>7, <1>8, <1>9, <1>10, <1>11, <1>12,
     <1>13, <1>14, <1>15, <1>16
     DEF Next, Continue

\* Nor ActiveIsIncomplete: a blink becomes complete only under the mutex, which is kept
\* until active_blink has changed, and a runner with an old active_blink makes a blink
\* incomplete, not complete.
LEMMA ActiveStep ==
    ASSUME Bound, Locked, ActiveIsIncomplete, [Next]_vars
    PROVE  ActiveIsIncomplete'
<1> USE DEF Bound, TypeOK, Locked, ActiveIsIncomplete, Tasks, At, Goto, object, locals
<1>1. ASSUME NEW t \in Tasks, NEW b \in Blinks, Call(t, b)
       PROVE  ActiveIsIncomplete'
  BY <1>1 DEF Call, MayBegin
<1>2. ASSUME NEW t \in Tasks, StartLock(t) PROVE ActiveIsIncomplete'
  BY <1>2, MaxStepAssumption DEF StartLock, Stop, NoBlink
<1>3. ASSUME NEW t \in Tasks, StopLock(t) PROVE ActiveIsIncomplete'
  BY <1>3, MaxStepAssumption DEF StopLock, Stop, NoBlink
<1>4. ASSUME NEW t \in Tasks, Switch(t) PROVE ActiveIsIncomplete'
  BY <1>4 DEF Switch
<1>5. ASSUME NEW t \in Tasks, Pick(t) PROVE ActiveIsIncomplete'
  BY <1>5, FirstFinds DEF Pick
<1>6. ASSUME NEW t \in Tasks, Check(t) PROVE ActiveIsIncomplete'
  BY <1>6 DEF Check
<1>7. CASE TimerFire
  BY <1>7 DEF TimerFire, MayBegin
<1>8. ASSUME NEW t \in Tasks, FindActive(t) PROVE ActiveIsIncomplete'
  BY <1>8 DEF FindActive
<1>9. ASSUME NEW t \in Tasks, ReadActive(t) PROVE ActiveIsIncomplete'
  BY <1>9 DEF ReadActive
<1>10. ASSUME NEW t \in Tasks, ReadStep(t) PROVE ActiveIsIncomplete'
  BY <1>10 DEF ReadStep, Slot
<1>11. ASSUME NEW t \in Tasks, Increment(t) PROVE ActiveIsIncomplete'
  BY <1>11, MaxStepAssumption DEF Increment, Slot, Write, Stop, NoBlink
<1>12. ASSUME NEW t \in Tasks, Take(t) PROVE ActiveIsIncomplete'
  BY <1>12, TasksAssumption DEF Take
<1>13. ASSUME NEW t \in Tasks, ActLoop(t) PROVE ActiveIsIncomplete'
  BY <1>13, MaxStepAssumption DEF ActLoop, Write, Stop, NoBlink
<1>14. ASSUME NEW t \in Tasks, ActStop(t) PROVE ActiveIsIncomplete'
  BY <1>14, MaxStepAssumption DEF ActStop, Write, Stop, NoBlink
<1>15. ASSUME NEW t \in Tasks, ActHold(t) PROVE ActiveIsIncomplete'
  BY <1>15 DEF ActHold
<1>16. CASE UNCHANGED vars
  BY <1>16 DEF vars
<1>17. QED
  BY <1>1, <1>2, <1>3, <1>4, <1>5, <1>6, <1>7, <1>8, <1>9, <1>10, <1>11, <1>12,
     <1>13, <1>14, <1>15, <1>16
     DEF Next, Continue

\* The layers that need every call and callback to run by itself.
LEMMA AloneStep ==
    ASSUME ~Overlap, Bound, Locked, Alone, [Next]_vars
    PROVE  Alone'
<1> USE DEF Bound, TypeOK, Locked, Alone, Pcs, Tasks, At, Goto, object, locals
<1>1. ASSUME NEW t \in Tasks, NEW b \in Blinks, Call(t, b) PROVE Alone'
  BY <1>1, TasksAssumption DEF Call, MayBegin
<1>2. ASSUME NEW t \in Tasks, StartLock(t) PROVE Alone'
  BY <1>2 DEF StartLock
<1>3. ASSUME NEW t \in Tasks, StopLock(t) PROVE Alone'
  BY <1>3 DEF StopLock
<1>4. ASSUME NEW t \in Tasks, Switch(t) PROVE Alone'
  BY <1>4 DEF Switch
<1>5. ASSUME NEW t \in Tasks, Pick(t) PROVE Alone'
  BY <1>5, TasksAssumption DEF Pick
<1>6. ASSUME NEW t \in Tasks, Check(t) PROVE Alone'
  BY <1>6 DEF Check
<1>7. CASE TimerFire
  BY <1>7 DEF TimerFire, MayBegin
<1>8. ASSUME NEW t \in Tasks, FindActive(t) PROVE Alone'
  BY <1>8 DEF FindActive
<1>9. ASSUME NEW t \in Tasks, ReadActive(t) PROVE Alone'
  BY <1>9 DEF ReadActive
<1>10. ASSUME NEW t \in Tasks, ReadStep(t) PROVE Alone'
  BY <1>10 DEF ReadStep, Slot
<1>11. ASSUME NEW t \in Tasks, Increment(t) PROVE Alone'
  BY <1>11 DEF Increment, Slot, Write
<1>12. ASSUME NEW t \in Tasks, Take(t) PROVE Alone'
  BY <1>12 DEF Take
<1>13. ASSUME NEW t \in Tasks, ActLoop(t) PROVE Alone'
  BY <1>13, TasksAssumption DEF ActLoop, Write
<1>14. ASSUME NEW t \in Tasks, ActStop(t) PROVE Alone'
  BY <1>14 DEF ActStop, Write
<1>15. ASSUME NEW t \in Tasks, ActHold(t) PROVE Alone'
  BY <1>15, TasksAssumption DEF ActHold
<1>16. CASE UNCHANGED vars
  BY <1>16 DEF vars
<1>17. QED
  BY <1>1, <1>2, <1>3, <1>4, <1>5, <1>6, <1>7, <1>8, <1>9, <1>10, <1>11, <1>12,
     <1>13, <1>14, <1>15, <1>16
     DEF Next, Continue

\* No list is empty, and no blink is NULL_ACTIVE_BLINK.
LEMMA ListFacts ==
    /\ \A b \in Blinks : Len(BlinkList[b]) \in Nat /\ Len(BlinkList[b]) > 0
    /\ \A b \in Blinks : b \in Int /\ b # NoBlink
BY ListsAssumption DEF Blinks, NoBlink

\* A HOLD step is never the last one of its list, so that the step after it is in the
\* list too.
LEMMA InListStep ==
    ASSUME ~Overlap, Bound, Locked, Alone, InList, ActiveIsIncomplete, [Next]_vars
    PROVE  InList'
<1> USE DEF Bound, TypeOK, Locked, Alone, InList, ActiveIsIncomplete, Tasks, At, Goto, object, locals
<1>1. ASSUME NEW t \in Tasks, NEW b \in Blinks, Call(t, b) PROVE InList'
  BY <1>1 DEF Call, MayBegin
<1>2. ASSUME NEW t \in Tasks, StartLock(t) PROVE InList'
  <2>1. /\ pc[t] = "start_lock" /\ blink_type[t] \in Blinks
        /\ p_blink_steps' = [p_blink_steps EXCEPT ![blink_type[t]] = 0]
        /\ pc' = [pc EXCEPT ![t] = "switch"]
        /\ UNCHANGED <<blink, step>>
    BY <1>2 DEF StartLock
  <2>2. \A u \in Tasks :
            pc'[u] \notin {"read_active", "read_step", "increment", "take", "act"}
    BY <2>1
  <2>3. \A b \in Blinks : p_blink_steps'[b] = IF b = blink_type[t] THEN 0 ELSE p_blink_steps[b]
    BY <2>1
  <2>4. \A u \in Tasks : pc[u] \notin {"take", "act"}
    BY <2>1
  <2>5. \A b \in Blinks : p_blink_steps[b] = Stop
                          \/ p_blink_steps[b] \in 0 .. Len(BlinkList[b]) - 1
    BY <2>4
  <2>6. \A b \in Blinks : p_blink_steps'[b] = Stop
                          \/ p_blink_steps'[b] \in 0 .. Len(BlinkList[b]) - 1
    <3> TAKE b \in Blinks
    <3>1. Len(BlinkList[b]) \in Nat /\ Len(BlinkList[b]) > 0
      BY ListFacts
    <3>2. 0 \in 0 .. Len(BlinkList[b]) - 1
      BY <3>1
    <3>3. CASE b = blink_type[t]
      <4>1. p_blink_steps'[b] = 0
        BY <2>3, <3>3
      <4>2. QED
        BY <3>2, <4>1, Zenon
    <3>4. CASE b # blink_type[t]
      <4>1. p_blink_steps'[b] = p_blink_steps[b]
        BY <2>3, <3>4
      <4>2. QED
        BY <2>5, <4>1, Zenon
    <3>5. QED
      BY <3>3, <3>4
  <2>7. QED
    BY <2>2, <2>6
<1>3. ASSUME NEW t \in Tasks, StopLock(t) PROVE InList'
  <2>1. /\ pc[t] = "stop_lock"
        /\ p_blink_steps' = [p_blink_steps EXCEPT ![blink_type[t]] = Stop]
        /\ pc' = [pc EXCEPT ![t] = "switch"]
        /\ UNCHANGED <<blink, step>>
    BY <1>3 DEF StopLock
  <2>2. \A u \in Tasks :
            pc'[u] \notin {"read_active", "read_step", "increment", "take", "act"}
    BY <2>1
  <2>3. \A u \in Tasks : pc[u] \notin {"take", "act"}
    BY <2>1
  <2>4. \A b \in Blinks : p_blink_steps'[b] \in {Stop, p_blink_steps[b]}
    BY <2>1
  <2>5. QED
    BY <2>2, <2>3, <2>4
<1>4. ASSUME NEW t \in Tasks, Switch(t) PROVE InList'
  <2>1. /\ pc[t] \in {"switch", "run_switch"}
        /\ \E label \in {"pick", "run_pick"} : pc' = [pc EXCEPT ![t] = label]
        /\ UNCHANGED <<p_blink_steps, blink, step>>
    BY <1>4 DEF Switch
  <2>2. \A u \in Tasks :
            /\ pc[u] \notin {"take", "act"}
            /\ pc'[u] \notin {"read_active", "read_step", "increment", "take", "act"}
    BY <2>1
  <2>3. QED
    BY <2>1, <2>2
<1>5. ASSUME NEW t \in Tasks, Pick(t) PROVE InList'
  <2>1. /\ pc[t] \in {"pick", "run_pick"}
        /\ \E label \in {"check", "run"} : pc' = [pc EXCEPT ![t] = label]
        /\ UNCHANGED <<p_blink_steps, blink, step>>
    BY <1>5 DEF Pick
  <2>2. \A u \in Tasks :
            /\ pc[u] \notin {"take", "act"}
            /\ pc'[u] \notin {"read_active", "read_step", "increment", "take", "act"}
    BY <2>1
  <2>3. QED
    BY <2>1, <2>2
<1>6. ASSUME NEW t \in Tasks, Check(t) PROVE InList'
  BY <1>6 DEF Check
<1>7. CASE TimerFire
  BY <1>7 DEF TimerFire, MayBegin
<1>8. ASSUME NEW t \in Tasks, FindActive(t) PROVE InList'
  BY <1>8 DEF FindActive
<1>9. ASSUME NEW t \in Tasks, ReadActive(t) PROVE InList'
  BY <1>9 DEF ReadActive
<1>10. ASSUME NEW t \in Tasks, ReadStep(t) PROVE InList'
  <2>1. pc[t] = "read_step" /\ blink[t] \in Blinks /\ active_blink = blink[t]
    BY <1>10 DEF ReadStep, Slot
  <2>2. p_blink_steps[blink[t]] # Stop
    BY <2>1, ListFacts
  <2>3. \A u \in Tasks : pc[u] \notin {"take", "act"}
    BY <2>1
  <2>4. p_blink_steps[blink[t]] \in 0 .. Len(BlinkList[blink[t]]) - 1
    BY <2>1, <2>2, <2>3
  <2>5. QED
    BY <1>10, <2>1, <2>2, <2>3, <2>4 DEF ReadStep, Slot
<1>11. ASSUME NEW t \in Tasks, Increment(t) PROVE InList'
  <2>1. /\ pc[t] = "increment" /\ blink[t] \in Blinks /\ active_blink = blink[t]
        /\ step[t] \in 0 .. Len(BlinkList[blink[t]]) - 1
        /\ p_blink_steps[blink[t]] = step[t]
        /\ pc' = [pc EXCEPT ![t] = "take"]
        /\ UNCHANGED <<active_blink, blink, step>>
    BY <1>11 DEF Increment
  <2>2. p_blink_steps' = [c \in Blinks |->
            IF c = blink[t] THEN step[t] + 1 ELSE p_blink_steps[c]]
    BY <1>11, <2>1 DEF Increment, Slot, Write
  <2>3. \A u \in Tasks : u # t => pc[u] = "idle" /\ pc'[u] = "idle"
    BY <2>1
  <2>4. \A b \in Blinks : b # blink[t] =>
            p_blink_steps'[b] = Stop \/ p_blink_steps'[b] \in 0 .. Len(BlinkList[b]) - 1
    BY <2>1, <2>2, <2>3
  <2>5. QED
    BY <2>1, <2>2, <2>3, <2>4
<1>12. ASSUME NEW t \in Tasks, Take(t) PROVE InList'
  BY <1>12 DEF Take
<1>13. ASSUME NEW t \in Tasks, ActLoop(t) PROVE InList'
  BY <1>13 DEF ActLoop, Write
<1>14. ASSUME NEW t \in Tasks, ActStop(t) PROVE InList'
  BY <1>14 DEF ActStop, Write
<1>15. ASSUME NEW t \in Tasks, ActHold(t) PROVE InList'
  <2>1. /\ pc[t] = "act" /\ blink[t] \in Blinks
        /\ step[t] \in 0 .. Len(BlinkList[blink[t]]) - 1
        /\ p_blink_steps[blink[t]] = step[t] + 1
    BY <1>15 DEF ActHold
  <2>2. BlinkList[blink[t]][step[t] + 1].type = "HOLD"
    BY <1>15, <2>1 DEF ActHold, StepsRead
  <2>3. p_blink_steps[blink[t]] \in 0 .. Len(BlinkList[blink[t]]) - 1
    BY <2>1, <2>2, EndsAssumption, ListFacts
  <2>4. QED
    BY <1>15, <2>1, <2>3 DEF ActHold
<1>16. CASE UNCHANGED vars
  BY <1>16 DEF vars
<1>17. QED
  BY <1>1, <1>2, <1>3, <1>4, <1>5, <1>6, <1>7, <1>8, <1>9, <1>10, <1>11, <1>12,
     <1>13, <1>14, <1>15, <1>16
     DEF Next, Continue

\* active_blink is what _blink_list_switch found until a step changes the lists again.
LEMMA FirstStep ==
    ASSUME ~Overlap, Bound, Locked, Alone, InList, ActiveFirst, [Next]_vars
    PROVE  ActiveFirst'
<1> USE DEF Bound, TypeOK, Locked, Alone, InList, ActiveFirst, Tasks, At, Goto, object, locals
<1>1. ASSUME NEW t \in Tasks, NEW b \in Blinks, Call(t, b) PROVE ActiveFirst'
  BY <1>1 DEF Call, MayBegin
<1>2. ASSUME NEW t \in Tasks, StartLock(t) PROVE ActiveFirst'
  BY <1>2 DEF StartLock
<1>3. ASSUME NEW t \in Tasks, StopLock(t) PROVE ActiveFirst'
  BY <1>3 DEF StopLock
<1>4. ASSUME NEW t \in Tasks, Switch(t) PROVE ActiveFirst'
  BY <1>4 DEF Switch
<1>5. ASSUME NEW t \in Tasks, Pick(t) PROVE ActiveFirst'
  BY <1>5, FirstFinds DEF Pick
<1>6. ASSUME NEW t \in Tasks, Check(t) PROVE ActiveFirst'
  BY <1>6 DEF Check
<1>7. CASE TimerFire
  BY <1>7 DEF TimerFire, MayBegin
<1>8. ASSUME NEW t \in Tasks, FindActive(t) PROVE ActiveFirst'
  BY <1>8 DEF FindActive
<1>9. ASSUME NEW t \in Tasks, ReadActive(t) PROVE ActiveFirst'
  BY <1>9 DEF ReadActive
<1>10. ASSUME NEW t \in Tasks, ReadStep(t) PROVE ActiveFirst'
  BY <1>10 DEF ReadStep, Slot
<1>11. ASSUME NEW t \in Tasks, Increment(t) PROVE ActiveFirst'
  BY <1>11 DEF Increment, Slot, Write
<1>12. ASSUME NEW t \in Tasks, Take(t) PROVE ActiveFirst'
  BY <1>12 DEF Take
<1>13. ASSUME NEW t \in Tasks, ActLoop(t) PROVE ActiveFirst'
  BY <1>13 DEF ActLoop, Write
<1>14. ASSUME NEW t \in Tasks, ActStop(t) PROVE ActiveFirst'
  BY <1>14 DEF ActStop, Write
<1>15. ASSUME NEW t \in Tasks, ActHold(t) PROVE ActiveFirst'
  BY <1>15 DEF ActHold
<1>16. CASE UNCHANGED vars
  BY <1>16 DEF vars
<1>17. QED
  BY <1>1, <1>2, <1>3, <1>4, <1>5, <1>6, <1>7, <1>8, <1>9, <1>10, <1>11, <1>12,
     <1>13, <1>14, <1>15, <1>16
     DEF Next, Continue

\* The timer is armed whenever a call or callback hands the LED over to it.
LEMMA RearmedStep ==
    ASSUME ~Overlap, Bound, Locked, Alone, InList, ActiveFirst, Rearmed, [Next]_vars
    PROVE  Rearmed'
<1> USE DEF Bound, TypeOK, Locked, Alone, InList, ActiveFirst, Rearmed, Quiet, Tasks,
        At, Goto, object, locals
<1>1. ASSUME NEW t \in Tasks, NEW b \in Blinks, Call(t, b) PROVE Rearmed'
  BY <1>1 DEF Call, MayBegin
<1>2. ASSUME NEW t \in Tasks, StartLock(t) PROVE Rearmed'
  <2>1. /\ pc[t] = "start_lock"
        /\ \A u \in Tasks : pc[u] \notin {"switch", "pick", "run_switch", "run_pick"}
    BY <1>2 DEF StartLock
  <2>2. \A b \in Blinks : p_blink_steps[b] # Stop => active_blink # NoBlink
    BY <2>1, ListFacts DEF NoBlink, Blinks
  <2>3. \A b \in Blinks : p_blink_steps[b] # Stop => armed
    BY <2>1, <2>2
  <2>4. QED
    BY <1>2, <2>1, <2>3 DEF StartLock
<1>3. ASSUME NEW t \in Tasks, StopLock(t) PROVE Rearmed'
  <2>1. pc[t] = "stop_lock" /\ \A u \in Tasks : pc[u] \notin {"switch", "pick", "run_switch", "run_pick"}
    BY <1>3 DEF StopLock
  <2>2. \A b \in Blinks : p_blink_steps[b] # Stop => active_blink # NoBlink
    BY <2>1, ListFacts DEF NoBlink, Blinks
  <2>3. \A b \in Blinks : p_blink_steps[b] # Stop => armed
    BY <2>1, <2>2
  <2>4. QED
    BY <1>3, <2>1, <2>3 DEF StopLock
<1>4. ASSUME NEW t \in Tasks, Switch(t) PROVE Rearmed'
  BY <1>4 DEF Switch
<1>5. ASSUME NEW t \in Tasks, Pick(t) PROVE Rearmed'
  <2>1. /\ pc[t] \in {"pick", "run_pick"}
        /\ active_blink' = First(p_blink_steps)
        /\ pc' = [pc EXCEPT ![t] = IF pc[t] = "pick" THEN "check" ELSE "run"]
        /\ UNCHANGED <<p_blink_steps, armed, blink_type>>
    BY <1>5 DEF Pick
  <2>2. active_blink' # NoBlink =>
            active_blink' \in Blinks /\ p_blink_steps[active_blink'] # Stop
    BY <2>1, FirstFinds
  <2>3. pc[t] = "pick" /\ active_blink' \notin {NoBlink, blink_type[t]} => armed
    BY <2>1, <2>2
  <2>4. \A u \in Tasks : u # t => pc'[u] = "idle"
    BY <2>1
  <2>5. pc'[t] \in {"check", "run"} /\ (pc'[t] = "check" => pc[t] = "pick")
    BY <2>1
  <2>6. QED
    BY <2>1, <2>3, <2>4, <2>5
<1>6. ASSUME NEW t \in Tasks, Check(t) PROVE Rearmed'
  BY <1>6 DEF Check
<1>7. CASE TimerFire
  BY <1>7 DEF TimerFire, MayBegin
<1>8. ASSUME NEW t \in Tasks, FindActive(t) PROVE Rearmed'
  BY <1>8 DEF FindActive
<1>9. ASSUME NEW t \in Tasks, ReadActive(t) PROVE Rearmed'
  BY <1>9 DEF ReadActive
<1>10. ASSUME NEW t \in Tasks, ReadStep(t) PROVE Rearmed'
  BY <1>10 DEF ReadStep, Slot
<1>11. ASSUME NEW t \in Tasks, Increment(t) PROVE Rearmed'
  BY <1>11 DEF Increment, Slot, Write
<1>12. ASSUME NEW t \in Tasks, Take(t) PROVE Rearmed'
  BY <1>12 DEF Take
<1>13. ASSUME NEW t \in Tasks, ActLoop(t) PROVE Rearmed'
  BY <1>13 DEF ActLoop, Write
<1>14. ASSUME NEW t \in Tasks, ActStop(t) PROVE Rearmed'
  BY <1>14 DEF ActStop, Write
<1>15. ASSUME NEW t \in Tasks, ActHold(t) PROVE Rearmed'
  <2>1. PICK s \in StepsRead(blink[t], step[t]) :
               /\ armed' = (armed \/ s.timed)
               /\ Goto(t, IF s.timed THEN "idle" ELSE "run")
    BY <1>15 DEF ActHold
  <2>2. CASE s.timed
    BY <1>15, <2>1, <2>2 DEF ActHold
  <2>3. CASE ~ s.timed
    BY <1>15, <2>1, <2>3 DEF ActHold
  <2>4. QED
    BY <2>2, <2>3
<1>16. CASE UNCHANGED vars
  BY <1>16 DEF vars
<1>17. QED
  BY <1>1, <1>2, <1>3, <1>4, <1>5, <1>6, <1>7, <1>8, <1>9, <1>10, <1>11, <1>12,
     <1>13, <1>14, <1>15, <1>16
     DEF Next, Continue

-----------------------------------------------------------------------------
(* Theorems                                                                 *)

\* What holds whatever calls and callbacks overlap.
Base == Bound /\ Locked /\ ActiveIsIncomplete

\* A new indicator.
LEMMA InitBase == Init => Base
<1> SUFFICES ASSUME Init PROVE Base
  OBVIOUS
<1>1. Stop \in Stop .. MaxStep
  BY MaxStepAssumption DEF Stop
<1>2. TypeOK
  BY <1>1 DEF Init, TypeOK, Pcs, Tasks
<1>3. QED
  BY <1>2 DEF Init, Base, Bound, Locked, ActiveIsIncomplete

LEMMA Invariance == Spec => []Base
<1>1. Base /\ [Next]_vars => Base'
  BY BoundStep, LockedStep, ActiveStep DEF Base
<1>2. QED
  BY <1>1, InitBase, PTL DEF Spec

\* Every variable keeps its type; a step is an index up to MaxStep whatever a runner finds
\* outside of the array.
THEOREM TypeCorrect == Spec => []TypeOK
<1>1. Base => TypeOK
  BY DEF Base, Bound
<1>2. QED
  BY <1>1, Invariance, PTL

\* An active blink that was stopped or has ended is seen only until the holder of the mutex
\* switches away from it, under every interleaving of the unprotected reads and writes of
\* the runner with the API.
THEOREM ActiveIncomplete == Spec => []ActiveIsIncomplete
<1>1. Base => ActiveIsIncomplete
  BY DEF Base
<1>2. QED
  BY <1>1, Invariance, PTL

\* What holds when nothing overlaps.
Inv == Base /\ Alone /\ InList /\ ActiveFirst /\ Rearmed

LEMMA SerialInvariance ==
    ASSUME ~Overlap
    PROVE  Spec => []Inv
<1>1. Init => Alone /\ InList /\ ActiveFirst /\ Rearmed
  BY TasksAssumption
     DEF Init, Alone, InList, ActiveFirst, Rearmed, Tasks
<1>2. Inv /\ [Next]_vars => Inv'
  BY BoundStep, LockedStep, ActiveStep, AloneStep, InListStep, FirstStep, RearmedStep
     DEF Inv, Base
<1>3. QED
  BY <1>1, <1>2, InitBase, PTL DEF Spec, Inv

\* The runner never executes a step outside of the list of its blink, if calls and
\* callbacks do not overlap.
THEOREM Bounds ==
    ASSUME ~Overlap
    PROVE  Spec => []InBounds
<1>1. Inv => InBounds
  BY DEF Inv, Base, InList, InBounds
<1>2. QED
  BY <1>1, SerialInvariance, PTL

\* Between calls the most urgent incomplete blink is the active one, if they do not
\* overlap.
THEOREM MostUrgentActive ==
    ASSUME ~Overlap
    PROVE  Spec => []ActiveIsFirst
<1>1. Inv => ActiveIsFirst
  BY DEF Inv, ActiveFirst, ActiveIsFirst, Quiet
<1>2. QED
  BY <1>1, SerialInvariance, PTL

\* Between calls an active blink has an armed timer, if they do not overlap.
THEOREM NeverStalled ==
    ASSUME ~Overlap
    PROVE  Spec => []NoStall
<1>1. Inv => NoStall
  BY DEF Inv, Rearmed, NoStall
<1>2. QED
  BY <1>1, SerialInvariance, PTL

\* Only led_indicator_start makes a stopped or finished blink incomplete again, if
\* calls and callbacks do not overlap.
THEOREM StopsAreFinal ==
    ASSUME ~Overlap
    PROVE  Spec => StopIsFinal
<1> DEFINE Final ==
      \A b \in Blinks :
         p_blink_steps[b] = Stop /\ p_blink_steps'[b] # Stop =>
             \E c \in Callers : pc[c] = "start_lock" /\ blink_type[c] = b
<1>1. ASSUME Inv, [Next]_vars PROVE Final
  <2> USE DEF Inv, Base, Bound, TypeOK, Alone, InList, Tasks, At, Goto, object, locals
  <2>1. ASSUME NEW t \in Tasks, StartLock(t) PROVE Final
    BY <1>1, <2>1 DEF StartLock
  <2>2. ASSUME NEW t \in Tasks, StopLock(t) PROVE Final
    BY <1>1, <2>2 DEF StopLock
  <2>3. ASSUME NEW t \in Tasks, Increment(t) PROVE Final
    BY <1>1, <2>3 DEF Increment, Slot, Write
  <2>4. ASSUME NEW t \in Tasks, ActLoop(t) PROVE Final
    BY <1>1, <2>4 DEF ActLoop, Write, Stop
  <2>5. ASSUME NEW t \in Tasks, ActStop(t) PROVE Final
    BY <1>1, <2>5 DEF ActStop, Write
  <2>6. ASSUME UNCHANGED p_blink_steps PROVE Final
    BY <2>6
  <2>7. QED
    BY <1>1, <2>1, <2>2, <2>3, <2>4, <2>5, <2>6
       DEF Next, Continue, vars, Call, Pick, Check, TimerFire, ReadActive, ReadStep,
           Take, Switch, FindActive, ActHold
<1>2. QED
  BY <1>1, SerialInvariance, PTL DEF Spec, StopIsFinal

-----------------------------------------------------------------------------
(* Creation and deletion                                                    *)

\* While somebody deletes, there is a handle and no caller is in a call; nor is one
\* without a handle.
Deleting ==
    /\ deletion \in {"none", "lock", "free", "failed", "done"}
    /\ deletion \in {"lock", "free"} => handle
    /\ ~handle => \A t \in Callers : pc[t] = "idle"
    /\ Gone => ~handle
    /\ deletion # "none" => \A t \in Callers : pc[t] = "idle"

\* Base does not mention the LED's parts, but a deletion takes the mutex.
DevInv ==
    /\ handle \in BOOLEAN
    /\ Base
    /\ AllOrNothing
    /\ Deleting

\* A task that goes on is in a call, and nobody else's place changes.
LEMMA ContinueKeeps ==
    ASSUME NEW t \in Tasks, pc \in [Tasks -> Pcs], Continue(t)
    PROVE  pc[t] # "idle" /\ \E label \in Pcs : pc' = [pc EXCEPT ![t] = label]
<1> USE DEF At, Goto, Pcs
<1>1. CASE StartLock(t) \/ StopLock(t) \/ Switch(t) \/ Pick(t) \/ Check(t)
  BY <1>1 DEF StartLock, StopLock, Switch, Pick, Check
<1>2. CASE FindActive(t) \/ ReadActive(t) \/ ReadStep(t) \/ Increment(t) \/ Take(t)
  BY <1>2 DEF FindActive, ReadActive, ReadStep, Increment, Take
<1>3. CASE ActLoop(t) \/ ActStop(t)
  BY <1>3 DEF ActLoop, ActStop
<1>4. CASE ActHold(t)
  BY <1>4 DEF ActHold
<1>5. QED
  BY <1>1, <1>2, <1>3, <1>4 DEF Continue

\* Around the calls, creation and deletion touch the mutex, when it is free, and the timer
\* only.
LEMMA DevBaseStep ==
    ASSUME Base, [DevNext]_devVars
    PROVE  Base'
<1>1. CASE [Next]_vars
  BY <1>1, BoundStep, LockedStep, ActiveStep DEF Base
<1>2. ASSUME UNCHANGED <<object, led, pc, locals>>, mutex = Nobody \/ mutex' = mutex,
             mutex' \in Tasks \cup {Nobody}, armed' \in BOOLEAN
      PROVE  Base'
  BY <1>2, TasksAssumption
     DEF Base, Bound, Locked, TypeOK, ActiveIsIncomplete, Tasks, object, locals
<1>3. CASE Use \/ Proceed
  BY <1>1, <1>3 DEF Use, Proceed, Next, Tasks
<1>4. CASE DeleteLock
  BY <1>2, <1>4 DEF DeleteLock, Base, Bound, TypeOK, Tasks
<1>5. CASE TimerGone
  BY <1>2, <1>5 DEF TimerGone, Base, Bound, TypeOK
<1>6. CASE UNCHANGED vars
  BY <1>1, <1>6
<1>7. QED
  BY <1>3, <1>4, <1>5, <1>6
     DEF DevNext, devVars, Create, CreateFails, DeleteCall, DeleteFails, DeleteTimer, DeleteRest

\* Creation and deletion keep the memory whole; a call begins with a handle only, and
\* none is under way when a deletion begins or ends.
LEMMA DevInvStep ==
    ASSUME DevInv, [DevNext]_devVars
    PROVE  DevInv'
<1> DEFINE Whole == handle \in BOOLEAN /\ AllOrNothing /\ Deleting
<1>0. pc \in [Tasks -> Pcs]
  BY DEF DevInv, Base, Bound, TypeOK
<1> SUFFICES Whole'
  BY DevBaseStep DEF DevInv
<1> USE DEF DevInv, AllOrNothing, Deleting, Gone, Memory, Tasks, device, vars
<1>1. CASE Create
  BY <1>1 DEF Create, AddNode, Order
<1>2. CASE CreateFails
  BY <1>2 DEF CreateFails, Cleanup, Order, freed
<1>3. CASE Use
  BY <1>0, <1>3 DEF Use, Call, Goto
<1>4. CASE Proceed
  <2>1. ASSUME NEW t \in Tasks, Continue(t) PROVE Whole'
    BY <1>0, <1>4, <2>1, ContinueKeeps DEF Proceed
  <2>2. CASE TimerFire
    BY <1>0, <1>4, <2>2, TasksAssumption DEF Proceed, TimerFire, Goto
  <2>3. QED BY <1>4, <2>1, <2>2 DEF Proceed
<1>5. CASE DeleteCall \/ DeleteLock
  BY <1>5 DEF DeleteCall, DeleteLock
<1>6. CASE DeleteFails
  BY <1>6 DEF DeleteFails, Reset
<1>7. CASE DeleteTimer
  BY <1>7 DEF DeleteTimer, Reset
<1>8. CASE DeleteRest
  BY <1>8 DEF DeleteRest, RemoveNode
<1>9. CASE TimerGone
  BY <1>9 DEF TimerGone
<1>10. CASE UNCHANGED devVars
  BY <1>10 DEF devVars
<1>11. QED
  BY <1>1, <1>2, <1>3, <1>4, <1>5, <1>6, <1>7, <1>8, <1>9, <1>10 DEF DevNext

\* From creation to deletion.
LEMMA DevInvariance == DevSpec => []DevInv
<1>1. DevInit => DevInv
  BY InitBase DEF DevInit, Init, DevInv, AllOrNothing, Deleting, Gone, Memory, Tasks
<1>2. DevInv /\ [DevNext]_devVars => DevInv'
  BY DevInvStep
<1>3. QED
  BY <1>1, <1>2, PTL DEF DevSpec

\* Whichever allocation fails and however far a deletion comes, the memory of an LED is
\* all there while it has a handle, a call uses it or its deletion has failed, and all gone
\* otherwise.
THEOREM WholeOrGone == DevSpec => []AllOrNothing
<1>1. DevInv => AllOrNothing
  BY DEF DevInv
<1>2. QED
  BY <1>1, DevInvariance, PTL

\* Deletion may come between any two reads of a runner, and an active blink that is stopped
\* is still seen only until the holder of the mutex switches away from it.
THEOREM DeletedIncomplete == DevSpec => []ActiveIsIncomplete
<1>1. DevInv => ActiveIsIncomplete
  BY DEF DevInv, Base
<1>2. QED
  BY <1>1, DevInvariance, PTL
=============================================================================
