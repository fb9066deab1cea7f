---------------------------- MODULE ButtonProofs ----------------------------
(***************************************************************************)
(* Proofs about Button, for every number of ticks and every width of the    *)
(* counters, and about ButtonDevices, for every number of buttons, channels  *)
(* and rows of the table.  The invariants of the latter come in layers: the  *)
(* list (Linked, Busy), the table (Table, Taken), the sample (Sampled).      *)
(***************************************************************************)
EXTENDS Button, ButtonDevices, FiniteSetTheorems, WellFoundedInduction, TLAPS

\* In states 1, 3 and 5 the button is down, in 0 and 2 it is up; a press that would
\* exceed the bound is not under way.
Levels ==
    /\ state \in {1, 3, 5} <=> button_level
    /\ state = 2 /\ raw => presses < MaxPresses
    /\ state \in {1, 5} => presses = 1

\* The field repeat is the number of presses while a gesture is under way.
Counts ==
    /\ state # 0 => repeat = presses /\ presses > 0
    /\ state = 3 => presses > 1
    /\ CountInCallbacks

\* The fields that Debounce changes.
LEMMA DebounceFacts ==
    ASSUME TypeOK, Debounce
    PROVE  /\ raw' = raw
           /\ button_level' \in BOOLEAN
           /\ debounce_cnt' \in 0 .. DebounceMod - 1
           /\ recent' \in Seq(BOOLEAN)
           /\ button_level /\ ~button_level' => ~raw
           /\ ~button_level /\ button_level' => raw
<1> USE WidthAssumption, TicksAssumption DEF TypeOK, Debounce, Increment
<1>1. raw' = raw /\ debounce_cnt' \in 0 .. DebounceMod - 1
  OBVIOUS
<1>2. /\ button_level' \in BOOLEAN
      /\ button_level /\ ~button_level' => ~raw
      /\ ~button_level /\ button_level' => raw
  OBVIOUS
<1>3. recent' \in Seq(BOOLEAN)
  <2> DEFINE r == Append(recent, raw)
  <2>1. r \in Seq(BOOLEAN) /\ Len(r) > 0 /\ r # <<>>
    OBVIOUS
  <2>2. Tail(r) \in Seq(BOOLEAN)
    BY <2>1
  <2>3. recent' = IF Len(r) > DEBOUNCE_TICKS THEN Tail(r) ELSE r
    OBVIOUS
  <2>4. QED
    BY <2>1, <2>2, <2>3
<1>4. QED
  BY <1>1, <1>2, <1>3

\* ++ stays in the field.
LEMMA IncrementInWidth ==
    ASSUME NEW mod \in Nat, NEW n \in 0 .. mod - 1
    PROVE  Increment(n, mod) \in 0 .. mod - 1
BY DEF Increment

\* The clock stays in its field.
LEMMA NowInWidth ==
    ASSUME TypeOK
    PROVE  Now \in 0 .. TicksMod - 1
BY IncrementInWidth, WidthAssumption DEF TypeOK, Now

\* One callback, or none.
LEMMA OneCallback ==
    ASSUME NEW S, NEW c \in S
    PROVE  <<c>> \in Seq(S) /\ Len(<<c>>) = 1 /\ <<c>>[1] = c
OBVIOUS

LEMMA ReportFacts ==
    ASSUME TypeOK
    PROVE  /\ \A ev \in Events : Report(ev) =>
                 event' \in Events /\ calls' \in Seq(Callbacks)
           /\ Silent => event' \in Events /\ calls' \in Seq(Callbacks)
<1>1. ASSUME NEW ev \in Events, Report(ev)
      PROVE  event' \in Events /\ calls' \in Seq(Callbacks)
  <2> DEFINE c == [cb |-> ev, event |-> ev, repeat |-> repeat]
  <2>1. c \in Callbacks
    BY DEF TypeOK, Callbacks
  <2>2. event' = ev /\ calls' = <<c>>
    BY <1>1 DEF Report
  <2> HIDE DEF c
  <2>3. QED
    BY <2>1, <2>2, OneCallback
<1>2. Silent => event' \in Events /\ calls' \in Seq(Callbacks)
  BY DEF TypeOK, Silent
<1>3. QED
  BY <1>1, <1>2

\* No step breaks a type, or lets the state and the level disagree.
LEMMA TypeStep ==
    ASSUME TypeOK, Levels, [Next]_vars
    PROVE  TypeOK' /\ Levels'
<1> USE WidthAssumption, BoundAssumption DEF TypeOK, Levels, debounce
<1>1. CASE Move
  BY <1>1 DEF Move
<1>2. CASE Press
  <2>1. Debounce
    BY <1>2 DEF Press
  <2>2. event' \in Events /\ calls' \in Seq(Callbacks)
    BY <1>2, ReportFacts DEF Press, Events
  <2>3. QED
    BY <1>2, <2>1, <2>2, DebounceFacts, NowInWidth, IncrementInWidth
       DEF Press
<1>3. CASE Idle
  BY <1>3, DebounceFacts DEF Idle, Events
<1>4. CASE Release
  <2>1. Debounce
    BY <1>4 DEF Release
  <2>2. event' \in Events /\ calls' \in Seq(Callbacks)
    BY <1>4, ReportFacts DEF Release, Events
  <2>3. QED
    BY <1>4, <2>1, <2>2, DebounceFacts, NowInWidth, IncrementInWidth
       DEF Release
<1>5. CASE LongStart
  <2>1. Debounce
    BY <1>5 DEF LongStart
  <2>2. event' \in Events /\ calls' \in Seq(Callbacks)
    BY <1>5, ReportFacts DEF LongStart, Events
  <2>3. QED
    BY <1>5, <2>1, <2>2, DebounceFacts, NowInWidth, IncrementInWidth
       DEF LongStart
<1>6. CASE PressAgain
  <2>1. Debounce /\ repeat' \in 0 .. RepeatMod - 1
    BY <1>6, IncrementInWidth DEF PressAgain
  <2>2. event' \in Events
    BY <1>6 DEF PressAgain, Events
  <2>3. calls' \in Seq(Callbacks)
    BY <1>6, <2>1 DEF PressAgain, Callbacks, Events
  <2>4. QED
    BY <1>6, <2>1, <2>2, <2>3, DebounceFacts DEF PressAgain
<1>7. CASE Click
  <2>1. Debounce
    BY <1>7 DEF Click
  <2>2. event' \in Events /\ calls' \in Seq(Callbacks)
    BY <1>7, ReportFacts DEF Click, Events
  <2>3. QED
    BY <1>7, <2>1, <2>2, DebounceFacts, NowInWidth, IncrementInWidth
       DEF Click
<1>8. CASE ReleaseAgain
  <2>1. Debounce
    BY <1>8 DEF ReleaseAgain
  <2>2. event' \in Events /\ calls' \in Seq(Callbacks)
    BY <1>8, ReportFacts DEF ReleaseAgain, Events
  <2>3. QED
    BY <1>8, <2>1, <2>2, DebounceFacts, NowInWidth, IncrementInWidth
       DEF ReleaseAgain
<1>9. CASE LongHold
  <2>1. Debounce
    BY <1>9 DEF LongHold
  <2>2. event' \in Events /\ calls' \in Seq(Callbacks)
    BY <1>9, ReportFacts DEF LongHold, Events
  <2>3. QED
    BY <1>9, <2>1, <2>2, DebounceFacts, NowInWidth, IncrementInWidth
       DEF LongHold
<1>10. CASE LongRelease
  <2>1. Debounce
    BY <1>10 DEF LongRelease
  <2>2. event' \in Events /\ calls' \in Seq(Callbacks)
    BY <1>10, ReportFacts DEF LongRelease, Events
  <2>3. QED
    BY <1>10, <2>1, <2>2, DebounceFacts, NowInWidth, IncrementInWidth
       DEF LongRelease
<1>11. CASE Wait
  <2>1. Debounce
    BY <1>11 DEF Wait
  <2>2. event' \in Events /\ calls' \in Seq(Callbacks)
    BY <1>11, ReportFacts DEF Wait, Events
  <2>3. QED
    BY <1>11, <2>1, <2>2, DebounceFacts, NowInWidth, IncrementInWidth
       DEF Wait
<1>12. CASE UNCHANGED vars
  BY <1>12 DEF vars
<1>13. QED
  BY <1>1, <1>2, <1>3, <1>4, <1>5, <1>6, <1>7, <1>8, <1>9, <1>10, <1>11, <1>12
     DEF Next, Scan

-----------------------------------------------------------------------------
(* Counts, for gestures that fit in the field                               *)

\* A gesture with fewer presses than the field can count is counted right.
LEMMA CountsStep ==
    ASSUME MaxPresses < RepeatMod, TypeOK, Levels, Counts, [Next]_vars
    PROVE  Counts'
<1> USE WidthAssumption, BoundAssumption DEF TypeOK, Levels, Counts, CountInCallbacks, debounce
<1>1. CASE Move
  BY <1>1 DEF Move
<1>2. CASE Press
  BY <1>2 DEF Press, Report
<1>3. CASE Idle
  BY <1>3 DEF Idle
<1>4. CASE Release
  BY <1>4 DEF Release, Report, Silent
<1>5. CASE LongStart
  BY <1>5 DEF LongStart, Report, Silent
<1>6. CASE PressAgain
  <2>1. repeat = presses /\ presses > 0 /\ presses < MaxPresses
    BY <1>6, DebounceFacts DEF PressAgain
  <2>2. repeat' = presses' /\ presses' > 1 /\ presses' > 0 /\ state' = 3
    BY <1>6, <2>1 DEF PressAgain, Increment
  <2>3. CountInCallbacks'
    BY <1>6, <2>2 DEF PressAgain, CountInCallbacks
  <2>4. QED
    BY <2>2, <2>3
<1>7. CASE Click
  <2>1. repeat = presses /\ repeat' = repeat /\ presses' = presses /\ state' = 0
    BY <1>7 DEF Click
  <2>2. CountInCallbacks'
    BY <1>7, <2>1 DEF Click, CountInCallbacks, Report, Silent
  <2>3. QED
    BY <2>1, <2>2
<1>8. CASE ReleaseAgain
  BY <1>8 DEF ReleaseAgain, Report, Silent
<1>9. CASE LongHold
  BY <1>9 DEF LongHold, Report, Silent
<1>10. CASE LongRelease
  BY <1>10 DEF LongRelease, Report, Silent
<1>11. CASE Wait
  BY <1>11 DEF Wait, Report, Silent
<1>12. CASE UNCHANGED vars
  BY <1>12 DEF vars
<1>13. QED
  BY <1>1, <1>2, <1>3, <1>4, <1>5, <1>6, <1>7, <1>8, <1>9, <1>10, <1>11, <1>12
     DEF Next, Scan

-----------------------------------------------------------------------------
(* DebounceHonest                                                           *)

\* The last debounce_cnt levels read are contrary to the button's.
Contrary ==
    /\ Len(recent) <= DEBOUNCE_TICKS
    /\ debounce_cnt < DEBOUNCE_TICKS /\ debounce_cnt <= Len(recent)
    /\ \A i \in Len(recent) - debounce_cnt + 1 .. Len(recent) : recent[i] # button_level

\* What an accepted level rests on.
Accepted ==
    button_level' # button_level =>
        /\ Len(recent') = DEBOUNCE_TICKS
        /\ \A i \in 1 .. DEBOUNCE_TICKS : recent'[i] = button_level'

\* One scan with one more level.
LEMMA DebounceStep ==
    ASSUME TypeOK, Contrary, Debounce
    PROVE  Contrary' /\ Accepted
<1> DEFINE cnt == Increment(debounce_cnt, DebounceMod)
           accepted == raw # button_level /\ cnt >= DEBOUNCE_TICKS
           r == Append(recent, raw)
           n == Len(recent)
<1>1. /\ n \in Nat /\ n <= DEBOUNCE_TICKS /\ debounce_cnt \in Nat /\ debounce_cnt <= n
      /\ debounce_cnt < DEBOUNCE_TICKS /\ DEBOUNCE_TICKS \in Nat \ {0}
      /\ recent \in Seq(BOOLEAN) /\ raw \in BOOLEAN /\ button_level \in BOOLEAN
  BY TicksAssumption DEF TypeOK, Contrary
<1>2. cnt = debounce_cnt + 1 \/ cnt = 0
  BY DEF Increment
<1>3. /\ Len(r) = n + 1
      /\ \A i \in 1 .. n : r[i] = recent[i]
      /\ r[n + 1] = raw
  BY <1>1
<1>4. raw # button_level =>
        \A i \in n - debounce_cnt + 1 .. n + 1 : r[i] = raw
  <2> SUFFICES ASSUME raw # button_level, NEW i \in n - debounce_cnt + 1 .. n + 1
               PROVE  r[i] = raw
    OBVIOUS
  <2>1. CASE i = n + 1
    BY <1>3, <2>1
  <2>2. CASE i <= n
    <3>1. i \in 1 .. n /\ recent[i] # button_level
      BY <1>1, <2>2 DEF Contrary
    <3>2. recent[i] \in BOOLEAN
      BY <1>1, <3>1
    <3>3. QED
      BY <1>1, <1>3, <3>1, <3>2
  <2>3. QED
    BY <1>1, <2>1, <2>2
<1>5. CASE n < DEBOUNCE_TICKS
  <2>1. recent' = r
    BY <1>1, <1>3, <1>5 DEF Debounce
  <2>2. QED
    BY <1>1, <1>2, <1>3, <1>4, <1>5, <2>1, SMTT(30) DEF Debounce, Contrary, Accepted
<1>6. CASE n = DEBOUNCE_TICKS
  <2>1. recent' = Tail(r)
    BY <1>1, <1>3, <1>6 DEF Debounce
  <2>2. Len(recent') = n /\ \A i \in 1 .. n : recent'[i] = r[i + 1]
    <3> HIDE DEF r
    <3>1. Len(r) = n + 1 /\ r # <<>>
      BY <1>1, <1>3
    <3>2. Len(Tail(r)) = Len(r) - 1 /\ \A i \in 1 .. Len(Tail(r)) : Tail(r)[i] = r[i + 1]
      BY <1>3, <3>1
    <3>3. QED
      BY <1>1, <2>1, <3>1, <3>2
  <2>3. QED
    BY <1>1, <1>2, <1>3, <1>4, <1>6, <2>2, SMTT(30) DEF Debounce, Contrary, Accepted
<1>7. QED
  BY <1>1, <1>5, <1>6

-----------------------------------------------------------------------------
(* Theorems                                                                 *)

\* A new button.
LEMMA InitOK == Init => TypeOK /\ Levels
<1> SUFFICES ASSUME Init PROVE TypeOK /\ Levels
  OBVIOUS
<1>1. calls \in Seq(Callbacks) /\ recent \in Seq(BOOLEAN)
  BY DEF Init
<1>2. /\ 0 \in 0 .. DebounceMod - 1 /\ 0 \in 0 .. TicksMod - 1
      /\ 0 \in 0 .. RepeatMod - 1 /\ 0 \in 0 .. MaxPresses
  BY WidthAssumption, TicksAssumption, BoundAssumption
<1>3. TypeOK
  BY <1>1, <1>2 DEF Init, TypeOK, Events
<1>4. state = 0 /\ ~button_level
  BY DEF Init
<1>5. QED
  BY <1>3, <1>4 DEF Levels

\* What holds for gestures of any length.
LEMMA Invariance == Spec => [](TypeOK /\ Levels /\ Contrary)
<1>1. Init => TypeOK /\ Levels /\ Contrary
  <2>1. Init => Contrary
    BY TicksAssumption DEF Init, Contrary
  <2>2. QED
    BY <2>1, InitOK
<1>2. ASSUME TypeOK, Contrary, [Next]_vars PROVE Contrary'
  BY <1>2, DebounceStep
     DEF Next, Scan, Move, Press, Idle, Release, LongStart, PressAgain, Click,
         ReleaseAgain, LongHold, LongRelease, Wait, vars, debounce, Contrary
<1>3. QED
  BY <1>1, <1>2, TypeStep, PTL DEF Spec

\* Every field keeps the width of its type.
THEOREM TypeCorrect == Spec => []TypeOK
BY Invariance, PTL

\* A level is accepted only after DEBOUNCE_TICKS scans in a row have read it, for
\* every DEBOUNCE_TICKS and every width of the counter.
THEOREM Debounced == Spec => DebounceHonest
<1>1. ASSUME TypeOK, Contrary, [Next]_vars PROVE Accepted
  <2>1. CASE UNCHANGED button_level
    BY <2>1 DEF Accepted
  <2>2. CASE Debounce
    BY <1>1, <2>2, DebounceStep
  <2>3. QED
    BY <1>1, <2>1, <2>2
       DEF Next, Scan, Move, Press, Idle, Release, LongStart, PressAgain, Click,
           ReleaseAgain, LongHold, LongRelease, Wait, vars, debounce
<1>2. (TypeOK /\ Contrary /\ [Next]_vars) => Accepted
  BY <1>1
<1>3. QED
  BY <1>2, Invariance, PTL DEF Spec, DebounceHonest, Accepted

\* The level before the contrary ones is the button's.
Latest == debounce_cnt < Len(recent) => recent[Len(recent) - debounce_cnt] = button_level

\* One scan with one more level, if the counter can count up to DEBOUNCE_TICKS.
LEMMA LatestStep ==
    ASSUME DEBOUNCE_TICKS < DebounceMod, TypeOK, Contrary, Latest, Debounce
    PROVE  Latest'
<1> DEFINE accepted == raw # button_level /\ debounce_cnt + 1 >= DEBOUNCE_TICKS
           r == Append(recent, raw)
           n == Len(recent)
<1>1. /\ n \in Nat /\ n <= DEBOUNCE_TICKS /\ debounce_cnt \in Nat /\ debounce_cnt <= n
      /\ debounce_cnt < DEBOUNCE_TICKS /\ DEBOUNCE_TICKS \in Nat \ {0}
      /\ recent \in Seq(BOOLEAN) /\ raw \in BOOLEAN /\ button_level \in BOOLEAN
  BY TicksAssumption DEF TypeOK, Contrary
<1>2. Increment(debounce_cnt, DebounceMod) = debounce_cnt + 1
  BY <1>1, WidthAssumption DEF Increment
<1>3. /\ button_level' = (IF accepted THEN raw ELSE button_level)
      /\ debounce_cnt' = IF raw = button_level \/ accepted THEN 0 ELSE debounce_cnt + 1
      /\ recent' = IF Len(r) > DEBOUNCE_TICKS THEN Tail(r) ELSE r
  BY <1>2 DEF Debounce
<1>4. Len(r) = n + 1 /\ r # <<>> /\ r[n + 1] = raw /\ \A i \in 1 .. n : r[i] = recent[i]
  BY <1>1
<1>5. /\ Len(recent') \in 1 .. n + 1
      /\ \A j \in 0 .. Len(recent') - 1 : recent'[Len(recent') - j] = r[n + 1 - j]
  <2> HIDE DEF r
  <2>1. CASE n < DEBOUNCE_TICKS
    <3>1. recent' = r
      BY <1>1, <1>3, <1>4, <2>1
    <3>2. QED
      BY <1>1, <1>4, <3>1
  <2>2. CASE n = DEBOUNCE_TICKS
    <3>1. recent' = Tail(r)
      BY <1>1, <1>3, <1>4, <2>2
    <3>2. Len(Tail(r)) = n /\ \A i \in 1 .. n : Tail(r)[i] = r[i + 1]
      <4>1. r \in Seq(BOOLEAN)
        BY <1>1 DEF r
      <4>2. QED
        BY <1>1, <1>4, <4>1
    <3>3. QED
      BY <1>1, <2>2, <3>1, <3>2
  <2>3. QED
    BY <1>1, <2>1, <2>2
<1> HIDE DEF r
<1>6. CASE debounce_cnt' = 0
  <2>1. button_level' = raw
    BY <1>1, <1>3, <1>6
  <2>2. recent'[Len(recent') - 0] = r[n + 1 - 0]
    BY <1>1, <1>5
  <2>3. recent'[Len(recent') - debounce_cnt'] = raw
    BY <1>1, <1>4, <1>5, <1>6, <2>2
  <2>4. QED
    BY <2>1, <2>3 DEF Latest
<1>7. CASE debounce_cnt' # 0
  <2>1. debounce_cnt' = debounce_cnt + 1 /\ button_level' = button_level
    BY <1>3, <1>7
  <2> SUFFICES ASSUME debounce_cnt + 1 < Len(recent')
               PROVE  recent'[Len(recent') - (debounce_cnt + 1)] = button_level
    BY <2>1 DEF Latest
  <2>2. recent'[Len(recent') - (debounce_cnt + 1)] = r[n + 1 - (debounce_cnt + 1)]
    <3>1. debounce_cnt + 1 \in 0 .. Len(recent') - 1
      BY <1>1, <1>5
    <3>2. QED
      BY <1>5, <3>1
  <2>3. debounce_cnt < n /\ n - debounce_cnt \in 1 .. n
    BY <1>1, <1>5
  <2>4. r[n - debounce_cnt] = button_level
    BY <1>4, <2>3 DEF Latest
  <2>5. n + 1 - (debounce_cnt + 1) = n - debounce_cnt
    BY <1>1
  <2>6. QED
    BY <2>2, <2>4, <2>5
<1>8. QED
  BY <1>6, <1>7

\* One of the last DEBOUNCE_TICKS levels read is the button's.
AcceptedInTime ==
    Len(recent) = DEBOUNCE_TICKS => \E i \in 1 .. DEBOUNCE_TICKS : recent[i] = button_level

\* A level that DEBOUNCE_TICKS scans in a row have read is accepted at the last of them, if
\* the counter can count them: the safety that LevelAccepted rests on.
THEOREM Accepts ==
    ASSUME DEBOUNCE_TICKS < DebounceMod
    PROVE  Spec => []AcceptedInTime
<1>1. Init => Latest
  BY DEF Init, Latest
<1>2. ASSUME TypeOK, Contrary, Latest, [Next]_vars PROVE Latest'
  BY <1>2, LatestStep
     DEF Next, Scan, Move, Press, Idle, Release, LongStart, PressAgain, Click,
         ReleaseAgain, LongHold, LongRelease, Wait, vars, debounce, Latest
<1>3. ASSUME TypeOK, Contrary, Latest PROVE AcceptedInTime
  <2>1. /\ DEBOUNCE_TICKS \in Nat /\ debounce_cnt \in Nat /\ debounce_cnt < DEBOUNCE_TICKS
    BY <1>3, TicksAssumption, WidthAssumption DEF TypeOK, Contrary
  <2>2. DEBOUNCE_TICKS - debounce_cnt \in 1 .. DEBOUNCE_TICKS
    BY <2>1
  <2>3. QED
    BY <1>3, <2>1, <2>2 DEF Latest, AcceptedInTime
<1>4. QED
  BY <1>1, <1>2, <1>3, Invariance, PTL DEF Spec

LEMMA CountsInvariance ==
    ASSUME MaxPresses < RepeatMod
    PROVE  Spec => [](TypeOK /\ Levels /\ Counts)
<1>1. Init => TypeOK /\ Levels /\ Counts
  <2>1. Init => Counts
    BY DEF Init, Counts, CountInCallbacks
  <2>2. QED
    BY <2>1, InitOK
<1>2. QED
  BY <1>1, TypeStep, CountsStep, PTL DEF Spec

\* Callbacks see how often the button was pressed, in gestures that the field can count.
THEOREM Counted ==
    ASSUME MaxPresses < RepeatMod
    PROVE  Spec => []CountInCallbacks
<1>1. Counts => CountInCallbacks
  BY DEF Counts
<1>2. QED
  BY <1>1, CountsInvariance, PTL
-----------------------------------------------------------------------------
(* The button implements ButtonGesture                                      *)

\* What the callbacks are called, for one of them and for none.
LEMMA NamesFacts ==
    /\ \A ev : Report(ev) => Names' = <<ev>>
    /\ calls' = <<>> => Names' = <<>>
BY DEF Names, Report

LEMMA RefinementStep ==
    ASSUME TypeOK, Levels, Counts, MaxPresses < RepeatMod, [Next]_vars
    PROVE  [Gesture!Next]_(Gesture!vars)
<1> USE DEF TypeOK, Levels, Counts, Phase, Gesture!Next
<1>1. CASE Move
  BY <1>1 DEF Move, Names, Gesture!vars
<1>2. CASE Press
  <2>1. Names' = <<"PRESS_DOWN">>
    BY <1>2, NamesFacts DEF Press
  <2>2. QED
    BY <1>2, <2>1 DEF Press, Gesture!Press
<1>3. CASE Idle
  <2>1. Names' = <<>>
    BY <1>3, NamesFacts DEF Idle, Silent
  <2>2. QED
    BY <1>3, <2>1 DEF Idle, Gesture!Nothing
<1>4. CASE Release
  <2>1. Names' = <<"PRESS_UP">>
    BY <1>4, NamesFacts DEF Release
  <2>2. QED
    BY <1>4, <2>1 DEF Release, Gesture!Release
<1>5. CASE LongStart
  <2>1. Names' = <<"LONG_PRESS_START">>
    BY <1>5, NamesFacts DEF LongStart
  <2>2. QED
    BY <1>5, <2>1 DEF LongStart, Gesture!LongStart
<1>6. CASE PressAgain
  <2>1. Names' = <<"PRESS_DOWN", "PRESS_REPEAT">>
    BY <1>6 DEF PressAgain, Names
  <2>2. QED
    BY <1>6, <2>1 DEF PressAgain, Gesture!PressAgain
<1>7. CASE Click
  <2>1. repeat = presses /\ state = 2 /\ state' = 0 /\ presses' = presses
    BY <1>7 DEF Click
  <2>2. Names' = CASE presses = 1 -> <<"SINGLE_CLICK">>
                   [] presses = 2 -> <<"DOUBLE_CLICK">>
                   [] OTHER -> <<>>
    BY <1>7, <2>1, NamesFacts DEF Click, Silent
  <2>3. QED
    BY <2>1, <2>2 DEF Gesture!Click
<1>8. CASE ReleaseAgain
  <2>1. Names' = <<"PRESS_UP">>
    BY <1>8, NamesFacts DEF ReleaseAgain
  <2>2. QED
    BY <1>8, <2>1 DEF ReleaseAgain, Gesture!Release
<1>9. CASE LongHold
  <2>1. Names' = <<"LONG_PRESS_HOLD">>
    BY <1>9, NamesFacts DEF LongHold
  <2>2. QED
    BY <1>9, <2>1 DEF LongHold, Gesture!LongHold
<1>10. CASE LongRelease
  <2>1. Names' = <<"PRESS_UP">>
    BY <1>10, NamesFacts DEF LongRelease
  <2>2. QED
    BY <1>10, <2>1 DEF LongRelease, Gesture!LongRelease
<1>11. CASE Wait
  <2>1. Names' = <<>>
    BY <1>11, NamesFacts DEF Wait, Silent
  <2>2. QED
    BY <1>11, <2>1 DEF Wait, Gesture!Nothing
<1>12. CASE UNCHANGED vars
  BY <1>12 DEF vars, Names, Gesture!vars
<1>13. QED
  BY <1>1, <1>2, <1>3, <1>4, <1>5, <1>6, <1>7, <1>8, <1>9, <1>10, <1>11, <1>12
     DEF Next, Scan, Gesture!Next

\* Whatever the contact does, callbacks come in the order of gestures, and clicks are
\* counted right in gestures that the field can count.
THEOREM Refinement ==
    ASSUME MaxPresses < RepeatMod
    PROVE  Spec => GestureRefined
<1>1. Init => Gesture!Init
  BY DEF Init, Gesture!Init, Phase, Names
<1>2. TypeOK /\ Levels /\ Counts /\ [Next]_vars => [Gesture!Next]_(Gesture!vars)
  BY RefinementStep
<1>3. QED
  BY <1>1, <1>2, CountsInvariance, PTL DEF Spec, GestureRefined, Gesture!Spec

-----------------------------------------------------------------------------
(* ButtonDevices                                                            *)

\* A set of rows has a first one.
LEMMA FirstRow ==
    ASSUME NEW S \in SUBSET Slots, S # {}
    PROVE  First(S) \in S /\ \A other \in S : First(S) <= other
<1> DEFINE R == StrictSubsetOrdering(Slots)
           Below == {1 .. k : k \in S}
<1>1. IsFiniteSet(Slots)
  BY FS_Interval, ChannelAssumption DEF Slots
<1>2. IsWellFoundedOn(R, SUBSET Slots)
  BY <1>1, FS_StrictSubsetOrderingWellFounded, FS_FiniteSubsetsOfFinite
<1>3. Below \subseteq SUBSET Slots /\ Below # {}
  <2>1. \A k \in S : 1 .. k \subseteq Slots
    BY ChannelAssumption DEF Slots
  <2>2. QED
    BY <2>1, Zenon
<1>4. PICK i \in Below : \A j \in Below : <<j, i>> \notin R
  <2> HIDE DEF R, Below
  <2> QED BY <1>2, <1>3, WFMin
<1>5. PICK m \in S : i = 1 .. m
  OBVIOUS
<1>6. ASSUME NEW k \in S
      PROVE  m <= k
  <2> DEFINE K == 1 .. k
             M == 1 .. m
  <2>1. m \in Slots /\ k \in Slots /\ K \in SUBSET Slots /\ M \in SUBSET Slots
    BY ChannelAssumption DEF Slots
  <2>2. <<K, M>> \notin R
    BY <1>4, <1>5
  <2>3. ~ (K \subseteq M /\ K # M)
    <3> HIDE DEF K, M
    <3> QED BY <2>1, <2>2 DEF StrictSubsetOrdering
  <2>4. k < m => K \subseteq M /\ m \in M /\ m \notin K
    BY <2>1, ChannelAssumption DEF Slots
  <2>5. ~ (k < m)
    BY <2>3, <2>4
  <2>6. QED
    BY <2>1, <2>5, ChannelAssumption DEF Slots
<1>7. QED
  BY <1>5, <1>6 DEF First

\* It is the only one.
LEMMA FirstIsUnique ==
    ASSUME NEW S \in SUBSET Slots, NEW s \in S, \A other \in S : s <= other
    PROVE  s = First(S)
<1>1. First(S) \in S /\ First(S) <= s /\ s <= First(S)
  BY FirstRow
<1>2. \A k \in S : k \in Int
  BY ChannelAssumption DEF Slots
<1>3. QED
  BY <1>1, <1>2

LEMMA AdcFacts ==
    ASSUME NEW d \in Adc
    PROVE  d # Gpio /\ d.channel \in Channels /\ d.channel # CHANNEL_MAX /\ d.index \in Indexes
BY ChannelAssumption DEF Adc, Gpio

-----------------------------------------------------------------------------
(* The list                                                                 *)

\* The list starts at a button and stays among buttons; every way along it that starts
\* at the head meets all buttons, and every way ends.
Linked ==
    /\ g_head_handle \in alive \cup {NULL}
    /\ g_head_handle = NULL => alive = {}
    /\ Closed(alive)
    /\ \A b \in Buttons \ alive : next[b] = NULL
    /\ \A S \in SUBSET Buttons : g_head_handle \in S /\ Closed(S) => alive \subseteq S
    /\ \A S \in SUBSET alive : S # {} /\ Closed(S) => \E last \in S : next[last] = NULL

\* The flag of the timer is set while there are buttons; the scan and the call under way are at
\* buttons that exist, or do not yet.
Busy ==
    /\ g_is_timer_running <=> alive # {}
    /\ timer => g_is_timer_running
    /\ target \in alive \cup {NULL}
    /\ api_pc = "link" => btn \in Buttons \ alive
    /\ api_pc = "unlink" => btn \in alive /\ device[btn] = dev

\* A new head is linked to the old one.
LEMMA LinkKeepsList ==
    ASSUME DevTypeOK, Linked, Busy, Link
    PROVE  Linked'
<1> DEFINE b == btn
<1>1. /\ b \in Buttons /\ b \notin alive /\ b # NULL /\ NULL \notin Buttons
      /\ next \in [Buttons -> Buttons \cup {NULL}] /\ alive \subseteq Buttons
      /\ next' = [next EXCEPT ![b] = g_head_handle]
      /\ g_head_handle' = b /\ alive' = alive \cup {b}
      /\ next[b] = NULL
  BY ButtonAssumption DEF DevTypeOK, Linked, Busy, Link
<1> HIDE DEF b
<1>2. Closed(alive)'
  BY <1>1 DEF Closed, Linked
<1>3. ASSUME NEW S \in SUBSET Buttons, b \in S, Closed(S)'
      PROVE  alive' \subseteq S
  <2>1. Closed(S) /\ next'[b] \in S \cup {NULL}
    BY <1>1, <1>3 DEF Closed
  <2>2. CASE g_head_handle = NULL
    BY <1>1, <1>3, <2>2 DEF Linked
  <2>3. CASE g_head_handle # NULL
    BY <1>1, <1>3, <2>1, <2>3 DEF Linked
  <2>4. QED
    BY <2>2, <2>3
<1>4. ASSUME NEW S \in SUBSET (alive \cup {b}), S # {}, Closed(S)'
      PROVE  \E last \in S : next'[last] = NULL
  <2> DEFINE T == S \ {b}
  <2>1. \A x \in T : next'[x] = next[x] /\ next[x] \in T \cup {NULL}
    BY <1>1, <1>4 DEF Closed, Linked
  <2>2. T \in SUBSET alive /\ Closed(T)
    BY <1>1, <2>1 DEF Closed
  <2>3. CASE T # {}
    <3>1. \E last \in T : next[last] = NULL
      BY <2>2, <2>3 DEF Linked
    <3>2. QED
      BY <2>1, <3>1
  <2>4. CASE T = {}
    <3>1. S = {b} /\ next'[b] = g_head_handle
      BY <1>1, <1>4, <2>4
    <3>2. g_head_handle = NULL
      BY <1>1, <1>4, <3>1 DEF Closed, Linked
    <3>3. QED
      BY <3>1, <3>2
  <2>5. QED
    BY <2>3, <2>4
<1>5. QED
  BY <1>1, <1>2, <1>3, <1>4 DEF Linked

\* A button that is taken out leaves the others linked in the same order.
LEMMA UnlinkKeepsList ==
    ASSUME DevTypeOK, Linked, Busy, Unlink
    PROVE  Linked' /\ (g_head_handle' = NULL <=> alive' = {})
<1> DEFINE b == btn
<1>1. /\ b \in alive /\ alive \subseteq Buttons /\ NULL \notin Buttons
      /\ next \in [Buttons -> Buttons \cup {NULL}]
      /\ g_head_handle' = IF g_head_handle = b THEN next[b] ELSE g_head_handle
      /\ alive' = alive \ {b}
  BY ButtonAssumption DEF DevTypeOK, Linked, Busy, Unlink
<1>2. \A x \in Buttons :
         next'[x] = IF x = b THEN NULL ELSE IF next[x] = b THEN next[b] ELSE next[x]
  BY <1>1, ButtonAssumption DEF Unlink, Unlinked, Linked
<1> HIDE DEF b
<1>3. next[b] # b
  <2>1. next[b] = b => {b} \in SUBSET alive /\ Closed({b})
    BY <1>1 DEF Closed
  <2>2. next[b] = b => next[b] = NULL
    BY <2>1 DEF Linked
  <2>3. QED
    BY <1>1, <2>2
<1>4. g_head_handle # NULL /\ g_head_handle' \in alive' \cup {NULL}
  BY <1>1, <1>3 DEF Linked, Closed
<1>5. g_head_handle' = NULL => alive' = {}
  <2>1. SUFFICES ASSUME g_head_handle' = NULL PROVE alive \subseteq {b}
    BY <1>1
  <2>2. g_head_handle = b /\ next[b] = NULL
    BY <1>1, <1>4, <2>1
  <2>3. {b} \in SUBSET Buttons /\ Closed({b})
    BY <1>1, <2>2 DEF Closed
  <2>4. QED
    BY <2>2, <2>3 DEF Linked
<1>6. Closed(alive)'
  BY <1>1, <1>2, <1>3 DEF Closed, Linked
<1>7. \A x \in Buttons \ alive' : next'[x] = NULL
  BY <1>1, <1>2 DEF Linked
<1>8. ASSUME NEW S \in SUBSET Buttons, g_head_handle' \in S, Closed(S)'
      PROVE  alive' \subseteq S
  <2>1. CASE next[b] \in S \cup {NULL}
    <3>1. Closed(S \cup {b})
      BY <1>1, <1>2, <1>8, <2>1 DEF Closed
    <3>2. g_head_handle \in S \cup {b} /\ S \cup {b} \in SUBSET Buttons
      BY <1>1, <1>8
    <3>3. alive \subseteq S \cup {b}
      BY <3>1, <3>2 DEF Linked
    <3>4. QED
      BY <1>1, <3>3
  <2>2. CASE next[b] \notin S \cup {NULL}
    <3>1. g_head_handle \in S \ {b}
      BY <1>1, <1>8, <2>2
    <3>2. Closed(S \ {b})
      BY <1>1, <1>2, <1>8, <2>2 DEF Closed
    <3>3. alive \subseteq S \ {b}
      BY <3>1, <3>2 DEF Linked
    <3>4. QED
      BY <1>1, <3>3
  <2>3. QED
    BY <2>1, <2>2
<1>9. ASSUME NEW S \in SUBSET alive', S # {}, Closed(S)'
      PROVE  \E last \in S : next'[last] = NULL
  <2>1. S \in SUBSET alive /\ b \notin S
    BY <1>1, <1>9
  <2>2. CASE \E x \in S : next[x] = b
    <3>1. PICK x \in S : next[x] = b
      BY <2>2
    <3>2. next[b] \in S \cup {NULL}
      BY <1>1, <1>2, <1>9, <2>1, <3>1 DEF Closed
    <3>3. Closed(S \cup {b}) /\ S \cup {b} \in SUBSET alive
      BY <1>1, <1>2, <1>9, <2>1, <3>2 DEF Closed
    <3>4. PICK last \in S \cup {b} : next[last] = NULL
      BY <1>9, <3>3 DEF Linked
    <3>5. next'[x] = next[b] /\ (last \in S => next'[last] = NULL)
      BY <1>1, <1>2, <2>1, <3>1, <3>4
    <3>6. QED
      BY <3>4, <3>5
  <2>3. CASE \A x \in S : next[x] # b
    <3>1. \A x \in S : next'[x] = next[x]
      BY <1>1, <1>2, <2>1, <2>3
    <3>2. Closed(S)
      BY <1>9, <3>1 DEF Closed
    <3>3. QED
      BY <1>9, <2>1, <3>1, <3>2 DEF Linked
  <2>4. QED
    BY <2>2, <2>3
<1>10. QED
  BY <1>1, <1>4, <1>5, <1>6, <1>7, <1>8, <1>9, ButtonAssumption DEF Linked

-----------------------------------------------------------------------------
(* The table                                                                *)

\* The row that a channel is looked up in.
LEMMA RowFacts ==
    ASSUME NEW channel
    PROVE  /\ Having(channel) # {} =>
                 /\ First(Having(channel)) \in Slots
                 /\ ch[First(Having(channel))].channel = channel
           /\ Unused # {} => First(Unused) \in Slots /\ ~ch[First(Unused)].is_init
<1>1. Having(channel) \in SUBSET Slots /\ Unused \in SUBSET Slots
  BY DEF Having, Unused
<1>2. Having(channel) # {} => First(Having(channel)) \in Having(channel)
  BY <1>1, FirstRow
<1>3. Unused # {} => First(Unused) \in Unused
  BY <1>1, FirstRow
<1>4. QED
  BY <1>2, <1>3 DEF Having, Unused

Rows == [channel : Channels \cup {0, CHANNEL_MAX}, is_init : BOOLEAN,
         used : SUBSET Indexes, fresh : BOOLEAN]

\* button_adc_init writes one row.
LEMMA UseFacts ==
    ASSUME DevTypeOK, NEW s \in Slots, NEW d \in Adc, Use(s, d)
    PROVE  /\ ch' \in [Slots -> Rows]
           /\ \A t \in Slots \ {s} : ch'[t] = ch[t]
           /\ ch'[s].channel = d.channel /\ ch'[s].is_init
           /\ ch'[s].used = ch[s].used \cup {d.index}
           /\ ch'[s].fresh = (ch[s].is_init /\ ch[s].fresh)
           /\ is_configured'
<1> DEFINE row == [ch[s] EXCEPT !.channel = d.channel, !.is_init = TRUE,
                                !.used = ch[s].used \cup {d.index},
                                !.fresh = ch[s].is_init /\ ch[s].fresh]
<1>1. ch \in [Slots -> Rows]
  BY DEF DevTypeOK, Rows
<1>2. ch' = [ch EXCEPT ![s] = row] /\ is_configured'
  BY DEF Use
<1>3. /\ row \in Rows /\ row.channel = d.channel /\ row.is_init
      /\ row.used = ch[s].used \cup {d.index}
      /\ row.fresh = (ch[s].is_init /\ ch[s].fresh)
  BY <1>1, AdcFacts DEF Rows
<1> HIDE DEF row
<1>4. QED
  BY <1>1, <1>2, <1>3

\* button_adc_deinit takes an index out of one row; the row is given up when it was in use
\* and has no index left, and a table with no row in use is zeroed.
LEMMA FreedFacts ==
    ASSUME DevTypeOK, NEW s \in Slots, NEW i \in Indexes
    PROVE  /\ Freed(s, i) \in [Slots -> Rows]
           /\ \/ \A t \in Slots : Freed(s, i)[t] = ZeroRow
              \/ /\ \A t \in Slots \ {s} : Freed(s, i)[t] = ch[t]
                 /\ Freed(s, i)[s].used = ch[s].used \ {i}
                 /\ Freed(s, i)[s].fresh = ch[s].fresh
                 /\ IF ch[s].used \ {i} = {} /\ ch[s].is_init
                    THEN ~Freed(s, i)[s].is_init /\ Freed(s, i)[s].channel = CHANNEL_MAX
                    ELSE /\ Freed(s, i)[s].is_init = ch[s].is_init
                         /\ Freed(s, i)[s].channel = ch[s].channel
           /\ \A t \in Slots \ {s} : ch[t].is_init => Freed(s, i)[t] = ch[t]
           /\ ch[s].is_init /\ ch[s].used \ {i} # {} =>
                 Freed(s, i)[s].is_init
<1> DEFINE left == ch[s].used \ {i}
           row == IF left = {} /\ ch[s].is_init
                  THEN [ch[s] EXCEPT !.used = {}, !.is_init = FALSE, !.channel = CHANNEL_MAX]
                  ELSE [ch[s] EXCEPT !.used = left]
           table == [ch EXCEPT ![s] = row]
<1>1. ch \in [Slots -> Rows]
  BY DEF DevTypeOK, Rows
<1>2. /\ row \in Rows /\ row.used = left /\ row.fresh = ch[s].fresh
      /\ IF left = {} /\ ch[s].is_init
         THEN ~row.is_init /\ row.channel = CHANNEL_MAX
         ELSE row.is_init = ch[s].is_init /\ row.channel = ch[s].channel
  BY <1>1 DEF Rows
<1>3. Freed(s, i) = IF is_configured /\ \A t \in Slots : ~table[t].is_init
                    THEN [t \in Slots |-> ZeroRow] ELSE table
  BY DEF Freed
<1>4. ZeroRow \in Rows
  BY DEF ZeroRow, Rows
<1> HIDE DEF row
<1>5. /\ table \in [Slots -> Rows] /\ table[s] = row
      /\ \A t \in Slots \ {s} : table[t] = ch[t]
  BY <1>1, <1>2
<1> HIDE DEF table
<1>6. CASE Freed(s, i) = table
  BY <1>2, <1>5, <1>6
<1>7. CASE Freed(s, i) = [t \in Slots |-> ZeroRow] /\ \A t \in Slots : ~table[t].is_init
  BY <1>2, <1>4, <1>5, <1>7
<1>8. QED
  BY <1>3, <1>6, <1>7

\* Only the time of sampling changes in a scan.
LEMMA SampleFacts ==
    ASSUME DevTypeOK, NEW s \in Slots, NEW d \in Adc, Sample(s, d)
    PROVE  /\ ch' \in [Slots -> Rows]
           /\ vol' \in Channels \cup {CHANNEL_MAX}
           /\ \A t \in Slots : /\ ch'[t].channel = ch[t].channel /\ ch'[t].used = ch[t].used
                               /\ ch'[t].is_init = ch[t].is_init
                               /\ t # s => ch'[t].fresh = ch[t].fresh
           /\ held' \in {held, held \ {s}}
           /\ vol' = d.channel \/ (ch[s].fresh /\ vol' = vol)
<1>1. ch \in [Slots -> Rows]
  BY DEF DevTypeOK, Rows
<1>2. CASE ch[s].fresh /\ UNCHANGED <<ch, vol, held>>
  BY <1>1, <1>2 DEF DevTypeOK
<1>3. CASE /\ ch' = [ch EXCEPT ![s].fresh = TRUE] /\ vol' = d.channel
           /\ held' = held \ {s}
  <2> DEFINE row == [ch[s] EXCEPT !.fresh = TRUE]
  <2>1. /\ row \in Rows /\ row.channel = ch[s].channel /\ row.used = ch[s].used
        /\ row.is_init = ch[s].is_init
    BY <1>1 DEF Rows
  <2>2. ch' = [ch EXCEPT ![s] = row]
    BY <1>1, <1>3
  <2> HIDE DEF row
  <2>3. /\ ch' \in [Slots -> Rows] /\ ch'[s] = row
        /\ \A t \in Slots \ {s} : ch'[t] = ch[t]
    BY <1>1, <2>1, <2>2
  <2>4. QED
    BY <1>3, <2>1, <2>3, AdcFacts
<1>4. QED
  BY <1>2, <1>3 DEF Sample, TakeSample

LEMMA ExpiredFacts ==
    ASSUME DevTypeOK, NEW rows
    PROVE  /\ Expired(rows) \in [Slots -> Rows]
           /\ \A t \in Slots : /\ Expired(rows)[t].channel = ch[t].channel
                               /\ Expired(rows)[t].used = ch[t].used
                               /\ Expired(rows)[t].is_init = ch[t].is_init
<1>1. ch \in [Slots -> Rows]
  BY DEF DevTypeOK, Rows
<1>2. ASSUME NEW t \in Slots
      PROVE  /\ Expired(rows)[t] \in Rows
             /\ Expired(rows)[t].channel = ch[t].channel
             /\ Expired(rows)[t].used = ch[t].used
             /\ Expired(rows)[t].is_init = ch[t].is_init
  BY <1>1 DEF Expired, Rows
<1>3. QED
  BY <1>2 DEF Expired

-----------------------------------------------------------------------------
(* Types and the list                                                       *)

\* The calls and the scan keep the types, the list, and what is under way consistent.
LEMMA ListStep ==
    ASSUME DevTypeOK, Linked, Busy, [DevNext]_devVars
    PROVE  DevTypeOK' /\ Linked' /\ Busy'
<1> USE ButtonAssumption
<1>1. ASSUME UNCHANGED <<list, call, leaked>>, target' \in alive \cup {NULL},
             ch' \in [Slots -> Rows],
             \A s \in Slots : ch'[s].is_init => ch'[s].channel \in Channels,
             is_configured' \in BOOLEAN, vol' \in Channels \cup {CHANNEL_MAX},
             held' \subseteq Slots
      PROVE  DevTypeOK' /\ Linked' /\ Busy'
  <2>1. DevTypeOK'
    BY <1>1 DEF DevTypeOK, list, call, Rows
  <2>2. Linked' /\ Busy'
    BY <1>1 DEF list, call, Linked, Busy, Closed
  <2>3. QED
    BY <2>1, <2>2
<1>2. \A d \in Adc : d # Gpio /\ d \in Adc \cup {Gpio}
  BY AdcFacts
<1>3. Gpio \in Adc \cup {Gpio}
  OBVIOUS
<1>4. ASSUME NEW b \in Buttons, CreateGpio(b)
      PROVE  DevTypeOK' /\ Linked' /\ Busy'
  BY <1>4 DEF CreateGpio, Proceed, DevTypeOK, Linked, Busy, Closed, list, adc
<1>5. ASSUME NEW b \in Buttons, NEW d \in Adc, CreateAdc(b, d)
      PROVE  DevTypeOK' /\ Linked' /\ Busy'
  <2>1. Linked' /\ Busy'
    BY <1>5 DEF CreateAdc, Return, Proceed, Linked, Busy, Closed, list
  <2>2. UNCHANGED adc \/ \E s \in Slots : Use(s, d)
    BY <1>5, RowFacts DEF CreateAdc
  <2>3. /\ ch' \in [Slots -> Rows] /\ is_configured' \in BOOLEAN
        /\ \A s \in Slots : ch'[s].is_init => ch'[s].channel \in Channels
    <3>1. CASE UNCHANGED adc
      BY <3>1 DEF DevTypeOK, adc, Rows
    <3>2. CASE \E s \in Slots : Use(s, d)
      <4>1. PICK s \in Slots : Use(s, d)
        BY <3>2
      <4>2. is_configured' \in BOOLEAN
        BY <4>1 DEF Use
      <4>3. /\ ch' \in [Slots -> Rows] /\ ch'[s].channel = d.channel
            /\ \A t \in Slots \ {s} : ch'[t] = ch[t]
        BY <4>1, UseFacts
      <4>4. QED
        BY <4>2, <4>3, AdcFacts DEF DevTypeOK
    <3>3. QED
      BY <2>2, <3>1, <3>2
  <2>4. QED
    BY <1>5, <1>2, <2>1, <2>3 DEF CreateAdc, Return, Proceed, DevTypeOK, list, Rows
<1>6. CASE Link
  <2>1. Linked'
    BY <1>6, LinkKeepsList
  <2>2. Busy' /\ DevTypeOK'
    BY <1>6 DEF Link, Return, DevTypeOK, Busy, adc
  <2>3. QED
    BY <2>1, <2>2
<1>7. CASE AllocFailed
  BY <1>7 DEF AllocFailed, Return, DevTypeOK, Linked, Busy, Closed, list, adc
<1>8. ASSUME NEW b \in Buttons, DeleteCall(b)
      PROVE  DevTypeOK' /\ Linked' /\ Busy'
  <2>1. Linked' /\ Busy'
    BY <1>8 DEF DeleteCall, Return, Proceed, Linked, Busy, Closed, list
  <2>2. device[b] \in Adc \cup {Gpio}
    BY DEF DevTypeOK
  <2>3. \/ UNCHANGED adc
        \/ /\ device[b] \in Adc
           /\ Having(device[b].channel) # {}
           /\ ch' = Freed(First(Having(device[b].channel)), device[b].index)
           /\ is_configured' = \E s \in Slots : ch'[s].is_init
    BY <1>8, <2>2 DEF DeleteCall
  <2>4. /\ ch' \in [Slots -> Rows] /\ is_configured' \in BOOLEAN
        /\ \A s \in Slots : ch'[s].is_init => ch'[s].channel \in Channels
    <3>1. CASE UNCHANGED adc
      BY <3>1 DEF DevTypeOK, adc, Rows
    <3>2. CASE ~UNCHANGED adc
      <4> DEFINE d == device[b]
                 r == First(Having(d.channel))
      <4>1. /\ d \in Adc /\ d.index \in Indexes /\ r \in Slots
            /\ ch' = Freed(r, d.index)
            /\ is_configured' \in BOOLEAN
        BY <2>3, <3>2, RowFacts, AdcFacts
      <4> HIDE DEF d, r
      <4>2. /\ ch' \in [Slots -> Rows]
            /\ \/ \A t \in Slots : ch'[t] = ZeroRow
               \/ /\ \A t \in Slots \ {r} : ch'[t] = ch[t]
                  /\ \/ ~ch'[r].is_init
                     \/ ch'[r].is_init = ch[r].is_init /\ ch'[r].channel = ch[r].channel
        BY <4>1, FreedFacts
      <4>3. ASSUME NEW s \in Slots, ch'[s].is_init
            PROVE  ch'[s].channel \in Channels
        <5>1. ch'[s] # ZeroRow /\ (s = r \/ ch'[s] = ch[s])
          BY <4>2, <4>3 DEF ZeroRow
        <5>2. ch[s].is_init /\ ch'[s].channel = ch[s].channel
          BY <4>2, <4>3, <5>1
        <5>3. QED
          BY <5>2 DEF DevTypeOK
      <4>4. QED
        BY <4>1, <4>2, <4>3
    <3>3. QED
      BY <3>1, <3>2
  <2>5. QED
    BY <1>8, <1>2, <2>1, <2>2, <2>4 DEF DeleteCall, Return, Proceed, DevTypeOK, list, Rows
<1>9. CASE Unlink
  <2>1. Linked' /\ (g_head_handle' = NULL <=> alive' = {})
    BY <1>9, UnlinkKeepsList
  <2>2. DevTypeOK'
    <3>1. next' \in [Buttons -> Buttons \cup {NULL}]
      <4>1. Unlinked(btn) \in [Buttons -> Buttons \cup {NULL}]
        BY <1>9 DEF Unlink, Unlinked, DevTypeOK, Busy
      <4>2. QED
        BY <1>9, <4>1 DEF Unlink
    <3>2. QED
      BY <1>9, <2>1, <3>1 DEF Unlink, Return, DevTypeOK, adc, Linked
  <2>3. Busy'
    BY <1>9, <2>1 DEF Unlink, Return, Busy, DevTypeOK
  <2>4. QED
    BY <2>1, <2>2, <2>3
<1>10. CASE ScanStart
  <2>1. /\ ch' \in [Slots -> Rows] /\ UNCHANGED <<list, call, leaked, is_configured, vol>>
        /\ \A s \in Slots : ch'[s].is_init => ch'[s].channel \in Channels
        /\ target' \in alive \cup {NULL} /\ held' \subseteq Slots
    <3>1. PICK rows \in SUBSET Slots : ch' = Expired(rows)
      BY <1>10 DEF ScanStart
    <3>2. /\ ch' \in [Slots -> Rows]
          /\ \A s \in Slots : ch'[s].is_init => ch'[s].channel \in Channels
      BY <3>1, ExpiredFacts DEF DevTypeOK
    <3>3. QED
      BY <1>10, <3>2 DEF ScanStart, DevTypeOK, Linked
  <2>2. QED
    BY <1>1, <2>1 DEF DevTypeOK
<1>11. ASSUME target # NULL, ScanNext
       PROVE  target' \in alive \cup {NULL}
  BY <1>11 DEF ScanNext, Linked, Busy, Closed, DevTypeOK
<1>12. ch \in [Slots -> Rows]
  BY DEF DevTypeOK, Rows
<1>13. CASE ScanGpio
  <2>1. /\ UNCHANGED <<list, call, leaked, held, ch, is_configured, vol>>
        /\ target # NULL /\ ScanNext
    BY <1>13 DEF ScanGpio, adc
  <2>2. QED
    BY <1>1, <1>11, <1>12, <2>1 DEF DevTypeOK
<1>14. CASE ScanAdc
  <2>1. UNCHANGED <<list, call, leaked, is_configured>> /\ target # NULL /\ ScanNext
    BY <1>14 DEF ScanAdc
  <2>2. UNCHANGED <<ch, vol, held>> \/ \E s \in Slots, d \in Adc : Sample(s, d)
    BY <1>14, RowFacts DEF ScanAdc, DevTypeOK, Busy
  <2>3. /\ ch' \in [Slots -> Rows] /\ vol' \in Channels \cup {CHANNEL_MAX}
        /\ held' \subseteq Slots
        /\ \A s \in Slots : ch'[s].is_init => ch'[s].channel \in Channels
    <3>1. CASE UNCHANGED <<ch, vol, held>>
      BY <1>12, <3>1 DEF DevTypeOK
    <3>2. CASE \E s \in Slots, d \in Adc : Sample(s, d)
      BY <3>2, SampleFacts DEF DevTypeOK
    <3>3. QED
      BY <2>2, <3>1, <3>2
  <2>4. is_configured' \in BOOLEAN
    BY <2>1 DEF DevTypeOK
  <2>5. QED
    BY <1>1, <1>11, <2>1, <2>3, <2>4
<1>15. CASE UNCHANGED devVars
  <2>1. UNCHANGED <<list, call, leaked, held, ch, is_configured, vol, target>>
    BY <1>15 DEF devVars, adc
  <2>2. QED
    BY <1>1, <1>12, <2>1 DEF DevTypeOK, Busy
<1>16. QED
  BY <1>4, <1>5, <1>6, <1>7, <1>8, <1>9, <1>10, <1>13, <1>14, <1>15
     DEF DevNext, Call, CallStep, DevScan

LEMMA ListInvariance == DevSpec => [](DevTypeOK /\ Linked /\ Busy)
<1>1. ASSUME DevInit
      PROVE  DevTypeOK /\ Linked /\ Busy
  <2>1. ch \in [Slots -> Rows] /\ \A s \in Slots : ~ch[s].is_init
    BY <1>1 DEF DevInit, ZeroRow, Rows
  <2>2. DevTypeOK
    BY <1>1, <2>1 DEF DevInit, DevTypeOK, Rows
  <2>3. Linked /\ Busy
    BY <1>1, ButtonAssumption DEF DevInit, Linked, Busy, Closed
  <2>4. QED
    BY <2>2, <2>3
<1>2. DevTypeOK /\ Linked /\ Busy /\ [DevNext]_devVars => (DevTypeOK /\ Linked /\ Busy)'
  BY ListStep
<1>3. QED
  BY <1>1, <1>2, PTL DEF DevSpec

\* Every variable of the buttons keeps its type.
THEOREM DevTypeCorrect == DevSpec => []DevTypeOK
BY ListInvariance, PTL

\* The list holds exactly the buttons that exist and ends, and the timer runs while there
\* are any: for any number of buttons.
THEOREM ListCorrect == DevSpec => []ListHoldsButtons
<1>1. DevTypeOK /\ Linked /\ Busy => ListHoldsButtons
  <2>1. SUFFICES ASSUME DevTypeOK, Linked, Busy
                 PROVE  ListHoldsButtons
    OBVIOUS
  <2>2. CASE g_head_handle = NULL
    BY <2>1, <2>2 DEF Linked, Busy, ListHoldsButtons
  <2>3. CASE g_head_handle # NULL
    <3>1. g_head_handle \in alive /\ alive \in SUBSET Buttons /\ Closed(alive)
      BY <2>1, <2>3 DEF Linked, DevTypeOK
    <3>2. After(g_head_handle) \subseteq alive
      BY <3>1 DEF After
    <3>3. alive \subseteq After(g_head_handle)
      BY <2>1, <3>1 DEF After, Linked
    <3>4. \E last \in alive : next[last] = NULL
      BY <2>1, <3>1 DEF Linked
    <3>5. QED
      BY <2>1, <2>3, <3>2, <3>3, <3>4 DEF Busy, ListHoldsButtons
  <2>4. QED
    BY <2>2, <2>3
<1>2. QED
  BY <1>1, ListInvariance, PTL

-----------------------------------------------------------------------------
(* The table and the buttons                                                *)

\* A row in use is the first one with its channel; a row that is not in use has no index.
Table ==
    /\ \A s, t \in Slots : ch[s].is_init /\ t < s => ch[t].channel # ch[s].channel
    /\ \A s \in Slots : ~ch[s].is_init => ch[s].used = {}

InUse(d) ==
    \E s \in Slots : ch[s].is_init /\ ch[s].channel = d.channel /\ d.index \in ch[s].used

\* An index is in use from before its button is in the list until before it is taken out,
\* and no two buttons share one.
Taken ==
    \A d \in Adc :
        /\ InUse(d) <=> /\ Owners(d) # {} \/ d \in leaked \/ (api_pc = "link" /\ dev = d)
                        /\ ~(api_pc = "unlink" /\ dev = d)
        /\ \A x, y \in Owners(d) : x = y
        /\ d \in leaked => Owners(d) = {}
        /\ api_pc = "link" /\ dev = d => Owners(d) = {} /\ d \notin leaked

LEMMA TwoDevices ==
    ASSUME NEW d \in Adc, NEW e \in Adc, e # d
    PROVE  e.channel # d.channel \/ e.index # d.index
BY DEF Adc

\* Only the row that find_channel finds can have the index in use.
LEMMA InUseRow ==
    ASSUME Table, NEW d \in Adc, NEW s \in Slots,
           ch[s].is_init, ch[s].channel = d.channel
    PROVE  Having(d.channel) # {} /\ s = First(Having(d.channel))
<1>1. Having(d.channel) \in SUBSET Slots /\ s \in Having(d.channel)
  BY DEF Having
<1>2. \A t \in Having(d.channel) : s <= t
  BY ChannelAssumption DEF Table, Having, Slots
<1>3. QED
  BY <1>1, <1>2, FirstIsUnique

\* button_adc_init takes an index that was free, and no other.
LEMMA UseStep ==
    ASSUME DevTypeOK, Table, NEW d \in Adc, NEW s \in Slots, Use(s, d),
           \/ /\ Having(d.channel) # {} /\ s = First(Having(d.channel))
              /\ d.index \notin ch[s].used
           \/ /\ Having(d.channel) = {} /\ ~ch[s].is_init
    PROVE  /\ Table' /\ ~InUse(d) /\ InUse(d)'
           /\ \A e \in Adc : e # d => (InUse(e)' <=> InUse(e))
<1>1. /\ \A t \in Slots \ {s} : ch'[t] = ch[t]
      /\ ch'[s].channel = d.channel /\ ch'[s].is_init
      /\ ch'[s].used = ch[s].used \cup {d.index}
  BY UseFacts
<1>2. \A t \in Slots : t < s => ch[t].channel # d.channel
  <2>1. Having(d.channel) \in SUBSET Slots
    BY DEF Having
  <2>2. CASE Having(d.channel) # {}
    <3>1. s = First(Having(d.channel)) /\ \A t \in Having(d.channel) : s <= t
      BY <2>1, <2>2, FirstRow
    <3>2. QED
      BY <3>1, ChannelAssumption DEF Having, Slots
  <2>3. CASE Having(d.channel) = {}
    BY <2>3 DEF Having
  <2>4. QED
    BY <2>2, <2>3
<1>3. \A t \in Slots : ch[t].is_init /\ ch[t].channel = d.channel => t = s
  <2>1. CASE Having(d.channel) # {}
    BY <2>1, InUseRow
  <2>2. CASE Having(d.channel) = {}
    BY <2>2 DEF Having
  <2>3. QED
    BY <2>1, <2>2
<1>4. ch[s].is_init => ch[s].channel = d.channel /\ d.index \notin ch[s].used
  BY RowFacts
<1>5. Table'
  <2>1. ASSUME NEW r \in Slots, NEW t \in Slots, ch'[r].is_init, t < r
        PROVE  ch'[t].channel # ch'[r].channel
    <3>1. CASE r = s
      BY <1>1, <1>2, <2>1, <3>1, ChannelAssumption DEF Slots
    <3>2. CASE r # s /\ t = s
      BY <1>1, <1>3, <2>1, <3>2
    <3>3. CASE r # s /\ t # s
      BY <1>1, <2>1, <3>3 DEF Table
    <3>4. QED
      BY <3>1, <3>2, <3>3
  <2>2. \A t \in Slots : ~ch'[t].is_init => ch'[t].used = {}
    BY <1>1 DEF Table
  <2>3. QED
    BY <2>1, <2>2 DEF Table
<1>6. ~InUse(d) /\ InUse(d)'
  BY <1>1, <1>3, <1>4 DEF InUse
<1>7. ASSUME NEW e \in Adc, e # d
      PROVE  InUse(e)' <=> InUse(e)
  <2>1. ASSUME NEW t \in Slots
        PROVE  (ch'[t].is_init /\ ch'[t].channel = e.channel /\ e.index \in ch'[t].used)
                  <=> (ch[t].is_init /\ ch[t].channel = e.channel /\ e.index \in ch[t].used)
    <3>1. CASE t # s
      BY <1>1, <3>1
    <3>2. CASE t = s /\ ch[s].is_init
      BY <1>1, <1>4, <1>7, <3>2, TwoDevices
    <3>3. CASE t = s /\ ~ch[s].is_init
      <4>1. ch'[s].used = {d.index}
        BY <1>1, <3>3 DEF Table
      <4>2. QED
        BY <1>1, <1>7, <3>3, <4>1, TwoDevices
    <3>4. QED
      BY <3>1, <3>2, <3>3
  <2>2. QED
    BY <2>1 DEF InUse
<1>8. QED
  BY <1>5, <1>6, <1>7

\* button_adc_deinit gives one index back.
LEMMA FreeStep ==
    ASSUME DevTypeOK, Table, NEW d \in Adc, InUse(d),
           ch' = Freed(First(Having(d.channel)), d.index)
    PROVE  /\ Table' /\ ~InUse(d)'
           /\ \A e \in Adc : e # d => (InUse(e)' <=> InUse(e))
<1>1. PICK s \in Slots : ch[s].is_init /\ ch[s].channel = d.channel /\ d.index \in ch[s].used
  BY DEF InUse
<1>2. s = First(Having(d.channel)) /\ d.index \in Indexes
  BY <1>1, InUseRow, AdcFacts
<1>3. ch' = Freed(s, d.index)
  BY <1>2
<1>4. \/ \A t \in Slots : ch'[t] = ZeroRow
      \/ /\ \A t \in Slots \ {s} : ch'[t] = ch[t]
         /\ ch'[s].used = ch[s].used \ {d.index}
         /\ IF ch[s].used \ {d.index} = {}
            THEN ~ch'[s].is_init /\ ch'[s].channel = CHANNEL_MAX
            ELSE ch'[s].is_init /\ ch'[s].channel = d.channel
  BY <1>1, <1>2, <1>3, FreedFacts
<1>5. /\ \A t \in Slots \ {s} : ch[t].is_init => ch'[t] = ch[t]
      /\ ch[s].used \ {d.index} # {} => ch'[s].is_init
  BY <1>1, <1>2, <1>3, FreedFacts
<1>6. \A t \in Slots : ch[t].is_init => ch[t].channel # CHANNEL_MAX
  BY ChannelAssumption DEF DevTypeOK
<1>7. CASE \A t \in Slots : ch'[t] = ZeroRow
  <2>1. \A t \in Slots : ~ch'[t].is_init /\ ch'[t].used = {}
    BY <1>7 DEF ZeroRow
  <2>2. \A t \in Slots : ch[t].is_init => t = s /\ ch[t].used \ {d.index} = {}
    BY <1>5, <2>1
  <2>3. ASSUME NEW e \in Adc, e # d
        PROVE  ~InUse(e)
    BY <1>1, <2>2, <2>3, TwoDevices DEF InUse
  <2>4. QED
    BY <2>1, <2>3 DEF Table, InUse
<1>8. CASE ~(\A t \in Slots : ch'[t] = ZeroRow)
  <2>1. /\ \A t \in Slots \ {s} : ch'[t] = ch[t]
        /\ ch'[s].used = ch[s].used \ {d.index}
        /\ \/ ~ch'[s].is_init /\ ch'[s].channel = CHANNEL_MAX /\ ch[s].used \ {d.index} = {}
           \/ ch'[s].is_init /\ ch'[s].channel = d.channel
    BY <1>4, <1>8
  <2>2. Table'
    <3>1. ASSUME NEW r \in Slots, NEW t \in Slots, ch'[r].is_init, t < r
          PROVE  ch'[t].channel # ch'[r].channel
      <4>1. ch[r].is_init /\ ch'[r].channel = ch[r].channel
        BY <1>1, <2>1, <3>1
      <4>2. ch'[t].channel = CHANNEL_MAX \/ ch'[t].channel = ch[t].channel
        BY <1>1, <2>1
      <4>3. QED
        BY <1>6, <3>1, <4>1, <4>2 DEF Table
    <3>2. \A t \in Slots : ~ch'[t].is_init => ch'[t].used = {}
      BY <2>1 DEF Table
    <3>3. QED
      BY <3>1, <3>2 DEF Table
  <2>3. ~InUse(d)'
    <3>1. \A t \in Slots : ch[t].is_init /\ ch[t].channel = d.channel => t = s
      BY <1>2, InUseRow
    <3>2. QED
      BY <2>1, <3>1 DEF InUse
  <2>4. ASSUME NEW e \in Adc, e # d
        PROVE  InUse(e)' <=> InUse(e)
    <3>1. ASSUME NEW t \in Slots
          PROVE  (ch'[t].is_init /\ ch'[t].channel = e.channel /\ e.index \in ch'[t].used)
                    <=> (ch[t].is_init /\ ch[t].channel = e.channel /\ e.index \in ch[t].used)
      BY <1>1, <2>1, <2>4, TwoDevices
    <3>2. QED
      BY <3>1 DEF InUse
  <2>5. QED
    BY <2>2, <2>3, <2>4
<1>9. QED
  BY <1>7, <1>8

\* Neither the list nor the scan of it takes an index or gives one back.
LEMMA TableFrame ==
    ASSUME Table, \A t \in Slots : /\ ch'[t].channel = ch[t].channel /\ ch'[t].used = ch[t].used
                                   /\ ch'[t].is_init = ch[t].is_init
    PROVE  Table' /\ \A d \in Adc : InUse(d)' <=> InUse(d)
BY DEF Table, InUse

LEMMA TableStep ==
    ASSUME DevTypeOK, Busy, Table, Taken, [DevNext]_devVars
    PROVE  Table' /\ Taken'
<1>1. \A d \in Adc : d # Gpio
  BY AdcFacts
<1>2. ASSUME UNCHANGED ch
      PROVE  Table' /\ \A d \in Adc : InUse(d)' <=> InUse(d)
  BY <1>2, TableFrame
<1>3. ASSUME UNCHANGED list
      PROVE  \A d : Owners(d)' = Owners(d)
  BY <1>3 DEF list, Owners
<1>4. ASSUME NEW b \in Buttons, CreateGpio(b)
      PROVE  Table' /\ Taken'
  <2>1. /\ UNCHANGED <<list, leaked, ch>> /\ api_pc = "idle"
        /\ api_pc' = "link" /\ dev' = Gpio
    BY <1>4 DEF CreateGpio, Proceed, adc
  <2>2. QED
    BY <1>1, <1>2, <1>3, <2>1 DEF Taken
<1>5. ASSUME NEW b \in Buttons, NEW d \in Adc, CreateAdc(b, d)
      PROVE  Table' /\ Taken'
  <2>1. UNCHANGED <<list, leaked>> /\ api_pc = "idle"
    BY <1>5 DEF CreateAdc
  <2>2. CASE UNCHANGED adc /\ api_pc' = "idle"
    BY <1>2, <1>3, <2>1, <2>2 DEF adc, Taken
  <2>3. CASE ~(UNCHANGED adc /\ api_pc' = "idle")
    <3>1. Proceed("link", b, d)
      BY <1>5, <2>3 DEF CreateAdc, Return
    <3>2. PICK s \in Slots :
             /\ Use(s, d)
             /\ \/ /\ Having(d.channel) # {} /\ s = First(Having(d.channel))
                   /\ d.index \notin ch[s].used
                \/ Having(d.channel) = {} /\ ~ch[s].is_init
      <4>1. CASE Having(d.channel) # {}
        BY <1>5, <2>3, <4>1, RowFacts DEF CreateAdc, Return
      <4>2. CASE Having(d.channel) = {}
        BY <1>5, <2>3, <4>2, RowFacts DEF CreateAdc, Return
      <4>3. QED
        BY <4>1, <4>2
    <3>3. /\ Table' /\ ~InUse(d) /\ InUse(d)'
          /\ \A e \in Adc : e # d => (InUse(e)' <=> InUse(e))
      BY <3>2, UseStep
    <3>4. Owners(d) = {} /\ d \notin leaked
      BY <2>1, <3>3 DEF Taken
    <3>5. api_pc' = "link" /\ dev' = d
      BY <3>1 DEF Proceed
    <3>6. Taken'
      BY <1>3, <2>1, <3>3, <3>4, <3>5 DEF Taken
    <3>7. QED
      BY <3>3, <3>6
  <2>4. QED
    BY <2>2, <2>3
<1>6. CASE Link
  <2>1. /\ api_pc = "link" /\ api_pc' = "idle" /\ UNCHANGED <<ch, leaked>>
        /\ btn \in Buttons /\ btn \notin alive /\ alive \subseteq Buttons
        /\ alive' = alive \cup {btn}
        /\ \A x \in Buttons : device'[x] = IF x = btn THEN dev ELSE device[x]
    BY <1>6 DEF Link, Return, Busy, DevTypeOK, adc
  <2>2. \A d \in Adc : Owners(d)' = IF d = dev THEN Owners(d) \cup {btn} ELSE Owners(d)
    BY <2>1 DEF Owners
  <2>3. Table' /\ \A d \in Adc : InUse(d)' <=> InUse(d)
    BY <1>2, <2>1
  <2>4. QED
    BY <2>1, <2>2, <2>3 DEF Taken
<1>7. CASE AllocFailed
  <2>1. /\ api_pc = "link" /\ api_pc' = "idle" /\ UNCHANGED <<ch, list>>
        /\ \A d \in Adc : d \in leaked' <=> (d \in leaked \/ d = dev)
    BY <1>7 DEF AllocFailed, Return, adc
  <2>2. QED
    BY <1>2, <1>3, <2>1 DEF Taken
<1>8. ASSUME NEW b \in Buttons, DeleteCall(b)
      PROVE  Table' /\ Taken'
  <2>1. /\ UNCHANGED <<list, leaked>> /\ api_pc = "idle" /\ b \in alive
        /\ device[b] = Gpio \/ device[b] \in Adc
    BY <1>8 DEF DeleteCall, DevTypeOK
  <2>2. CASE device[b] = Gpio
    <3>1. UNCHANGED adc /\ api_pc' = "unlink" /\ dev' = Gpio
      BY <1>8, <2>2 DEF DeleteCall, Proceed
    <3>2. QED
      BY <1>1, <1>2, <1>3, <2>1, <3>1 DEF adc, Taken
  <2>3. CASE device[b] \in Adc
    <3>1. PICK d \in Adc : d = device[b]
      BY <2>3
    <3>2. b \in Owners(d)
      BY <2>1, <3>1 DEF Owners
    <3>3. InUse(d) /\ d \notin leaked
      BY <2>1, <3>2 DEF Taken
    <3>4. Having(d.channel) # {}
      BY <3>3 DEF InUse, Having
    <3>5. /\ ch' = Freed(First(Having(d.channel)), d.index)
          /\ api_pc' = "unlink" /\ dev' = d
      BY <1>1, <1>8, <3>1, <3>4 DEF DeleteCall, Proceed
    <3>6. /\ Table' /\ ~InUse(d)'
          /\ \A e \in Adc : e # d => (InUse(e)' <=> InUse(e))
      BY <3>3, <3>5, FreeStep
    <3>7. QED
      BY <1>3, <2>1, <3>3, <3>5, <3>6 DEF Taken
  <2>4. QED
    BY <2>1, <2>2, <2>3
<1>9. CASE Unlink
  <2>1. /\ api_pc = "unlink" /\ api_pc' = "idle" /\ UNCHANGED <<ch, leaked>>
        /\ btn \in alive /\ device[btn] = dev
        /\ alive \subseteq Buttons /\ alive' = alive \ {btn}
        /\ \A x \in Buttons \ {btn} : device'[x] = device[x]
    BY <1>9 DEF Unlink, Return, Busy, DevTypeOK, adc
  <2>2. \A d \in Adc : Owners(d)' = Owners(d) \ {btn} /\ (btn \in Owners(d) <=> d = dev)
    BY <2>1 DEF Owners
  <2>3. Table' /\ \A d \in Adc : InUse(d)' <=> InUse(d)
    BY <1>2, <2>1
  <2>4. ASSUME NEW d \in Adc, d = dev
        PROVE  Owners(d)' = {} /\ ~InUse(d) /\ d \notin leaked
    BY <2>1, <2>2, <2>4 DEF Taken
  <2>5. ASSUME NEW d \in Adc, d # dev
        PROVE  Owners(d)' = Owners(d)
    BY <2>2, <2>5
  <2>6. QED
    BY <2>1, <2>3, <2>4, <2>5 DEF Taken
<1>10. CASE DevScan
  <2>1. UNCHANGED <<list, leaked, api_pc, dev>>
    BY <1>10 DEF DevScan, ScanStart, ScanGpio, ScanAdc, call
  <2>2. \A t \in Slots : /\ ch'[t].channel = ch[t].channel /\ ch'[t].used = ch[t].used
                         /\ ch'[t].is_init = ch[t].is_init
    <3>1. CASE ScanStart
      BY <3>1, ExpiredFacts DEF ScanStart
    <3>2. CASE ScanGpio
      BY <3>2 DEF ScanGpio, adc
    <3>3. CASE ScanAdc
      <4>1. UNCHANGED <<ch, vol, held>> \/ \E s \in Slots, d \in Adc : Sample(s, d)
        BY <3>3, RowFacts DEF ScanAdc, DevTypeOK, Busy
      <4>2. QED
        BY <4>1, SampleFacts
    <3>4. QED
      BY <1>10, <3>1, <3>2, <3>3 DEF DevScan
  <2>3. QED
    BY <1>3, <2>1, <2>2, TableFrame DEF Taken
<1>11. CASE UNCHANGED devVars
  BY <1>2, <1>3, <1>11 DEF devVars, adc, call, Taken
<1>12. QED
  BY <1>4, <1>5, <1>6, <1>7, <1>8, <1>9, <1>10, <1>11 DEF DevNext, Call, CallStep

LEMMA TableInvariance == DevSpec => [](Table /\ Taken)
<1>1. ASSUME DevInit
      PROVE  Table /\ Taken
  <2>1. \A s \in Slots : ~ch[s].is_init /\ ch[s].used = {}
    BY <1>1 DEF DevInit, ZeroRow
  <2>2. QED
    BY <1>1, <2>1 DEF DevInit, Table, Taken, InUse, Owners
<1>2. DevTypeOK /\ Busy /\ Table /\ Taken /\ [DevNext]_devVars => (Table /\ Taken)'
  BY TableStep
<1>3. QED
  BY <1>1, <1>2, ListInvariance, PTL DEF DevSpec

\* Between calls an index of a channel is in use for the one button that has it, or because
\* its creation failed late, and in the row that the driver finds: for any number of
\* channels, indices and rows.
THEOREM TableCorrect == DevSpec => []TableMatchesButtons
<1>1. DevTypeOK /\ Table /\ Taken => TableMatchesButtons
  <2>1. SUFFICES ASSUME Table, Taken, api_pc = "idle", NEW d \in Adc
                 PROVE  /\ UsedBy(d) # {} <=> Owners(d) # {} \/ d \in leaked
                        /\ Cardinality(Owners(d)) <= 1
                        /\ \A s \in UsedBy(d) : s = First(Having(d.channel))
    BY DEF TableMatchesButtons
  <2>2. UsedBy(d) # {} <=> InUse(d)
    BY DEF UsedBy, InUse
  <2>3. UsedBy(d) # {} <=> Owners(d) # {} \/ d \in leaked
    BY <2>1, <2>2 DEF Taken
  <2>4. Cardinality(Owners(d)) <= 1
    <3>1. CASE Owners(d) = {}
      BY <3>1, FS_EmptySet
    <3>2. CASE Owners(d) # {}
      <4>1. PICK x \in Owners(d) : Owners(d) = {x}
        BY <2>1, <3>2 DEF Taken
      <4>2. QED
        BY <4>1, FS_Singleton
    <3>3. QED
      BY <3>1, <3>2
  <2>5. \A s \in UsedBy(d) : s = First(Having(d.channel))
    BY <2>1, InUseRow DEF UsedBy
  <2>6. QED
    BY <2>3, <2>4, <2>5
<1>2. QED
  BY <1>1, ListInvariance, TableInvariance, PTL

-----------------------------------------------------------------------------
(* The sample                                                               *)

\* A row that has a sample of this scan.
New(s) == ch[s].fresh /\ s \notin held

\* During a scan of a list whose channels do not mix: a new row of a channel that has a
\* button left to scan is the row of the last sample, and a button of the channel came before.
Sampled ==
    Grouped /\ target # NULL =>
        \A s \in Slots : \A y \in After(target) :
            New(s) /\ device[y] # Gpio /\ device[y].channel = ch[s].channel =>
                /\ vol = ch[s].channel
                /\ \E x \in alive : /\ device[x] # Gpio /\ device[x].channel = ch[s].channel
                                    /\ target \in After(x)

\* The buttons from one on are those from the next one on, and that one.
LEMMA AfterFacts ==
    ASSUME DevTypeOK, Linked, NEW x \in alive
    PROVE  /\ x \in After(x) /\ After(x) \subseteq alive
           /\ next[x] # NULL => next[x] \in After(x)
           /\ \A y \in After(x) : After(y) \subseteq After(x)
<1>1. x \in Buttons /\ alive \in SUBSET Buttons /\ Closed(alive)
      /\ next[x] \in Buttons \cup {NULL}
  BY DEF DevTypeOK, Linked
<1>2. x \in After(x) /\ After(x) \subseteq alive
  BY <1>1 DEF After
<1>3. next[x] # NULL => next[x] \in After(x)
  BY <1>1 DEF After, Closed
<1>4. \A y \in After(x) : After(y) \subseteq After(x)
  BY DEF After
<1>5. QED
  BY <1>2, <1>3, <1>4

\* A new head changes nothing after the buttons that exist.
LEMMA LinkKeepsAfter ==
    ASSUME DevTypeOK, Linked, Busy, Link, NEW x \in alive
    PROVE  After(x)' = After(x)
<1>1. /\ btn \in Buttons /\ btn \notin alive /\ alive \in SUBSET Buttons /\ Closed(alive)
      /\ next[btn] = NULL
      /\ \A y \in Buttons : y # btn => next'[y] = next[y]
  BY DEF DevTypeOK, Linked, Busy, Link
<1>2. \A S \in SUBSET Buttons : Closed(S)' => Closed(S)
  BY <1>1 DEF Closed
<1>3. PICK A \in SUBSET Buttons : A = alive
  BY <1>1
<1>4. \A S \in SUBSET Buttons : Closed(S) => Closed(S \cap A)'
  BY <1>1, <1>3 DEF Closed
<1>5. \A y \in After(x) : y \in After(x)'
  BY <1>2 DEF After
<1>6. ASSUME NEW y \in After(x)'
      PROVE  y \in After(x)
  <2>1. SUFFICES ASSUME NEW S \in SUBSET Buttons, x \in S, Closed(S)
                 PROVE  y \in S
    BY <1>6 DEF After
  <2>2. S \cap A \in SUBSET Buttons /\ x \in S \cap A /\ Closed(S \cap A)'
    BY <1>3, <1>4, <2>1
  <2>3. QED
    BY <1>6, <2>2 DEF After
<1>7. QED
  BY <1>5, <1>6

\* While the list stays as it is, so does what is grouped.
LEMMA GroupedFrame ==
    ASSUME UNCHANGED list
    PROVE  Grouped' = Grouped /\ \A x : After(x)' = After(x)
BY DEF list, Grouped, Owners, After, Closed

\* Between two buttons of one channel there is no button of another.
LEMMA GroupedFact ==
    ASSUME Grouped, NEW x \in alive, NEW y \in After(x), y \in alive, NEW z \in After(y),
           device[x] # Gpio, device[y] # Gpio, device[x].channel = device[z].channel
    PROVE  device[y].channel = device[x].channel
BY DEF Grouped, Owners

\* The step from one button to the next, whatever the sample of this one.
LEMMA ScanKeepsSample ==
    ASSUME DevTypeOK, Linked, Busy, Sampled, UNCHANGED list, target # NULL, ScanNext,
           \A s \in Slots : ch'[s].channel = ch[s].channel,
           \/ UNCHANGED <<ch, vol, held>>
           \/ \E s0 \in Slots :
                 /\ device[target] # Gpio
                 /\ ch[s0].channel = device[target].channel
                 /\ vol' = ch[s0].channel
                 /\ \A s \in Slots : s # s0 => New(s)' = New(s)
    PROVE  Sampled'
<1>1. SUFFICES ASSUME Grouped', target' # NULL, NEW s \in Slots, NEW y \in After(target)',
                      New(s)', device'[y] # Gpio, device'[y].channel = ch'[s].channel
               PROVE  /\ vol' = ch'[s].channel
                      /\ \E x \in alive' : /\ device'[x] # Gpio
                                           /\ device'[x].channel = ch'[s].channel
                                           /\ target' \in After(x)'
  BY DEF Sampled
<1>2. PICK t \in alive : t = target
  BY DEF Busy
<1>3. PICK u \in alive : u = target' /\ u \in After(t)
  BY <1>1, <1>2, AfterFacts DEF ScanNext, Busy, Linked, Closed
<1>4. Grouped /\ UNCHANGED <<alive, device>> /\ \A x : After(x)' = After(x)
  BY <1>1, GroupedFrame DEF list
<1>5. y \in After(u) /\ y \in After(t)
  <2>1. After(target)' = After(u)'
    BY <1>3 DEF After
  <2>2. QED
    BY <1>1, <1>2, <1>3, <1>4, <2>1, AfterFacts
<1>6. device[y] # Gpio /\ device[y].channel = ch[s].channel /\ ch'[s].channel = ch[s].channel
  BY <1>1, <1>4
<1>7. ASSUME NEW x \in alive, device[x] # Gpio, device[x].channel = ch[s].channel,
             t \in After(x)
      PROVE  \E x1 \in alive' : /\ device'[x1] # Gpio /\ device'[x1].channel = ch'[s].channel
                                /\ target' \in After(x1)'
  BY <1>3, <1>4, <1>6, <1>7, AfterFacts
<1>8. CASE New(s)
  <2>1. PICK x \in alive : /\ device[x] # Gpio /\ device[x].channel = ch[s].channel
                           /\ t \in After(x) /\ vol = ch[s].channel
    BY <1>2, <1>4, <1>5, <1>6, <1>8 DEF Sampled, Busy
  <2>2. device[t] # Gpio => device[t].channel = ch[s].channel
    BY <1>4, <1>5, <1>6, <2>1, GroupedFact
  <2>3. vol' = ch'[s].channel
    BY <1>2, <1>6, <2>1, <2>2
  <2>4. QED
    BY <1>7, <2>1, <2>3
<1>9. CASE ~New(s)
  <2>1. /\ device[t] # Gpio /\ device[t].channel = ch[s].channel
        /\ vol' = ch[s].channel
    BY <1>1, <1>2, <1>9 DEF New
  <2>2. QED
    BY <1>2, <1>6, <1>7, <2>1, AfterFacts
<1>10. QED
  BY <1>8, <1>9

\* A call does not make a row of another channel, or one that is not in use, fresh.
LEMMA CallKeepsSample ==
    ASSUME Sampled, UNCHANGED list, UNCHANGED <<vol, target, held>>,
           \A s \in Slots : \/ ~ch'[s].fresh
                            \/ ch'[s].channel \notin Channels
                            \/ ch'[s].fresh = ch[s].fresh /\ ch'[s].channel = ch[s].channel,
           DevTypeOK
    PROVE  Sampled'
<1>1. SUFFICES ASSUME Grouped', target' # NULL, NEW s \in Slots, NEW y \in After(target)',
                      New(s)', device'[y] # Gpio, device'[y].channel = ch'[s].channel
               PROVE  /\ vol' = ch'[s].channel
                      /\ \E x \in alive' : /\ device'[x] # Gpio
                                           /\ device'[x].channel = ch'[s].channel
                                           /\ target' \in After(x)'
  BY DEF Sampled
<1>2. Grouped /\ UNCHANGED <<alive, device>> /\ \A x : After(x)' = After(x)
  BY <1>1, GroupedFrame DEF list
<1>3. PICK t : t = target
  OBVIOUS
<1>4. y \in After(target)
  <2>1. After(target)' = After(t)' /\ After(target) = After(t)
    BY <1>3 DEF After
  <2>2. QED
    BY <1>1, <1>2, <2>1
<1>5. device[y] \in Adc /\ device[y].channel \in Channels
  BY <1>1, <1>2, <1>4, AdcFacts DEF DevTypeOK, After
<1>6. New(s) /\ ch'[s].channel = ch[s].channel
  BY <1>1, <1>2, <1>5 DEF New
<1>7. PICK x \in alive : /\ device[x] # Gpio /\ device[x].channel = ch[s].channel
                         /\ target \in After(x) /\ vol = ch[s].channel
  BY <1>1, <1>2, <1>4, <1>6 DEF Sampled
<1>8. QED
  BY <1>2, <1>6, <1>7

LEMMA SampleStep ==
    ASSUME DevTypeOK, Linked, Busy, Sampled, [DevNext]_devVars
    PROVE  Sampled'
<1>1. ASSUME UNCHANGED <<list, vol, target, held, ch>>
      PROVE  Sampled'
  BY <1>1, CallKeepsSample
<1>2. ASSUME NEW b \in Buttons, CreateGpio(b)
      PROVE  Sampled'
  BY <1>1, <1>2 DEF CreateGpio, adc
<1>3. ASSUME NEW b \in Buttons, NEW d \in Adc, CreateAdc(b, d)
      PROVE  Sampled'
  <2>1. UNCHANGED <<list, vol, target, held>>
    BY <1>3 DEF CreateAdc
  <2>2. CASE UNCHANGED adc
    BY <1>1, <2>1, <2>2 DEF adc
  <2>3. CASE ~UNCHANGED adc
    <3>1. PICK s \in Slots :
             /\ Use(s, d)
             /\ ch[s].channel = d.channel \/ ~ch[s].is_init
      BY <1>3, <2>3, RowFacts DEF CreateAdc
    <3>2. /\ \A t \in Slots \ {s} : ch'[t] = ch[t]
          /\ ch'[s].channel = d.channel /\ ch'[s].fresh = (ch[s].is_init /\ ch[s].fresh)
      BY <3>1, UseFacts
    <3>3. \A t \in Slots : \/ ~ch'[t].fresh
                           \/ ch'[t].fresh = ch[t].fresh /\ ch'[t].channel = ch[t].channel
      BY <3>1, <3>2 DEF DevTypeOK
    <3>4. QED
      BY <2>1, <3>3, CallKeepsSample
  <2>4. QED
    BY <2>2, <2>3
<1>4. CASE Link
  <2>1. SUFFICES ASSUME Grouped', target' # NULL, NEW s \in Slots, NEW y \in After(target)',
                        New(s)', device'[y] # Gpio, device'[y].channel = ch'[s].channel
                 PROVE  /\ vol' = ch'[s].channel
                        /\ \E x \in alive' : /\ device'[x] # Gpio
                                             /\ device'[x].channel = ch'[s].channel
                                             /\ target' \in After(x)'
    BY DEF Sampled
  <2>2. /\ UNCHANGED <<ch, vol, target, held>> /\ alive \subseteq alive'
        /\ \A x \in alive : device'[x] = device[x]
    BY <1>4 DEF Link, adc, Busy, DevTypeOK
  <2>3. PICK t \in alive : t = target
    BY <2>1, <2>2 DEF Busy
  <2>4. \A x \in alive : After(x)' = After(x) /\ After(x) \subseteq alive
    BY <1>4, LinkKeepsAfter, AfterFacts
  <2>5. Grouped
    <3>1. \A x \in alive : x \in Owners(Gpio) <=> x \in Owners(Gpio)'
      BY <2>2 DEF Owners
    <3>2. QED
      BY <2>1, <2>2, <2>4, <3>1 DEF Grouped
  <2>6. y \in After(t)
    <3>1. After(target)' = After(t)'
      BY <2>2, <2>3 DEF After
    <3>2. QED
      BY <2>1, <2>3, <2>4, <3>1
  <2>7. PICK x \in alive : /\ device[x] # Gpio /\ device[x].channel = ch[s].channel
                           /\ t \in After(x) /\ vol = ch[s].channel
    BY <2>1, <2>2, <2>3, <2>4, <2>5, <2>6 DEF Sampled, Busy, New
  <2>8. QED
    BY <2>2, <2>3, <2>4, <2>7
<1>5. CASE AllocFailed
  BY <1>1, <1>5 DEF AllocFailed, adc
<1>6. ASSUME NEW b \in Buttons, DeleteCall(b)
      PROVE  Sampled'
  <2>1. UNCHANGED <<list, vol, target, held>>
    BY <1>6 DEF DeleteCall
  <2>2. CASE UNCHANGED adc
    BY <1>1, <2>1, <2>2 DEF adc
  <2>3. CASE ~UNCHANGED adc
    <3>1. PICK d \in Adc : /\ Having(d.channel) # {}
                           /\ ch' = Freed(First(Having(d.channel)), d.index)
      BY <1>6, <2>3 DEF DeleteCall, DevTypeOK
    <3>2. PICK s \in Slots : ch' = Freed(s, d.index)
      BY <3>1, RowFacts
    <3>3. \/ \A t \in Slots : ch'[t] = ZeroRow
          \/ /\ \A t \in Slots \ {s} : ch'[t] = ch[t]
             /\ ch'[s].channel = CHANNEL_MAX \/ ch'[s].channel = ch[s].channel
             /\ ch'[s].fresh = ch[s].fresh
      BY <3>2, FreedFacts, AdcFacts
    <3>4. \A t \in Slots : \/ ~ch'[t].fresh
                           \/ ch'[t].channel \notin Channels
                           \/ ch'[t].fresh = ch[t].fresh /\ ch'[t].channel = ch[t].channel
      BY <3>3, ChannelAssumption DEF ZeroRow
    <3>5. QED
      BY <2>1, <3>4, CallKeepsSample
  <2>4. QED
    BY <2>2, <2>3
<1>7. CASE Unlink
  BY <1>7 DEF Unlink, Sampled, New
<1>8. CASE ScanStart
  <2>1. \A s \in Slots : ~New(s)'
    BY <1>8 DEF ScanStart, New
  <2>2. QED
    BY <2>1 DEF Sampled
<1>9. CASE ScanGpio
  BY <1>9, ScanKeepsSample DEF ScanGpio, adc
<1>10. CASE ScanAdc
  <2>1. UNCHANGED list /\ target # NULL /\ ScanNext /\ device[target] # Gpio
    BY <1>10 DEF ScanAdc
  <2>2. CASE UNCHANGED <<ch, vol, held>>
    BY <2>1, <2>2, ScanKeepsSample
  <2>3. CASE ~UNCHANGED <<ch, vol, held>>
    <3>1. PICK d \in Adc, s \in Slots :
             d = device[target] /\ ch[s].channel = d.channel /\ Sample(s, d)
      BY <1>10, <2>1, <2>3, RowFacts DEF ScanAdc, DevTypeOK
    <3>2. /\ \A t \in Slots : /\ ch'[t].channel = ch[t].channel
                              /\ t # s => New(t)' = New(t)
          /\ vol' = d.channel
      BY <2>3, <3>1, SampleFacts DEF Sample, TakeSample, New
    <3>3. QED
      BY <2>1, <3>1, <3>2, ScanKeepsSample
  <2>4. QED
    BY <2>2, <2>3
<1>11. CASE UNCHANGED devVars
  BY <1>1, <1>11 DEF devVars, adc
<1>12. QED
  BY <1>2, <1>3, <1>4, <1>5, <1>6, <1>7, <1>8, <1>9, <1>10, <1>11
     DEF DevNext, Call, CallStep, DevScan

LEMMA SampleInvariance == DevSpec => []Sampled
<1>1. DevInit => Sampled
  BY DEF DevInit, Sampled
<1>2. DevTypeOK /\ Linked /\ Busy /\ Sampled /\ [DevNext]_devVars => Sampled'
  BY SampleStep
<1>3. QED
  BY <1>1, <1>2, ListInvariance, PTL DEF DevSpec

\* While the buttons of each channel follow each other in the list, a scan judges the level
\* of each button by a sample of its own channel, although one voltage is kept for all,
\* unless the channel's sample of an earlier scan is still taken for new: for any number of
\* buttons and channels, and any time between two buttons.
THEOREM OwnSampleWhenGrouped == DevSpec => GroupedIsOwnSample
<1>1. ASSUME DevTypeOK, Linked, Busy, Sampled, [DevNext]_devVars,
             NEW d \in Adc, Judges(d), Grouped, First(Having(d.channel)) \notin held
      PROVE  vol' = d.channel
  <2>1. target # NULL /\ target' # target /\ device[target] = d /\ Having(d.channel) # {}
    BY <1>1 DEF Judges
  <2>2. d # Gpio
    BY AdcFacts
  <2>3. ScanAdc
    BY <1>1, <2>1, <2>2
       DEF DevNext, Call, CallStep, CreateGpio, CreateAdc, DeleteCall, Link,
           AllocFailed, Unlink, DevScan, ScanStart, ScanGpio, devVars
  <2>4. PICK s \in Slots : ch[s].channel = d.channel /\ s \notin held /\ Sample(s, d)
    BY <1>1, <2>1, <2>3, RowFacts DEF ScanAdc
  <2>5. CASE vol' = vol /\ ch[s].fresh
    <3>1. target \in After(target)
      BY <1>1, <2>1, AfterFacts DEF Busy
    <3>2. vol = ch[s].channel
      BY <1>1, <2>1, <2>2, <2>4, <2>5, <3>1 DEF Sampled, New
    <3>3. QED
      BY <2>4, <2>5, <3>2
  <2>6. QED
    BY <2>4, <2>5 DEF Sample, TakeSample
<1>2. DevTypeOK /\ Linked /\ Busy /\ Sampled /\ [DevNext]_devVars =>
         [\A d \in Adc : Judges(d) /\ Grouped /\ First(Having(d.channel)) \notin held
               => vol' = d.channel]_devVars
  BY <1>1
<1>3. QED
  BY <1>2, ListInvariance, SampleInvariance, PTL DEF DevSpec, GroupedIsOwnSample
=============================================================================
