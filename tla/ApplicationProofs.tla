-------------------------- MODULE ApplicationProofs --------------------------
(***************************************************************************)
(* Proofs about Sntp, for any number of tries, and about Application, for   *)
(* any capacity of the bus that has room for a round.                       *)
(***************************************************************************)
EXTENDS Application, FiniteSetTheorems, WellFoundedInduction, TLAPS

-----------------------------------------------------------------------------
(* The time                                                                 *)

\* An answer sits in the status until a poll takes it, and a call that took one
\* succeeds; the client runs only within a call.
Noticed ==
    /\ status \in {"RESET", "COMPLETED"}
    /\ pc \in {"idle", "poll", "wait", "last", "stop", "judge"}
    /\ running => pc \notin {"idle", "judge"}
    /\ status = "COMPLETED" => synced
    /\ success => synced
    /\ answered /\ pc \in {"poll", "wait", "last"} => status = "COMPLETED"
    /\ answered /\ pc \in {"stop", "judge"} => success
    /\ pc = "idle" /\ sync_time_success => clock_valid

\* No step loses an answer or invents one.
LEMMA NoticedStep ==
    ASSUME Noticed, [Next]_vars
    PROVE  Noticed'
<1> USE DEF Noticed, client, local, history, Read
<1>1. CASE SyncTime
  BY <1>1 DEF SyncTime
<1>2. CASE Poll
  BY <1>2 DEF Poll
<1>3. CASE Wait
  BY <1>3 DEF Wait
<1>4. CASE Last
  BY <1>4 DEF Last
<1>5. CASE Stop
  BY <1>5 DEF Stop
<1>6. CASE Judge
  BY <1>6 DEF Judge
<1>7. CASE Answer
  BY <1>7 DEF Answer
<1>8. CASE UNCHANGED vars
  BY <1>8 DEF vars
<1>9. QED
  BY <1>1, <1>2, <1>3, <1>4, <1>5, <1>6, <1>7, <1>8 DEF Next

\* The invariant of all the theorems.
LEMMA NoticedAlways == Spec => []Noticed
<1>1. Init => Noticed
  BY DEF Init, Noticed
<1>2. QED
  BY <1>1, NoticedStep, PTL DEF Spec

Flags ==
    /\ running \in BOOLEAN /\ clock_valid \in BOOLEAN /\ sync_time_success \in BOOLEAN
    /\ success \in BOOLEAN /\ synced \in BOOLEAN /\ answered \in BOOLEAN

\* A call polls at most SNTP_TRY_COUNT times before the last look.
Tries ==
    /\ status \in {"RESET", "COMPLETED"}
    /\ pc \in {"idle", "poll", "wait", "last", "stop", "judge"}
    /\ retry \in 0 .. SNTP_TRY_COUNT
    /\ pc \in {"poll", "wait"} => retry < SNTP_TRY_COUNT

\* Every variable keeps its type; the number of tries keeps within its limit, so that
\* a call without an answer ends after so many polls.
THEOREM TypeCorrect == Spec => []TypeOK
<1>1. Init => Flags
  BY DEF Init, Flags
<1>2. Init => Tries
  BY TryAssumption DEF Init, Tries
<1>3. ASSUME Flags, [Next]_vars PROVE Flags'
  <2> USE <1>3 DEF Flags, client, local, history
  <2>1. CASE SyncTime
    BY <2>1 DEF SyncTime
  <2>2. CASE Poll
    BY <2>2 DEF Poll
  <2>3. CASE Wait
    BY <2>3 DEF Wait
  <2>4. CASE Last
    BY <2>4 DEF Last
  <2>5. CASE Stop
    BY <2>5 DEF Stop
  <2>6. CASE Judge
    BY <2>6 DEF Judge
  <2>7. CASE Answer
    BY <2>7 DEF Answer
  <2>8. CASE UNCHANGED vars
    BY <2>8 DEF vars
  <2>9. QED
    BY <2>1, <2>2, <2>3, <2>4, <2>5, <2>6, <2>7, <2>8 DEF Next
<1>4. ASSUME Tries, [Next]_vars PROVE Tries'
  <2> USE <1>4, TryAssumption DEF Tries, client, local, history, Read
  <2>1. CASE SyncTime
    BY <2>1 DEF SyncTime
  <2>2. CASE Poll
    BY <2>2 DEF Poll
  <2>3. CASE Wait
    BY <2>3 DEF Wait
  <2>4. CASE Last
    BY <2>4 DEF Last
  <2>5. CASE Stop
    BY <2>5 DEF Stop
  <2>6. CASE Judge
    BY <2>6 DEF Judge
  <2>7. CASE Answer
    BY <2>7 DEF Answer
  <2>8. CASE UNCHANGED vars
    BY <2>8 DEF vars
  <2>9. QED
    BY <2>1, <2>2, <2>3, <2>4, <2>5, <2>6, <2>7, <2>8 DEF Next
<1>5. Flags /\ Tries => TypeOK
  BY DEF Flags, Tries, TypeOK
<1>6. QED
  BY <1>1, <1>2, <1>3, <1>4, <1>5, PTL DEF Spec

\* HasSyncTime is true of a valid clock only, between two calls.
THEOREM Valid == Spec => []SuccessIsValid
<1>1. Noticed => SuccessIsValid
  BY DEF Noticed, SuccessIsValid
<1>2. QED
  BY <1>1, NoticedAlways, PTL

\* A call succeeds only if the server has answered.
THEOREM Synced == Spec => []SuccessIsSynced
<1>1. Noticed => SuccessIsSynced
  BY DEF Noticed, SuccessIsSynced
<1>2. QED
  BY <1>1, NoticedAlways, PTL

\* An answer that comes while the call still looks is not missed.
THEOREM NoneMissed == Spec => []AnswerIsNoticed
<1>1. Noticed => AnswerIsNoticed
  BY DEF Noticed, AnswerIsNoticed
<1>2. QED
  BY <1>1, NoticedAlways, PTL

-----------------------------------------------------------------------------
(* app_main: what holds of the time holds here                              *)

\* Together with the other parts, SyncTime still is what Sntp says.
THEOREM SyncRefined == AppSpec => Spec
<1>1. AppInit => Init
  BY DEF AppInit
<1>2. ASSUME [AppNext]_appVars PROVE [Next]_vars
  <2>1. CASE Main
    BY <2>1 DEF Main, BaseInit, StartWifi, CallSync, StartMqtt, Subscribe, Delay, Publish,
                AsyncPublish, Next
  <2>2. CASE SyncStep
    BY <2>2 DEF SyncStep, Next
  <2>3. CASE Others
    BY <2>3 DEF Others, Next
  <2>4. CASE BusStep
    BY <2>4 DEF BusStep
  <2>5. CASE UNCHANGED appVars
    BY <2>5 DEF appVars
  <2>6. QED
    BY <1>2, <2>1, <2>2, <2>3, <2>4, <2>5 DEF AppNext
<1>3. QED
  BY <1>1, <1>2, PTL DEF AppSpec, Spec

-----------------------------------------------------------------------------
(* app_main: what is lost                                                   *)

\* As long as the bus keeps up, what waits are events of this round.
Keeps ==
    /\ IsFiniteSet(pending)
    /\ turn \in 0 .. 3
    /\ lost => behind
    /\ main = "publish" /\ ~behind => Cardinality(pending) <= 3 - turn

\* A round never finds the queue full unless an earlier one has left something in it.
LEMMA KeepsStep ==
    ASSUME Keeps, [AppNext]_appVars
    PROVE  Keeps'
<1> USE DEF Keeps, bus, rounds, At, Goto
<1>0. Cardinality(pending) \in Nat
  BY FS_CardinalityType
<1>1. CASE BaseInit
  BY <1>1 DEF BaseInit
<1>2. CASE StartWifi
  BY <1>2 DEF StartWifi
<1>3. CASE CallSync
  BY <1>3 DEF CallSync
<1>4. CASE StartMqtt
  BY <1>4 DEF StartMqtt
<1>5. CASE Subscribe
  <2>1. main' \in {"subscribe", "delay"} /\ UNCHANGED <<pending, rounds>>
    BY <1>5 DEF Subscribe, Bus!Subscribed
  <2>2. QED
    BY <2>1
<1>6. CASE Delay
  <2>1. /\ turn' = 3 /\ UNCHANGED <<lost, pending>>
        /\ behind' = (behind \/ pending # {})
    BY <1>6 DEF Delay
  <2>2. pending = {} => Cardinality(pending) = 0
    BY FS_EmptySet
  <2>3. ~behind' => pending = {}
    BY <2>1
  <2>4. lost' => behind'
    BY <2>1
  <2>5. QED
    BY <2>1, <2>2, <2>3, <2>4
<1>7. CASE Publish
  <2>1. PICK e : IF Cardinality(pending) < Capacity
                 THEN Bus!Accept(e) /\ UNCHANGED lost
                 ELSE lost' = TRUE /\ UNCHANGED bus
    BY <1>7 DEF Publish
  <2>2. main = "publish" /\ main' = main /\ UNCHANGED behind
        /\ turn \in 1 .. 3 /\ turn' = turn - 1
    BY <1>7 DEF Publish
  <2>3. CASE Cardinality(pending) < Capacity
    <3>1. pending' = pending \cup {e} /\ e \notin pending /\ UNCHANGED lost
      BY <2>1, <2>3 DEF Bus!Accept
    <3>2. IsFiniteSet(pending') /\ Cardinality(pending') = Cardinality(pending) + 1
      BY <3>1, FS_AddElement
    <3>3. QED
      BY <1>0, <2>2, <3>1, <3>2
  <2>4. CASE ~(Cardinality(pending) < Capacity)
    BY <1>0, <2>1, <2>2, <2>4, CapacityAssumption
  <2>5. QED
    BY <2>3, <2>4
<1>8. CASE AsyncPublish
  BY <1>8 DEF AsyncPublish
<1>9. CASE SyncStep
  BY <1>9 DEF SyncStep
<1>10. CASE Others
  BY <1>10 DEF Others
<1>11. CASE BusStep
  <2>1. UNCHANGED <<main, rounds>>
        /\ (UNCHANGED pending \/ \E e \in pending : pending' = pending \ {e})
    BY <1>11 DEF BusStep, Bus!Take, Bus!Fix, Bus!Finish, Bus!Deliver
  <2>2. ASSUME NEW e \in pending, pending' = pending \ {e}
        PROVE  IsFiniteSet(pending') /\ Cardinality(pending') = Cardinality(pending) - 1
    BY <2>2, FS_RemoveElement
  <2>3. QED
    BY <1>0, <2>1, <2>2
<1>12. CASE UNCHANGED appVars
  BY <1>12 DEF appVars
<1>13. QED
  BY <1>1, <1>2, <1>3, <1>4, <1>5, <1>6, <1>7, <1>8, <1>9, <1>10, <1>11, <1>12
  DEF AppNext, Main

\* The queue has room for a round: an event is refused only after a pause that was too
\* short for the bus.
THEOREM Lost == AppSpec => []LossMeansBehind
<1>1. AppInit => Keeps
  BY FS_EmptySet DEF AppInit, Keeps, Bus!DInit
<1>2. Keeps => LossMeansBehind
  BY DEF Keeps, LossMeansBehind
<1>3. QED
  BY <1>1, <1>2, KeepsStep, PTL DEF AppSpec

-----------------------------------------------------------------------------
(* The bus of app_main                                                      *)

\* Of some addresses one is the first.
LEMMA FirstAddress ==
    ASSUME NEW S \in SUBSET (0 .. Capacity), S # {}
    PROVE  \E m \in S : \A k \in S : m <= k
<1> DEFINE U == 0 .. Capacity
           R == StrictSubsetOrdering(U)
           Below == {0 .. k : k \in S}
<1>1. IsWellFoundedOn(R, SUBSET U)
  <2>1. IsFiniteSet(U)
    BY FS_Interval, CapacityAssumption
  <2>2. QED
    BY <2>1, FS_StrictSubsetOrderingWellFounded, FS_FiniteSubsetsOfFinite
<1>2. Below \subseteq SUBSET U /\ Below # {}
  <2>1. \A k \in S : 0 .. k \subseteq U
    BY CapacityAssumption
  <2>2. QED
    BY <2>1, Zenon
<1>3. PICK i \in Below : \A j \in Below : <<j, i>> \notin R
  <2> HIDE DEF R, Below
  <2> QED BY <1>1, <1>2, WFMin
<1>4. PICK m \in S : i = 0 .. m
  OBVIOUS
<1>5. ASSUME NEW k \in S
      PROVE  m <= k
  <2> DEFINE K == 0 .. k
             M == 0 .. m
  <2>1. m \in Nat /\ k \in Nat /\ K \in SUBSET U /\ M \in SUBSET U
    BY CapacityAssumption
  <2>2. <<K, M>> \notin R
    BY <1>3, <1>4
  <2>3. ~ (K \subseteq M /\ K # M)
    <3> HIDE DEF K, M
    <3> QED BY <2>1, <2>2 DEF StrictSubsetOrdering
  <2>4. k < m => K \subseteq M /\ m \in M /\ m \notin K
    BY <2>1
  <2>5. QED
    BY <2>1, <2>3, <2>4
<1>6. QED
  BY <1>5

\* There is an address for one more event, even with the queue full but for one place and
\* an event being delivered.
LEMMA FreshIsFree ==
    ASSUME IsFiniteSet(pending), Cardinality(pending) < Capacity, NEW n \in Names
    PROVE  Fresh(n) \in Events /\ Fresh(n) \notin pending /\ Fresh(n) # inflight
<1> DEFINE Gone == pending \cup {inflight}
           free == {e \in Events : Name[e] = n} \ Gone
           A == 0 .. Capacity
           S == {a \in A : <<n, a>> \notin Gone}
<1>1. Cardinality(pending) \in Nat /\ Capacity \in Nat
  BY FS_CardinalityType, CapacityAssumption
<1>2. \A a \in A : <<n, a>> \in Events /\ Name[<<n, a>>] = n
  BY DEF Events, Name
<1>3. \A e \in Events : Name[e] = n => e[2] \in A /\ e = <<n, e[2]>>
  BY DEF Events, Name
<1>4. S # {}
  <2>1. SUFFICES ASSUME S = {} PROVE FALSE
    OBVIOUS
  <2>2. IsFiniteSet(Gone) /\ Cardinality(Gone) <= Capacity
    <3>1. /\ IsFiniteSet(pending \cup {inflight})
          /\ Cardinality(pending \cup {inflight}) =
                IF inflight \in pending THEN Cardinality(pending) ELSE Cardinality(pending) + 1
      BY FS_AddElement
    <3>2. QED
      BY <1>1, <3>1
  <2>3. Cardinality(A) = Capacity + 1
    BY <1>1, FS_Interval
  <2> DEFINE f == [a \in A |-> <<n, a>>]
  <2>4. f \in Injection(A, Gone)
    <3>1. \A a \in A : <<n, a>> \in Gone
      BY <2>1
    <3>2. f \in [A -> Gone]
      BY <3>1
    <3>3. \A a, b \in A : f[a] = f[b] => a = b
      OBVIOUS
    <3>4. QED
      BY <3>2, <3>3 DEF Injection, IsInjective
  <2>5. Cardinality(A) <= Cardinality(Gone)
    <3> HIDE DEF f, A, Gone
    <3> QED BY <2>2, <2>4, FS_Injection
  <2>6. Cardinality(Gone) \in Nat
    BY <2>2, FS_CardinalityType
  <2>7. QED
    BY <1>1, <2>2, <2>3, <2>5, <2>6
<1>5. PICK m \in S : \A k \in S : m <= k
  BY <1>4, FirstAddress
<1>6. <<n, m>> \in free /\ \A e \in free : <<n, m>>[2] <= e[2]
  BY <1>2, <1>3, <1>5
<1>7. Fresh(n) \in free
  BY <1>6 DEF Fresh
<1>8. QED
  BY <1>7

\* A step of the application is a step of the bus, or none of its business.
LEMMA BusRefinementStep ==
    ASSUME Keeps, pending \subseteq Events, [AppNext]_appVars
    PROVE  [Bus!DNext]_(Bus!dvars) /\ pending' \subseteq Events
<1>1. UNCHANGED bus => UNCHANGED Bus!dvars /\ pending' \subseteq Events
  BY DEF bus, Bus!dvars
<1>2. CASE Subscribe
  <2>1. PICK i \in DOMAIN Order : Bus!Subscribed(Order[i], Handler)
    BY <1>2 DEF Subscribe
  <2>2. Order[i] \in Names
    BY DEF Order, Names
  <2>3. QED
    BY <2>1, <2>2 DEF Bus!DNext, Bus!Subscribed
<1>3. CASE Publish
  <2>1. turn \in Names
    BY <1>3 DEF Publish, Keeps, Names
  <2>2. CASE Cardinality(pending) < Capacity
    <3>1. Bus!Accept(Fresh(turn)) /\ Fresh(turn) \in Events
      BY <1>3, <2>1, <2>2, FreshIsFree DEF Publish, Keeps
    <3>2. QED
      BY <3>1 DEF Bus!DNext, Bus!Accept
  <2>3. CASE ~(Cardinality(pending) < Capacity)
    BY <1>1, <1>3, <2>3 DEF Publish
  <2>4. QED
    BY <2>2, <2>3
<1>4. CASE BusStep
  <2>1. ASSUME NEW e \in pending, Bus!Take(e)
        PROVE  Bus!DNext /\ pending' \subseteq Events
    BY <2>1 DEF Bus!DNext, Bus!Take
  <2>2. CASE Bus!Fix \/ Bus!Finish \/ Bus!Deliver(Handler)
    BY <2>2 DEF Bus!DNext, Bus!Fix, Bus!Finish, Bus!Deliver
  <2>3. QED
    BY <1>4, <2>1, <2>2 DEF BusStep
<1>5. CASE BaseInit \/ StartWifi \/ CallSync \/ StartMqtt \/ Delay \/ AsyncPublish
  BY <1>1, <1>5 DEF BaseInit, StartWifi, CallSync, StartMqtt, Delay, AsyncPublish
<1>6. CASE SyncStep \/ Others
  BY <1>1, <1>6 DEF SyncStep, Others
<1>7. CASE UNCHANGED appVars
  BY <1>1, <1>7 DEF appVars
<1>8. QED
  BY <1>2, <1>3, <1>4, <1>5, <1>6, <1>7 DEF AppNext, Main

\* The bus in Application is EventDelivery. That its steps are those of EventDelivery holds by
\* their definition; what is shown is that Fresh finds an address, that of no event that exists.
LEMMA BusRefined == AppSpec => Bus!DSpec
<1>1. AppInit => Bus!DInit /\ Keeps /\ pending \subseteq Events
  BY FS_EmptySet DEF AppInit, Keeps, Bus!DInit
<1>2. Keeps /\ pending \subseteq Events /\ [AppNext]_appVars =>
         [Bus!DNext]_(Bus!dvars) /\ (Keeps /\ pending \subseteq Events)'
  BY KeepsStep, BusRefinementStep
<1>3. QED
  BY <1>1, <1>2, PTL DEF AppSpec, Bus!DSpec
=============================================================================
