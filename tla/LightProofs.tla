----------------------------- MODULE LightProofs -----------------------------
(***************************************************************************)
(* Proofs about Light, for any lights, channels and timers, and any length  *)
(* of the queue of the timer task.                                          *)
(***************************************************************************)
EXTENDS Light, FiniteSetTheorems, TLAPS

-----------------------------------------------------------------------------
(* Types                                                                    *)

\* A channel is its light and its number.
LEMMA ChannelIs ==
    ASSUME NEW k \in Channels
    PROVE  k = <<k[1], k[2]>> /\ k[1] \in Lights /\ k[2] \in Ids
  BY DEF Channels

\* Where a call is, and what it is about.
Places ==
    /\ pc \in {"idle", "duty", "start", "fade", "next", "blink", "blink_duty", "delete", "remove"}
    /\ arg \in [light : Lights \cup {NULL}, id : 0 .. channel_num + 1, duty : Duties,
                mask : SUBSET Ids]
    /\ pc \in {"duty", "start", "fade", "next", "blink_duty", "delete"} => Asked \in Channels
    /\ pc = "blink" => arg.light \in Lights /\ arg.id \in 1 .. channel_num + 1
    /\ pc = "remove" => arg.light \in Lights

\* What a call is about.
LEMMA ArgIs ==
    ASSUME NEW l \in Lights, NEW i \in 1 .. channel_num, NEW d \in Duties, NEW m \in SUBSET Ids
    PROVE  /\ [light |-> l, id |-> i, duty |-> d, mask |-> m]
                \in [light : Lights \cup {NULL}, id : 0 .. channel_num + 1, duty : Duties,
                     mask : SUBSET Ids]
           /\ 0 \in Duties /\ {} \in SUBSET Ids /\ 1 \in 1 .. channel_num
<1>1. i \in 0 .. channel_num + 1 /\ 1 \in 1 .. channel_num
  BY NumberAssumption
<1>2. QED
  BY <1>1 DEF Duties

\* No step leads elsewhere.
LEMMA PlacesStep ==
    ASSUME Places, [Next]_vars
    PROVE  Places'
<1> USE NumberAssumption, LightAssumption DEF Places, Return, NoArg, call, Duties, Ids
<1>1. ASSUME NEW l \in Lights, Create(l) PROVE Places'
  BY <1>1 DEF Create, Asked
<1>2. ASSUME NEW k \in Channels, Regist(k) PROVE Places'
  BY <1>2 DEF Regist, Asked
<1>3. ASSUME NEW k \in Channels, NEW duty \in Duties, DutyCall(k, duty) PROVE Places'
  <2>1. arg' = [light |-> k[1], id |-> k[2], duty |-> duty, mask |-> {}] /\ pc' = "duty"
    BY <1>3 DEF DutyCall
  <2>2. k = <<k[1], k[2]>> /\ k[1] \in Lights /\ k[2] \in 1 .. channel_num
    BY ChannelIs DEF Ids
  <2>3. QED
    BY <2>1, <2>2, ArgIs DEF Asked, Channels
<1>3a. ASSUME NEW k \in Channels, DutyRefused(k) PROVE Places'
  BY <1>3a DEF DutyRefused, Asked
<1>4. CASE DutySet
  BY <1>4 DEF DutySet
<1>5. ASSUME NEW k \in Channels, NEW period \in Periods, BreathCall(k, period) PROVE Places'
  <2>1. \/ /\ arg' = [light |-> k[1], id |-> k[2], duty |-> 0, mask |-> {}]
           /\ pc' = "start"
        \/ UNCHANGED call
    BY <1>5 DEF BreathCall
  <2>2. k = <<k[1], k[2]>> /\ k[1] \in Lights /\ k[2] \in 1 .. channel_num
    BY ChannelIs DEF Ids
  <2>3. QED
    BY <2>1, <2>2, ArgIs DEF Asked, Channels
<1>6. CASE BreathStart
  <2>1. UNCHANGED arg
    BY <1>6 DEF BreathStart
  <2>2. QED
    BY <1>6, <2>1 DEF BreathStart, Asked, Channels
<1>7. CASE BreathFade
  <2>1. UNCHANGED arg
    BY <1>7 DEF BreathFade
  <2>2. QED
    BY <1>7, <2>1 DEF BreathFade, Asked, Channels
<1>8. CASE BreathNext
  BY <1>8 DEF BreathNext
<1>9. ASSUME NEW l \in Lights, NEW mask \in SUBSET Ids, BlinkCall(l, mask) PROVE Places'
  <2>1. arg' = [light |-> l, id |-> 1, duty |-> 0, mask |-> mask] /\ pc' = "blink"
    BY <1>9 DEF BlinkCall
  <2>2. arg'.light = l /\ arg'.id = 1
        /\ arg' \in [light : Lights \cup {NULL}, id : 0 .. channel_num + 1, duty : Duties,
                   mask : SUBSET Ids]
    BY <2>1, ArgIs
  <2>3. QED
    BY <2>1, <2>2
<1>10. CASE BlinkStop
  <2>1. UNCHANGED arg
    BY <1>10 DEF BlinkStop
  <2>2. QED
    BY <1>10, <2>1 DEF BlinkStop, Asked, Channels
<1>11. CASE BlinkDuty
  <2>1. /\ arg' = [arg EXCEPT !.id = @ + 1]
        /\ pc' = IF arg.id = channel_num THEN "blink" ELSE "blink"
    BY <1>11 DEF BlinkDuty, Step
  <2>2. arg.light \in Lights /\ arg.id \in 1 .. channel_num
    BY <1>11 DEF BlinkDuty, Asked, Channels
  <2>3. QED
    BY <2>1, <2>2, ArgIs DEF Asked, Channels
<1>12. CASE BlinkSkip
  <2>1. /\ arg' = [arg EXCEPT !.id = @ + 1]
        /\ pc' = IF arg.id = channel_num THEN "blink" ELSE "blink"
    BY <1>12 DEF BlinkSkip, Step
  <2>2. arg.light \in Lights /\ arg.id \in 1 .. channel_num
    BY <1>12 DEF BlinkSkip, Asked, Channels
  <2>3. QED
    BY <2>1, <2>2, ArgIs DEF Asked, Channels
<1>13. CASE BlinkDone
  BY <1>13 DEF BlinkDone
<1>14. ASSUME NEW l \in Lights, DeleteCall(l) PROVE Places'
  <2>1. arg' = [light |-> l, id |-> 1, duty |-> 0, mask |-> {}] /\ pc' = "delete"
    BY <1>14 DEF DeleteCall
  <2>2. arg'.light = l /\ arg'.id = 1
        /\ arg' \in [light : Lights \cup {NULL}, id : 0 .. channel_num + 1, duty : Duties,
                   mask : SUBSET Ids]
    BY <2>1, ArgIs
  <2>3. QED
    BY <2>1, <2>2, ArgIs DEF Asked, Channels
<1>15. CASE DeleteChannel
  <2>1. /\ arg' = [arg EXCEPT !.id = @ + 1]
        /\ pc' = IF arg.id = channel_num THEN "remove" ELSE "delete"
    BY <1>15 DEF DeleteChannel, Step
  <2>2. arg.light \in Lights /\ arg.id \in 1 .. channel_num
    BY <1>15 DEF DeleteChannel, Asked, Channels
  <2>3. QED
    BY <2>1, <2>2, ArgIs DEF Asked, Channels
<1>16. CASE Delete
  BY <1>16 DEF Delete
<1>17. CASE Command
  BY <1>17 DEF Command, Asked
<1>18. ASSUME NEW t \in Timers, Expire(t) PROVE Places'
  BY <1>18 DEF Expire, Asked
<1>19. CASE UNCHANGED vars
  BY <1>19 DEF vars, Asked
<1>20. QED
  BY <1>1, <1>2, <1>3, <1>3a, <1>4, <1>5, <1>6, <1>7, <1>8, <1>9, <1>10, <1>11, <1>12,
     <1>13, <1>14, <1>15, <1>16, <1>17, <1>18, <1>19
     DEF Next, Call, CallStep

\* The lights, and the group that holds some of them.
Group ==
    /\ exists \subseteq Lights /\ blinking \subseteq Lights
    /\ g_light_group \in [Slots -> exists \cup {NULL}]

\* Only lights that exist are in the group.
LEMMA GroupStep ==
    ASSUME Places, Group, [Next]_vars
    PROVE  Group'
<1> USE DEF Group, lights
<1>1. ASSUME NEW l \in Lights, Create(l) PROVE Group'
  <2>1. exists' = exists \cup {l} /\ UNCHANGED blinking
        /\ (UNCHANGED g_light_group \/ \E s : g_light_group' = [g_light_group EXCEPT ![s] = l])
    BY <1>1 DEF Create
  <2>2. QED
    BY <2>1
<1>2. ASSUME NEW k \in Channels, Regist(k) PROVE Group'
  BY <1>2 DEF Regist
<1>3. ASSUME NEW k \in Channels, NEW duty \in Duties, DutyCall(k, duty) PROVE Group'
  BY <1>3 DEF DutyCall
<1>3a. ASSUME NEW k \in Channels, DutyRefused(k) PROVE Group'
  BY <1>3a DEF DutyRefused
<1>4. CASE DutySet
  BY <1>4 DEF DutySet
<1>5. ASSUME NEW k \in Channels, NEW period \in Periods, BreathCall(k, period) PROVE Group'
  BY <1>5 DEF BreathCall
<1>6. CASE BreathStart
  BY <1>6 DEF BreathStart
<1>7. CASE BreathFade
  BY <1>7 DEF BreathFade
<1>8. CASE BreathNext
  BY <1>8 DEF BreathNext
<1>9. ASSUME NEW l \in Lights, NEW mask \in SUBSET Ids, BlinkCall(l, mask) PROVE Group'
  BY <1>9 DEF BlinkCall, Ids
<1>10. CASE BlinkStop
  BY <1>10 DEF BlinkStop
<1>11. CASE BlinkDuty
  BY <1>11 DEF BlinkDuty
<1>12. CASE BlinkSkip
  BY <1>12 DEF BlinkSkip
<1>13. CASE BlinkDone
  BY <1>13 DEF BlinkDone
<1>14. ASSUME NEW l \in Lights, DeleteCall(l) PROVE Group'
  BY <1>14 DEF DeleteCall
<1>15. CASE DeleteChannel
  BY <1>15 DEF DeleteChannel
<1>16. CASE Delete
  <2>1. /\ exists' = exists \ {arg.light} /\ blinking' = blinking \ {arg.light}
        /\ g_light_group' = Without(arg.light)
    BY <1>16 DEF Delete
  <2>2. \A s \in Slots : g_light_group'[s] \in exists' \cup {NULL}
    BY <2>1 DEF Without
  <2>3. QED
    BY <2>1, <2>2 DEF Without
<1>17. CASE Command
  BY <1>17 DEF Command
<1>18. ASSUME NEW t \in Timers, Expire(t) PROVE Group'
  BY <1>18 DEF Expire
<1>19. CASE UNCHANGED vars
  BY <1>19 DEF vars
<1>20. QED
  BY <1>1, <1>2, <1>3, <1>3a, <1>4, <1>5, <1>6, <1>7, <1>8, <1>9, <1>10, <1>11, <1>12,
     <1>13, <1>14, <1>15, <1>16, <1>17, <1>18, <1>19
     DEF Next, Call, CallStep

Flags ==
    /\ g_fade_installed \in BOOLEAN /\ fade_driver \in BOOLEAN /\ fade_refused \in BOOLEAN

\* The flags stay flags.
LEMMA FlagsStep ==
    ASSUME Flags, [Next]_vars
    PROVE  Flags'
<1> USE DEF Flags, fade
<1>1. ASSUME NEW l \in Lights, Create(l) PROVE Flags'
  BY <1>1 DEF Create
<1>2. ASSUME NEW k \in Channels, Regist(k) PROVE Flags'
  BY <1>2 DEF Regist
<1>3. ASSUME NEW k \in Channels, NEW duty \in Duties, DutyCall(k, duty) PROVE Flags'
  BY <1>3 DEF DutyCall
<1>3a. ASSUME NEW k \in Channels, DutyRefused(k) PROVE Flags'
  BY <1>3a DEF DutyRefused
<1>4. CASE DutySet
  BY <1>4 DEF DutySet
<1>5. ASSUME NEW k \in Channels, NEW period \in Periods, BreathCall(k, period) PROVE Flags'
  BY <1>5 DEF BreathCall
<1>6. CASE BreathStart
  BY <1>6 DEF BreathStart
<1>7. CASE BreathFade
  BY <1>7 DEF BreathFade
<1>8. CASE BreathNext
  BY <1>8 DEF BreathNext
<1>9. ASSUME NEW l \in Lights, NEW mask \in SUBSET Ids, BlinkCall(l, mask) PROVE Flags'
  BY <1>9 DEF BlinkCall
<1>10. CASE BlinkStop
  BY <1>10 DEF BlinkStop
<1>11. CASE BlinkDuty
  BY <1>11 DEF BlinkDuty
<1>12. CASE BlinkSkip
  BY <1>12 DEF BlinkSkip
<1>13. CASE BlinkDone
  BY <1>13 DEF BlinkDone
<1>14. ASSUME NEW l \in Lights, DeleteCall(l) PROVE Flags'
  BY <1>14 DEF DeleteCall
<1>15. CASE DeleteChannel
  BY <1>15 DEF DeleteChannel
<1>16. CASE Delete
  BY <1>16 DEF Delete
<1>17. CASE Command
  BY <1>17 DEF Command
<1>18. ASSUME NEW t \in Timers, Expire(t) PROVE Flags'
  BY <1>18 DEF Expire
<1>19. CASE UNCHANGED vars
  BY <1>19 DEF vars
<1>20. QED
  BY <1>1, <1>2, <1>3, <1>3a, <1>4, <1>5, <1>6, <1>7, <1>8, <1>9, <1>10, <1>11, <1>12,
     <1>13, <1>14, <1>15, <1>16, <1>17, <1>18, <1>19
     DEF Next, Call, CallStep

\* The channels, what they are asked, and the timers with the commands for them.
Cells ==
    chn \in [Channels -> [cell : {"null", "live", "freed"}, timer : Timers \cup {NULL},
                         period : Periods \cup {0}, next : {0, FullDuty}]]
Outs ==
    /\ out \in [Channels -> Duties]
    /\ mode \in [Channels -> [as : {"none", "breath", "duty"}, duty : Duties]]
Queues ==
    /\ timers \in [Timers -> {"free", "dormant", "active"}]
    /\ commands \in Seq([op : {"start", "stop", "delete"}, timer : Timers])
    /\ Len(commands) <= MaxCommands

\* A channel keeps its fields.
LEMMA CellsStep ==
    ASSUME Places, Cells, [Next]_vars
    PROVE  Cells'
<1> USE DEF Cells, NewChannel, NoChannel
<1>1. ASSUME NEW l \in Lights, Create(l) PROVE Cells'
  BY <1>1 DEF Create
<1>2. ASSUME NEW k \in Channels, Regist(k) PROVE Cells'
  BY <1>2 DEF Regist
<1>3. ASSUME NEW k \in Channels, NEW duty \in Duties, DutyCall(k, duty) PROVE Cells'
  BY <1>3 DEF DutyCall
<1>3a. ASSUME NEW k \in Channels, DutyRefused(k) PROVE Cells'
  BY <1>3a DEF DutyRefused
<1>4. CASE DutySet
  BY <1>4 DEF DutySet
<1>5. ASSUME NEW k \in Channels, NEW period \in Periods, BreathCall(k, period) PROVE Cells'
  <2>1. UNCHANGED chn \/ \E t \in Timers \cup {NULL} :
                              chn' = [chn EXCEPT ![k].timer = t, ![k].period = period]
    BY <1>5 DEF BreathCall, rtos
  <2>2. ASSUME NEW t \in Timers \cup {NULL},
               chn' = [chn EXCEPT ![k].timer = t, ![k].period = period]
        PROVE  Cells'
    <3>1. chn'[k] = [chn[k] EXCEPT !.timer = t, !.period = period]
      BY <2>2
    <3>2. chn[k] \in [cell : {"null", "live", "freed"}, timer : Timers \cup {NULL},
                      period : Periods \cup {0}, next : {0, FullDuty}]
      OBVIOUS
    <3>3. chn'[k] \in [cell : {"null", "live", "freed"}, timer : Timers \cup {NULL},
                       period : Periods \cup {0}, next : {0, FullDuty}]
      BY <3>1, <3>2
    <3>4. QED
      BY <2>2, <3>3
  <2>3. QED
    BY <2>1, <2>2
<1>6. CASE BreathStart
  BY <1>6 DEF BreathStart
<1>7. CASE BreathFade
  BY <1>7 DEF BreathFade
<1>8. CASE BreathNext
  <2>1. chn' = [chn EXCEPT ![Asked].next = 0]
    BY <1>8 DEF BreathNext
  <2>2. chn' = [chn EXCEPT ![Asked] = [chn[Asked] EXCEPT !.next = 0]]
    BY <2>1
  <2>3. QED
    BY <1>8, <2>2 DEF BreathNext, Places
<1>9. ASSUME NEW l \in Lights, NEW mask \in SUBSET Ids, BlinkCall(l, mask) PROVE Cells'
  BY <1>9 DEF BlinkCall
<1>10. CASE BlinkStop
  BY <1>10 DEF BlinkStop
<1>11. CASE BlinkDuty
  BY <1>11 DEF BlinkDuty
<1>12. CASE BlinkSkip
  BY <1>12 DEF BlinkSkip
<1>13. CASE BlinkDone
  BY <1>13 DEF BlinkDone
<1>14. ASSUME NEW l \in Lights, DeleteCall(l) PROVE Cells'
  BY <1>14 DEF DeleteCall
<1>15. CASE DeleteChannel
  BY <1>15 DEF DeleteChannel
<1>16. CASE Delete
  BY <1>16 DEF Delete
<1>17. CASE Command
  BY <1>17 DEF Command
<1>18. ASSUME NEW t \in Timers, Expire(t) PROVE Cells'
  <2>1. chn' = [k \in Channels |->
                  IF k \in Turned(t) THEN [chn[k] EXCEPT !.next = FullDuty - @] ELSE chn[k]]
    BY <1>18 DEF Expire
  <2>2. ASSUME NEW k \in Channels
        PROVE  chn'[k] \in [cell : {"null", "live", "freed"}, timer : Timers \cup {NULL},
                            period : Periods \cup {0}, next : {0, FullDuty}]
    <3>1. FullDuty - chn[k].next \in {0, FullDuty}
      BY NumberAssumption
    <3>2. QED
      BY <2>1, <3>1
  <2>3. QED
    BY <2>1, <2>2
<1>19. CASE UNCHANGED vars
  BY <1>19 DEF vars
<1>20. QED
  BY <1>1, <1>2, <1>3, <1>3a, <1>4, <1>5, <1>6, <1>7, <1>8, <1>9, <1>10, <1>11, <1>12,
     <1>13, <1>14, <1>15, <1>16, <1>17, <1>18, <1>19
     DEF Next, Call, CallStep

\* A duty is one of those that are used.
LEMMA OutsStep ==
    ASSUME Places, Cells, Outs, [Next]_vars
    PROVE  Outs'
<1> USE DEF Outs, Duties, Asks, Breathing, Written, Nothing, FadedTo
<1>1. ASSUME NEW l \in Lights, Create(l) PROVE Outs'
  BY <1>1 DEF Create
<1>2. ASSUME NEW k \in Channels, Regist(k) PROVE Outs'
  BY <1>2 DEF Regist
<1>3. ASSUME NEW k \in Channels, NEW duty \in Duties, DutyCall(k, duty) PROVE Outs'
  BY <1>3 DEF DutyCall
<1>3a. ASSUME NEW k \in Channels, DutyRefused(k) PROVE Outs'
  BY <1>3a DEF DutyRefused
<1>4. CASE DutySet
  <2>1. arg.duty \in Duties
    BY DEF Places
  <2>2. /\ mode' = [mode EXCEPT ![Asked] = [as |-> "duty", duty |-> arg.duty]]
        /\ \/ out' = [out EXCEPT ![Asked] = arg.duty]
           \/ out' = [k \in Channels |->
                         IF fade_driver /\ k \in {Asked} THEN arg.duty ELSE out[k]]
    BY <1>4 DEF DutySet
  <2>3. QED
    BY <2>1, <2>2
<1>5. ASSUME NEW k \in Channels, NEW period \in Periods, BreathCall(k, period) PROVE Outs'
  BY <1>5 DEF BreathCall
<1>6. CASE BreathStart
  BY <1>6 DEF BreathStart
<1>7. CASE BreathFade
  BY <1>7 DEF BreathFade
<1>8. CASE BreathNext
  BY <1>8 DEF BreathNext
<1>9. ASSUME NEW l \in Lights, NEW mask \in SUBSET Ids, BlinkCall(l, mask) PROVE Outs'
  BY <1>9 DEF BlinkCall
<1>10. CASE BlinkStop
  BY <1>10 DEF BlinkStop
<1>11. CASE BlinkDuty
  <2>1. PICK duty \in {0, 1} : out' = [out EXCEPT ![Asked] = duty]
        /\ mode' = [mode EXCEPT ![Asked] = [as |-> "duty", duty |-> duty]]
    BY <1>11 DEF BlinkDuty
  <2>2. QED
    BY <2>1
<1>12. CASE BlinkSkip
  BY <1>12 DEF BlinkSkip
<1>13. CASE BlinkDone
  BY <1>13 DEF BlinkDone
<1>14. ASSUME NEW l \in Lights, DeleteCall(l) PROVE Outs'
  BY <1>14 DEF DeleteCall
<1>15. CASE DeleteChannel
  BY <1>15 DEF DeleteChannel
<1>16. CASE Delete
  BY <1>16 DEF Delete
<1>17. CASE Command
  BY <1>17 DEF Command
<1>18. ASSUME NEW t \in Timers, Expire(t) PROVE Outs'
  <2>1. \A k \in Channels : chn[k].next \in Duties
    BY DEF Cells
  <2>2. out' = [k \in Channels |->
                   IF fade_driver /\ k \in Turned(t) THEN chn[k].next ELSE out[k]]
        /\ UNCHANGED mode
    BY <1>18 DEF Expire
  <2>3. QED
    BY <2>1, <2>2
<1>19. CASE UNCHANGED vars
  BY <1>19 DEF vars
<1>20. QED
  BY <1>1, <1>2, <1>3, <1>3a, <1>4, <1>5, <1>6, <1>7, <1>8, <1>9, <1>10, <1>11, <1>12,
     <1>13, <1>14, <1>15, <1>16, <1>17, <1>18, <1>19
     DEF Next, Call, CallStep

Commands == [op : {"start", "stop", "delete"}, timer : Timers]

\* What is sent comes last.
LEMMA Sent ==
    ASSUME Queues, NEW op \in {"start", "stop", "delete"}, NEW t \in Timers, Send(op, t)
    PROVE  /\ commands' \in Seq(Commands) /\ Len(commands') <= MaxCommands
           /\ DOMAIN commands' = DOMAIN commands \cup {Len(commands) + 1}
           /\ \A i \in DOMAIN commands : commands'[i] = commands[i] /\ i < Len(commands) + 1
           /\ commands'[Len(commands) + 1] = [op |-> op, timer |-> t]
           /\ \A u \in Timers : Deleted(u)' <=> Deleted(u) \/ (op = "delete" /\ u = t)
<1> DEFINE c == [op |-> op, timer |-> t]
<1>1. c \in Commands
  BY DEF Commands
<1>2. commands \in Seq(Commands) /\ Len(commands) < MaxCommands
      /\ commands' = Append(commands, c)
  BY LightAssumption DEF Queues, Send, Commands
<1>3. commands' \in Seq(Commands) /\ Len(commands') = Len(commands) + 1
  BY <1>1, <1>2
<1>4. /\ DOMAIN commands' = DOMAIN commands \cup {Len(commands) + 1}
      /\ \A i \in DOMAIN commands : commands'[i] = commands[i] /\ i < Len(commands) + 1
      /\ commands'[Len(commands) + 1] = c
  BY <1>1, <1>2, <1>3
<1>5. ASSUME NEW u \in Timers
      PROVE  Deleted(u)' <=> Deleted(u) \/ (op = "delete" /\ u = t)
  BY <1>4 DEF Deleted
<1>6. Len(commands') <= MaxCommands
  BY <1>2, <1>3, NumberAssumption
<1>7. QED
  BY <1>3, <1>4, <1>5, <1>6

\* What the timer task takes comes first.
LEMMA Taken ==
    ASSUME Queues, Command
    PROVE  /\ commands' \in Seq(Commands) /\ Len(commands') <= MaxCommands
           /\ 1 \in DOMAIN commands /\ commands[1] \in Commands
           /\ \A i \in DOMAIN commands' :
                 i + 1 \in DOMAIN commands /\ 1 < i + 1 /\ commands'[i] = commands[i + 1]
           /\ \A i \in DOMAIN commands : i # 1 => i - 1 \in DOMAIN commands'
                                               /\ commands'[i - 1] = commands[i]
           /\ timers' = [timers EXCEPT ![commands[1].timer] =
                            CASE commands[1].op = "start" -> "active"
                              [] commands[1].op = "stop" -> "dormant"
                              [] commands[1].op = "delete" -> "free"]
<1>1. /\ commands \in Seq(Commands) /\ commands # <<>> /\ commands' = Tail(commands)
      /\ Len(commands) <= MaxCommands
  BY DEF Queues, Command, Commands
<1>2. /\ Len(commands) \in Nat \ {0} /\ Head(commands) = commands[1]
      /\ commands' \in Seq(Commands) /\ Len(commands') = Len(commands) - 1
      /\ \A i \in 1 .. Len(commands') : commands'[i] = commands[i + 1]
  BY <1>1
<1>3. DOMAIN commands = 1 .. Len(commands) /\ DOMAIN commands' = 1 .. Len(commands')
  BY <1>1, <1>2
<1>4. \A i \in DOMAIN commands' :
         i + 1 \in DOMAIN commands /\ 1 < i + 1 /\ commands'[i] = commands[i + 1]
  BY <1>2, <1>3
<1>5. ASSUME NEW i \in DOMAIN commands, i # 1
      PROVE  i - 1 \in DOMAIN commands' /\ commands'[i - 1] = commands[i]
  <2>1. i - 1 \in 1 .. Len(commands')
    BY <1>2, <1>3, <1>5
  <2>2. commands'[i - 1] = commands[(i - 1) + 1]
    BY <1>2, <2>1
  <2>3. QED
    BY <1>3, <2>1, <2>2
<1>6. 1 \in DOMAIN commands /\ commands[1] \in Commands
  BY <1>1, <1>2, <1>3
<1>7. Len(commands') <= MaxCommands
  BY <1>1, <1>2, NumberAssumption
<1>8. QED
  BY <1>1, <1>2, <1>4, <1>5, <1>6, <1>7 DEF Command

\* The queue holds commands for timers, as many as it has room for.
LEMMA QueuesStep ==
    ASSUME Places, Cells, Queues, [Next]_vars
    PROVE  Queues'
<1> USE DEF Queues, rtos
<1>1. ASSUME NEW l \in Lights, Create(l) PROVE Queues'
  BY <1>1 DEF Create
<1>2. ASSUME NEW k \in Channels, Regist(k) PROVE Queues'
  BY <1>2 DEF Regist
<1>3. ASSUME NEW k \in Channels, NEW duty \in Duties, DutyCall(k, duty) PROVE Queues'
  <2>1. Send("stop", chn[k].timer) /\ UNCHANGED timers
    BY <1>3 DEF DutyCall
  <2>2. chn[k].timer \in Timers \cup {NULL}
    BY <1>3 DEF Cells
  <2>3. CASE chn[k].timer = NULL
    BY <2>1, <2>3 DEF Send
  <2>4. CASE chn[k].timer # NULL
    BY <2>1, <2>2, <2>4, Sent DEF Commands
  <2>5. QED
    BY <2>3, <2>4
<1>3a. ASSUME NEW k \in Channels, DutyRefused(k) PROVE Queues'
  <2>1. Send("stop", chn[k].timer) /\ UNCHANGED timers
    BY <1>3a DEF DutyRefused
  <2>2. chn[k].timer \in Timers \cup {NULL}
    BY <1>3a DEF Cells
  <2>3. CASE chn[k].timer = NULL
    BY <2>1, <2>3 DEF Send
  <2>4. CASE chn[k].timer # NULL
    BY <2>1, <2>2, <2>4, Sent DEF Commands
  <2>5. QED
    BY <2>3, <2>4
<1>4. CASE DutySet
  BY <1>4 DEF DutySet
<1>5. ASSUME NEW k \in Channels, NEW period \in Periods, BreathCall(k, period) PROVE Queues'
  <2>1. CASE chn[k].period = period
    BY <1>5, <2>1 DEF BreathCall
  <2>2. CASE chn[k].period # period
    <3>1. Send("delete", chn[k].timer)
      BY <1>5, <2>2 DEF BreathCall
    <3>2. timers' \in [Timers -> {"free", "dormant", "active"}]
      BY <1>5, <2>2 DEF BreathCall, Created
    <3>3. commands' \in Seq(Commands) /\ Len(commands') <= MaxCommands
      <4>1. chn[k].timer \in Timers \cup {NULL}
        BY DEF Cells
      <4>2. CASE chn[k].timer = NULL
        BY <3>1, <4>2 DEF Send, Commands
      <4>3. CASE chn[k].timer # NULL
        BY <3>1, <4>1, <4>3, Sent
      <4>4. QED
        BY <4>2, <4>3
    <3>4. QED
      BY <3>2, <3>3 DEF Commands
  <2>3. QED
    BY <2>1, <2>2
<1>6. CASE BreathStart
  <2>1. Send("start", chn[Asked].timer) /\ UNCHANGED timers
    BY <1>6 DEF BreathStart
  <2>2. chn[Asked].timer \in Timers \cup {NULL}
    BY <1>6 DEF Cells, Places, BreathStart
  <2>3. CASE chn[Asked].timer = NULL
    BY <2>1, <2>3 DEF Send
  <2>4. CASE chn[Asked].timer # NULL
    BY <2>1, <2>2, <2>4, Sent DEF Commands
  <2>5. QED
    BY <2>3, <2>4
<1>7. CASE BreathFade
  BY <1>7 DEF BreathFade
<1>8. CASE BreathNext
  BY <1>8 DEF BreathNext
<1>9. ASSUME NEW l \in Lights, NEW mask \in SUBSET Ids, BlinkCall(l, mask) PROVE Queues'
  BY <1>9 DEF BlinkCall
<1>10. CASE BlinkStop
  <2>1. Send("stop", chn[Asked].timer) /\ UNCHANGED timers
    BY <1>10 DEF BlinkStop
  <2>2. chn[Asked].timer \in Timers \cup {NULL}
    BY <1>10 DEF Cells, Places, BlinkStop, Asked, Channels, Ids
  <2>3. CASE chn[Asked].timer = NULL
    BY <2>1, <2>3 DEF Send
  <2>4. CASE chn[Asked].timer # NULL
    BY <2>1, <2>2, <2>4, Sent DEF Commands
  <2>5. QED
    BY <2>3, <2>4
<1>11. CASE BlinkDuty
  BY <1>11 DEF BlinkDuty
<1>12. CASE BlinkSkip
  BY <1>12 DEF BlinkSkip
<1>13. CASE BlinkDone
  BY <1>13 DEF BlinkDone
<1>14. ASSUME NEW l \in Lights, DeleteCall(l) PROVE Queues'
  BY <1>14 DEF DeleteCall
<1>15. CASE DeleteChannel
  <2>1. CASE Live(Asked)
    <3>1. Send("delete", chn[Asked].timer) /\ UNCHANGED timers
      BY <1>15, <2>1 DEF DeleteChannel
    <3>2. chn[Asked].timer \in Timers \cup {NULL}
      BY <1>15 DEF DeleteChannel, Cells, Places
    <3>3. CASE chn[Asked].timer = NULL
      BY <3>1, <3>3 DEF Send
    <3>4. CASE chn[Asked].timer # NULL
      BY <3>1, <3>2, <3>4, Sent DEF Commands
    <3>5. QED
      BY <3>3, <3>4
  <2>2. CASE ~Live(Asked)
    BY <1>15, <2>2 DEF DeleteChannel
  <2>3. QED
    BY <2>1, <2>2
<1>16. CASE Delete
  BY <1>16 DEF Delete
<1>17. CASE Command
  <2>1. timers' \in [Timers -> {"free", "dormant", "active"}]
    BY <1>17, Taken DEF Commands
  <2>2. QED
    BY <1>17, <2>1, Taken DEF Commands
<1>18. ASSUME NEW t \in Timers, Expire(t) PROVE Queues'
  BY <1>18 DEF Expire
<1>19. CASE UNCHANGED vars
  BY <1>19 DEF vars
<1>20. QED
  BY <1>1, <1>2, <1>3, <1>3a, <1>4, <1>5, <1>6, <1>7, <1>8, <1>9, <1>10, <1>11, <1>12,
     <1>13, <1>14, <1>15, <1>16, <1>17, <1>18, <1>19
     DEF Next, Call, CallStep

\* Every variable has its type, for any number of channels and commands.
THEOREM TypeCorrect == Spec => []TypeOK
<1>1. ASSUME Init PROVE Places /\ Group /\ Flags /\ Cells /\ Outs /\ Queues
  <2>1. Places
    BY <1>1, NumberAssumption DEF Init, NoArg, Places, Duties
  <2>2. Group
    BY <1>1 DEF Init, Group
  <2>3. Flags
    BY <1>1 DEF Init, Flags
  <2>4. Cells
    BY <1>1 DEF Init, Cells, NoChannel
  <2>5. Outs
    BY <1>1 DEF Init, Outs, Duties
  <2>6. Queues
    <3>1. commands = <<>> /\ timers = [t \in Timers |-> "free"]
      BY <1>1 DEF Init
    <3>2. QED
      BY <3>1, NumberAssumption DEF Queues
  <2>7. QED
    BY <2>1, <2>2, <2>3, <2>4, <2>5, <2>6
<1>2. Places /\ Group /\ Flags /\ Cells /\ Outs /\ Queues => TypeOK
  BY DEF Places, Group, Flags, Cells, Outs, Queues, TypeOK
<1>3. QED
  BY <1>1, <1>2, PlacesStep, GroupStep, FlagsStep, CellsStep, OutsStep, QueuesStep, PTL DEF Spec

-----------------------------------------------------------------------------
(* The timers                                                               *)

\* The timer that a channel has.
Holds(k) == IF Live(k) THEN chn[k].timer ELSE NULL

\* No two channels have the same timer; a timer that a channel has exists and will not be
\* deleted; one that nobody has will be.
Unique == \A k, m \in Channels : Holds(k) # NULL /\ Holds(k) = Holds(m) => k = m
Kept == \A k \in Channels, t \in Timers :
            Holds(k) = t => timers[t] # "free" /\ ~Deleted(t)
Found == \A t \in Timers :
             timers[t] # "free" /\ ~Deleted(t) => \E k \in Channels : Holds(k) = t

\* Nothing is sent to a timer that does not exist, or after its deletion.
Quiet == \A t \in Timers : timers[t] = "free" => \A i \in DOMAIN commands : commands[i].timer # t
LastIsDelete ==
    \A i, j \in DOMAIN commands :
        i < j /\ commands[i].op = "delete" => commands[j].timer # commands[i].timer

Timed == Unique /\ Kept /\ Found /\ Quiet /\ LastIsDelete

\* What waits are commands.
LEMMA Waiting ==
    ASSUME Queues
    PROVE  \A i \in DOMAIN commands : commands[i] \in Commands
<1>1. commands \in Seq(Commands)
  BY DEF Queues, Commands
<1>2. DOMAIN commands = 1 .. Len(commands)
  BY <1>1
<1>3. QED
  BY <1>1, <1>2

LEMMA HoldsType ==
    ASSUME Cells, NEW k \in Channels
    PROVE  Holds(k) \in Timers \cup {NULL}
  BY DEF Cells, Holds

\* What does not touch the timers keeps all of it.
LEMMA TimedSame ==
    ASSUME Timed, UNCHANGED rtos, \A k \in Channels : Holds(k)' = Holds(k)
    PROVE  Timed'
  BY DEF Timed, Unique, Kept, Found, Quiet, LastIsDelete, Deleted, rtos

\* So does a start or a stop of a timer that a channel has.
LEMMA TimedSent ==
    ASSUME Timed, Cells, Queues, NEW k \in Channels, NEW op \in {"start", "stop"},
           Send(op, Holds(k)), UNCHANGED timers,
           \A m \in Channels : Holds(m)' = Holds(m)
    PROVE  Timed'
<1>1. CASE Holds(k) = NULL
  BY <1>1, TimedSame DEF Send, rtos
<1>2. CASE Holds(k) # NULL
  <2>1. Holds(k) \in Timers
    BY <1>2, HoldsType
  <2> DEFINE n == Len(commands) + 1
  <2>2. /\ DOMAIN commands' = DOMAIN commands \cup {n}
        /\ \A i \in DOMAIN commands : commands'[i] = commands[i] /\ i < n
        /\ commands'[n] = [op |-> op, timer |-> Holds(k)]
        /\ \A u \in Timers : Deleted(u)' <=> Deleted(u)
    BY <2>1, Sent
  <2>3. timers[Holds(k)] # "free" /\ ~Deleted(Holds(k))
    BY <2>1 DEF Timed, Kept
  <2>4. Unique' /\ Found'
    BY <2>2 DEF Timed, Unique, Found
  <2>5. Kept'
    BY <2>2 DEF Timed, Kept
  <2>6. Quiet'
    BY <2>2, <2>3 DEF Timed, Quiet
  <2>7. \A i \in DOMAIN commands : commands[i].op = "delete" => commands[i].timer # Holds(k)
    <3> SUFFICES ASSUME NEW i \in DOMAIN commands, commands[i].op = "delete",
                        commands[i].timer = Holds(k)
                 PROVE  FALSE
      OBVIOUS
    <3>1. commands[i] \in [op : {"start", "stop", "delete"}, timer : Timers]
      BY Waiting DEF Commands
    <3>2. commands[i] = [op |-> "delete", timer |-> Holds(k)]
      BY <3>1
    <3>3. QED
      BY <2>3, <3>2 DEF Deleted
  <2>8. LastIsDelete'
    <3> SUFFICES ASSUME NEW i \in DOMAIN commands', NEW j \in DOMAIN commands', i < j,
                        commands'[i].op = "delete"
                 PROVE  commands'[j].timer # commands'[i].timer
      BY DEF LastIsDelete
    <3>1. i \in DOMAIN commands
      BY <2>2
    <3>2. CASE j \in DOMAIN commands
      BY <2>2, <3>1, <3>2 DEF Timed, LastIsDelete
    <3>3. CASE j = n
      BY <2>2, <2>7, <3>1, <3>3
    <3>4. QED
      BY <2>2, <3>2, <3>3
  <2>9. QED
    BY <2>4, <2>5, <2>6, <2>8 DEF Timed
<1>3. QED
  BY <1>1, <1>2

\* A channel gives its timer up, to be deleted, and may take one that does not exist yet.
LEMMA TimedGiven ==
    ASSUME Timed, Cells, Queues, NEW k \in Channels, NEW new \in Timers \cup {NULL},
           Send("delete", Holds(k)),
           IF new = NULL
           THEN UNCHANGED timers
           ELSE timers[new] = "free" /\ timers' = [timers EXCEPT ![new] = "dormant"],
           Holds(k)' = new,
           \A m \in Channels : m # k => Holds(m)' = Holds(m)
    PROVE  Timed'
<1> DEFINE old == Holds(k)
           n == Len(commands) + 1
<1>1. old \in Timers \cup {NULL}
  BY HoldsType
<1>2. /\ timers \in [Timers -> {"free", "dormant", "active"}]
      /\ \A i \in DOMAIN commands :
             commands[i] \in [op : {"start", "stop", "delete"}, timer : Timers]
  BY Waiting DEF Queues, Commands
<1>3. \A t \in Timers : timers'[t] = IF t = new THEN "dormant" ELSE timers[t]
  BY <1>2, LightAssumption
<1>4. new # NULL => new # old /\ ~Deleted(new) /\ \A m \in Channels : Holds(m) # new
  <2>1. ASSUME new # NULL PROVE timers[new] = "free"
    BY <2>1
  <2>2. ASSUME new # NULL, NEW m \in Channels, Holds(m) = new PROVE FALSE
    BY <2>1, <2>2 DEF Timed, Kept
  <2>3. ASSUME new # NULL PROVE ~Deleted(new)
    BY <2>1, <2>3 DEF Timed, Quiet, Deleted
  <2>4. QED
    BY <2>2, <2>3
<1>5. Unique'
  BY <1>4 DEF Timed, Unique
<1>6. CASE old = NULL
  <2>1. UNCHANGED commands
    BY <1>6 DEF Send
  <2>2. \A t \in Timers : Deleted(t)' <=> Deleted(t)
    BY <2>1 DEF Deleted
  <2>3. Kept'
    <3> SUFFICES ASSUME NEW m \in Channels, NEW t \in Timers, Holds(m)' = t
                 PROVE  timers'[t] # "free" /\ ~Deleted(t)'
      BY DEF Kept
    <3>1. CASE m = k
      BY <1>3, <1>4, <2>2, <3>1, LightAssumption
    <3>2. CASE m # k
      BY <1>3, <2>2, <3>2 DEF Timed, Kept
    <3>3. QED
      BY <3>1, <3>2
  <2>4. Found'
    <3> SUFFICES ASSUME NEW t \in Timers, timers'[t] # "free", ~Deleted(t)'
                 PROVE  \E m \in Channels : Holds(m)' = t
      BY DEF Found
    <3>1. CASE t = new
      BY <3>1
    <3>2. CASE t # new
      <4>1. PICK m \in Channels : Holds(m) = t
        BY <1>3, <2>2, <3>2 DEF Timed, Found
      <4>2. m # k
        BY <1>6, <4>1, LightAssumption
      <4>3. QED
        BY <4>1, <4>2
    <3>3. QED
      BY <3>1, <3>2
  <2>5. Quiet' /\ LastIsDelete'
    BY <1>3, <2>1 DEF Timed, Quiet, LastIsDelete
  <2>6. QED
    BY <1>5, <2>3, <2>4, <2>5 DEF Timed
<1>7. CASE old # NULL
  <2>1. /\ DOMAIN commands' = DOMAIN commands \cup {n}
        /\ \A i \in DOMAIN commands : commands'[i] = commands[i] /\ i < n
        /\ commands'[n] = [op |-> "delete", timer |-> old]
        /\ \A u \in Timers : Deleted(u)' <=> Deleted(u) \/ u = old
    BY <1>1, <1>7, Sent
  <2>2. timers[old] # "free" /\ ~Deleted(old)
    BY <1>1, <1>7 DEF Timed, Kept
  <2>3. Kept'
    <3> SUFFICES ASSUME NEW m \in Channels, NEW t \in Timers, Holds(m)' = t
                 PROVE  timers'[t] # "free" /\ ~Deleted(t)'
      BY DEF Kept
    <3>1. CASE m = k
      BY <1>3, <1>4, <2>1, <3>1, LightAssumption
    <3>2. CASE m # k
      <4>1. timers[t] # "free" /\ ~Deleted(t)
        BY <3>2 DEF Timed, Kept
      <4>2. t # old
        BY <1>7, <3>2 DEF Timed, Unique
      <4>3. QED
        BY <1>3, <2>1, <4>1, <4>2
    <3>3. QED
      BY <3>1, <3>2
  <2>4. Found'
    <3> SUFFICES ASSUME NEW t \in Timers, timers'[t] # "free", ~Deleted(t)'
                 PROVE  \E m \in Channels : Holds(m)' = t
      BY DEF Found
    <3>1. CASE t = new
      BY <3>1
    <3>2. CASE t # new
      <4>1. t # old /\ ~Deleted(t)
        BY <2>1
      <4>2. PICK m \in Channels : Holds(m) = t
        BY <1>3, <3>2, <4>1 DEF Timed, Found
      <4>3. m # k
        BY <4>1, <4>2
      <4>4. QED
        BY <4>2, <4>3
    <3>3. QED
      BY <3>1, <3>2
  <2>5. Quiet'
    BY <1>3, <2>1, <2>2 DEF Timed, Quiet
  <2>6. \A i \in DOMAIN commands : commands[i].op = "delete" => commands[i].timer # old
    <3> SUFFICES ASSUME NEW i \in DOMAIN commands, commands[i].op = "delete",
                        commands[i].timer = old
                 PROVE  FALSE
      OBVIOUS
    <3>1. commands[i] = [op |-> "delete", timer |-> old]
      BY <1>2
    <3>2. QED
      BY <2>2, <3>1 DEF Deleted
  <2>7. LastIsDelete'
    <3> SUFFICES ASSUME NEW i \in DOMAIN commands', NEW j \in DOMAIN commands', i < j,
                        commands'[i].op = "delete"
                 PROVE  commands'[j].timer # commands'[i].timer
      BY DEF LastIsDelete
    <3>1. DOMAIN commands = 1 .. Len(commands) /\ Len(commands) \in Nat
      BY DEF Queues
    <3>2. i \in DOMAIN commands
      BY <2>1, <3>1
    <3>3. CASE j \in DOMAIN commands
      BY <2>1, <3>2, <3>3 DEF Timed, LastIsDelete
    <3>4. CASE j = n
      BY <2>1, <2>6, <3>2, <3>4
    <3>5. QED
      BY <2>1, <3>3, <3>4
  <2>8. QED
    BY <1>5, <2>3, <2>4, <2>5, <2>7 DEF Timed
<1>8. QED
  BY <1>6, <1>7

\* The timer task carries a command out.
LEMMA TimedTaken ==
    ASSUME Timed, Cells, Queues, Command, \A m \in Channels : Holds(m)' = Holds(m)
    PROVE  Timed'
<1> DEFINE c == commands[1]
<1>1. /\ 1 \in DOMAIN commands /\ c.timer \in Timers
      /\ c.op \in {"start", "stop", "delete"} /\ c = [op |-> c.op, timer |-> c.timer]
  BY Taken DEF Commands
<1>2. /\ \A i \in DOMAIN commands' :
             i + 1 \in DOMAIN commands /\ 1 < i + 1 /\ commands'[i] = commands[i + 1]
      /\ \A i \in DOMAIN commands : i # 1 => i - 1 \in DOMAIN commands'
                                          /\ commands'[i - 1] = commands[i]
  BY Taken
<1>3. \A t \in Timers :
         /\ t # c.timer => timers'[t] = timers[t]
         /\ t = c.timer => (timers'[t] = "free" <=> c.op = "delete")
  BY <1>1, Taken DEF Queues
<1>4. timers[c.timer] # "free"
  BY <1>1 DEF Timed, Quiet
<1>5. \A t \in Timers : Deleted(t)' => Deleted(t)
  BY <1>2 DEF Deleted
<1>6. \A t \in Timers : Deleted(t) /\ ~Deleted(t)' => t = c.timer /\ c.op = "delete"
  <2> SUFFICES ASSUME NEW t \in Timers, NEW i \in DOMAIN commands,
                      commands[i] = [op |-> "delete", timer |-> t], ~Deleted(t)'
               PROVE  t = c.timer /\ c.op = "delete"
    BY DEF Deleted
  <2>1. i = 1
    BY <1>2 DEF Deleted
  <2>2. QED
    BY <2>1
<1>7. Unique'
  BY DEF Timed, Unique
<1>8. Kept'
  <2> SUFFICES ASSUME NEW m \in Channels, NEW t \in Timers, Holds(m) = t
               PROVE  timers'[t] # "free" /\ ~Deleted(t)'
    BY DEF Kept
  <2>1. timers[t] # "free" /\ ~Deleted(t)
    BY DEF Timed, Kept
  <2>2. ~ (t = c.timer /\ c.op = "delete")
    BY <1>1, <2>1 DEF Deleted
  <2>3. QED
    BY <1>3, <1>5, <2>1, <2>2
<1>9. Found'
  <2> SUFFICES ASSUME NEW t \in Timers, timers'[t] # "free", ~Deleted(t)'
               PROVE  \E m \in Channels : Holds(m) = t
    BY DEF Found
  <2>1. timers[t] # "free"
    BY <1>3, <1>4
  <2>2. ~Deleted(t)
    BY <1>3, <1>6
  <2>3. QED
    BY <2>1, <2>2 DEF Timed, Found
<1>10. Quiet'
  <2> SUFFICES ASSUME NEW t \in Timers, timers'[t] = "free", NEW i \in DOMAIN commands'
               PROVE  commands'[i].timer # t
    BY DEF Quiet
  <2>1. i + 1 \in DOMAIN commands /\ 1 < i + 1 /\ commands'[i] = commands[i + 1]
    BY <1>2
  <2>2. CASE t = c.timer
    BY <1>1, <1>3, <2>1, <2>2 DEF Timed, LastIsDelete
  <2>3. CASE t # c.timer
    BY <1>3, <2>1, <2>3 DEF Timed, Quiet
  <2>4. QED
    BY <2>2, <2>3
<1>11. LastIsDelete'
  <2> SUFFICES ASSUME NEW i \in DOMAIN commands', NEW j \in DOMAIN commands', i < j,
                      commands'[i].op = "delete"
               PROVE  commands'[j].timer # commands'[i].timer
    BY DEF LastIsDelete
  <2>1. i \in Int /\ j \in Int
    BY Taken
  <2>2. i + 1 < j + 1
    BY <2>1
  <2>3. QED
    BY <1>2, <2>2 DEF Timed, LastIsDelete
<1>12. QED
  BY <1>7, <1>8, <1>9, <1>10, <1>11 DEF Timed

\* The channel of a call that starts its timer is there; a deletion leaves none behind.
Busy ==
    /\ pc = "start" => Live(Asked)
    /\ pc = "delete" => \A i \in Ids : i < arg.id => ~Live(<<arg.light, i>>)
    /\ pc = "remove" => \A i \in Ids : ~Live(<<arg.light, i>>)

\* No step lets a timer leak, or gives it to two channels.
LEMMA TimedStep ==
    ASSUME Places, Cells, Queues, Timed, Busy, [Next]_vars
    PROVE  Timed' /\ Busy'
<1>1. ASSUME NEW l \in Lights, Create(l) PROVE Timed' /\ Busy'
  <2>1. \A m \in Channels : Holds(m)' = Holds(m)
    BY <1>1 DEF Create, Holds, Live
  <2>2. Timed'
    BY <1>1, <2>1, TimedSame DEF Create, rtos
  <2>3. Busy'
    BY <1>1 DEF Create, Busy, Asked, Live, call
  <2>4. QED
    BY <2>2, <2>3
<1>2. ASSUME NEW k \in Channels, Regist(k) PROVE Timed' /\ Busy'
  <2>1. chn[k].cell = "null" /\ UNCHANGED rtos /\ pc = "idle" /\ UNCHANGED pc
        /\ (UNCHANGED chn \/ chn' = [chn EXCEPT ![k] = NewChannel])
    BY <1>2 DEF Regist, call
  <2>2. \A m \in Channels : Holds(m)' = Holds(m)
    BY <2>1 DEF Holds, Live, NewChannel, NoChannel, Cells
  <2>3. QED
    BY <2>1, <2>2, TimedSame DEF Busy
<1>3. ASSUME NEW k \in Channels, NEW duty \in Duties, DutyCall(k, duty) PROVE Timed' /\ Busy'
  <2>1. Send("stop", Holds(k)) /\ UNCHANGED <<timers, chn>> /\ pc' = "duty"
    BY <1>3 DEF DutyCall, Holds
  <2>2. \A m \in Channels : Holds(m)' = Holds(m)
    BY <2>1 DEF Holds, Live
  <2>3. QED
    BY <2>1, <2>2, TimedSent DEF Busy
<1>3a. ASSUME NEW k \in Channels, DutyRefused(k) PROVE Timed' /\ Busy'
  <2>1. Send("stop", Holds(k)) /\ UNCHANGED <<timers, chn>> /\ pc' = "idle"
    BY <1>3a DEF DutyRefused, Holds, call
  <2>2. \A m \in Channels : Holds(m)' = Holds(m)
    BY <2>1 DEF Holds, Live
  <2>3. QED
    BY <2>1, <2>2, TimedSent DEF Busy
<1>4. CASE DutySet
  <2>1. \A m \in Channels : Holds(m)' = Holds(m)
    BY <1>4 DEF DutySet, Holds, Live
  <2>2. Timed'
    BY <1>4, <2>1, TimedSame DEF DutySet, rtos
  <2>3. Busy'
    BY <1>4 DEF DutySet, Busy, Asked, Live, Return, NoArg
  <2>4. QED
    BY <2>2, <2>3
<1>5. ASSUME NEW k \in Channels, NEW period \in Periods, BreathCall(k, period) PROVE Timed' /\ Busy'
  <2>1. Live(k) /\ k = <<k[1], k[2]>>
    BY <1>5, ChannelIs DEF BreathCall
  <2>2. (pc' = "start" /\ Asked' = k) \/ pc' = "idle"
    <3>1. \/ UNCHANGED call /\ pc = "idle"
          \/ pc' = "start" /\ arg' = [NoArg EXCEPT !.light = k[1], !.id = k[2]]
      BY <1>5 DEF BreathCall
    <3>2. QED
      BY <2>1, <3>1 DEF call, NoArg, Asked
  <2>3. CASE chn[k].period = period
    <3>1. UNCHANGED <<chn, rtos>>
      BY <1>5, <2>3 DEF BreathCall
    <3>2. \A m \in Channels : Holds(m)' = Holds(m)
      BY <3>1 DEF Holds, Live
    <3>3. Live(k)'
      BY <2>1, <3>1 DEF Live
    <3>4. QED
      BY <2>2, <3>1, <3>2, <3>3, TimedSame DEF Busy, Live
  <2>4. CASE chn[k].period # period
    <3>1. PICK new \in {u \in Timers : timers[u] = "free"} \cup {NULL} :
             /\ IF new = NULL THEN UNCHANGED timers ELSE Created(new)
             /\ chn' = [chn EXCEPT ![k].timer = new, ![k].period = period]
      BY <1>5, <2>4 DEF BreathCall
    <3>2. /\ chn'[k] = [chn[k] EXCEPT !.timer = new, !.period = period]
          /\ \A m \in Channels : m # k => chn'[m] = chn[m]
      BY <3>1 DEF Cells
    <3>3. Holds(k)' = new /\ Live(k)' /\ \A m \in Channels : m # k => Holds(m)' = Holds(m)
      BY <2>1, <3>2 DEF Holds, Live, Cells
    <3>4. Send("delete", Holds(k))
      BY <1>5, <2>1, <2>4 DEF BreathCall, Holds
    <3>5. new \in Timers \cup {NULL}
          /\ IF new = NULL
             THEN UNCHANGED timers
             ELSE timers[new] = "free" /\ timers' = [timers EXCEPT ![new] = "dormant"]
      BY <3>1 DEF Created
    <3>6. Timed'
      BY <3>3, <3>4, <3>5, TimedGiven
    <3>7. QED
      BY <2>2, <3>3, <3>6 DEF Busy, Live
  <2>5. QED
    BY <2>3, <2>4
<1>6. CASE BreathStart
  <2>1. Asked \in Channels /\ Live(Asked)
    BY <1>6 DEF BreathStart, Places, Busy
  <2>2. Send("start", Holds(Asked)) /\ UNCHANGED <<timers, chn>> /\ pc' = "fade"
    BY <1>6, <2>1 DEF BreathStart, Holds
  <2>3. \A m \in Channels : Holds(m)' = Holds(m)
    BY <2>2 DEF Holds, Live
  <2>4. Timed'
    BY <2>1, <2>2, <2>3, TimedSent
  <2>5. QED
    BY <2>2, <2>4 DEF Busy
<1>7. CASE BreathFade
  <2>1. \A m \in Channels : Holds(m)' = Holds(m)
    BY <1>7 DEF BreathFade, Holds, Live
  <2>2. Timed'
    BY <1>7, <2>1, TimedSame DEF BreathFade, rtos
  <2>3. Busy'
    BY <1>7 DEF BreathFade, Busy, Asked, Live
  <2>4. QED
    BY <2>2, <2>3
<1>8. CASE BreathNext
  <2>1. chn' = [chn EXCEPT ![Asked].next = 0] /\ UNCHANGED rtos /\ pc' = "idle"
    BY <1>8 DEF BreathNext, Return
  <2>2. \A m \in Channels : chn'[m].cell = chn[m].cell /\ chn'[m].timer = chn[m].timer
    BY <2>1 DEF Cells
  <2>3. \A m \in Channels : Holds(m)' = Holds(m)
    BY <2>2 DEF Holds, Live
  <2>4. QED
    BY <2>1, <2>3, TimedSame DEF Busy
<1>9. ASSUME NEW l \in Lights, NEW mask \in SUBSET Ids, BlinkCall(l, mask) PROVE Timed' /\ Busy'
  <2>1. \A m \in Channels : Holds(m)' = Holds(m)
    BY <1>9 DEF BlinkCall, Holds, Live
  <2>2. Timed'
    BY <1>9, <2>1, TimedSame DEF BlinkCall, rtos
  <2>3. Busy'
    BY <1>9 DEF BlinkCall, Busy, Asked, Live
  <2>4. QED
    BY <2>2, <2>3
<1>10. CASE BlinkStop
  <2>1. Asked \in Channels /\ Live(Asked)
    BY <1>10 DEF BlinkStop, Places, Asked, Channels, Ids
  <2>2. Send("stop", Holds(Asked)) /\ UNCHANGED <<timers, chn>> /\ pc' = "blink_duty"
    BY <1>10, <2>1 DEF BlinkStop, Holds
  <2>3. \A m \in Channels : Holds(m)' = Holds(m)
    BY <2>2 DEF Holds, Live
  <2>4. Timed'
    BY <2>1, <2>2, <2>3, TimedSent
  <2>5. QED
    BY <2>2, <2>4 DEF Busy
<1>11. CASE BlinkDuty
  <2>1. \A m \in Channels : Holds(m)' = Holds(m)
    BY <1>11 DEF BlinkDuty, Holds, Live
  <2>2. Timed'
    BY <1>11, <2>1, TimedSame DEF BlinkDuty, rtos
  <2>3. Busy'
    BY <1>11 DEF BlinkDuty, Busy, Asked, Live, Step
  <2>4. QED
    BY <2>2, <2>3
<1>12. CASE BlinkSkip
  <2>1. \A m \in Channels : Holds(m)' = Holds(m)
    BY <1>12 DEF BlinkSkip, Holds, Live
  <2>2. Timed'
    BY <1>12, <2>1, TimedSame DEF BlinkSkip, rtos
  <2>3. Busy'
    BY <1>12 DEF BlinkSkip, Busy, Asked, Live, Step
  <2>4. QED
    BY <2>2, <2>3
<1>13. CASE BlinkDone
  <2>1. \A m \in Channels : Holds(m)' = Holds(m)
    BY <1>13 DEF BlinkDone, Holds, Live
  <2>2. Timed'
    BY <1>13, <2>1, TimedSame DEF BlinkDone, rtos
  <2>3. Busy'
    BY <1>13 DEF BlinkDone, Busy, Asked, Live, Return, NoArg
  <2>4. QED
    BY <2>2, <2>3
<1>14. ASSUME NEW l \in Lights, DeleteCall(l) PROVE Timed' /\ Busy'
  <2>1. \A m \in Channels : Holds(m)' = Holds(m)
    BY <1>14 DEF DeleteCall, Holds, Live
  <2>2. Timed'
    BY <1>14, <2>1, TimedSame DEF DeleteCall
  <2>3. pc' = "delete" /\ arg'.id = 1 /\ \A i \in Ids : ~ (i < 1)
    BY <1>14, NumberAssumption DEF DeleteCall, NoArg, Ids
  <2>4. QED
    BY <2>2, <2>3 DEF Busy
<1>15. CASE DeleteChannel
  <2>1. PICK k \in Channels : k = Asked
    BY <1>15 DEF DeleteChannel, Places
  <2>2. arg.light \in Lights /\ arg.id \in Ids /\ k = <<arg.light, arg.id>>
    BY <2>1 DEF Asked, Channels
  <2>3. /\ arg'.light = arg.light /\ arg'.id = arg.id + 1
        /\ pc' = IF arg.id = channel_num THEN "remove" ELSE "delete"
    BY <1>15 DEF DeleteChannel, Step, Places
  <2>4. /\ UNCHANGED timers
        /\ IF Live(k)
           THEN /\ Send("delete", Holds(k))
                /\ chn' = [chn EXCEPT ![k] = [NoChannel EXCEPT !.cell = "freed"]]
           ELSE UNCHANGED <<chn, commands>>
    BY <1>15, <2>1 DEF DeleteChannel, Holds
  <2>5. /\ ~Live(k)' /\ Holds(k)' = NULL
        /\ \A m \in Channels : m # k => chn'[m] = chn[m]
    BY <2>4 DEF Live, Holds, Cells, NoChannel
  <2>6. \A m \in Channels : m # k => Holds(m)' = Holds(m)
    BY <2>5 DEF Holds, Live
  <2>7. Timed'
    <3>1. CASE Live(k)
      BY <2>4, <2>5, <2>6, <3>1, TimedGiven
    <3>2. CASE ~Live(k)
      <4>1. Holds(k) = NULL
        BY <3>2 DEF Holds
      <4>2. \A m \in Channels : Holds(m)' = Holds(m)
        BY <2>5, <2>6, <4>1
      <4>3. QED
        BY <2>4, <3>2, <4>2, TimedSame DEF rtos
    <3>3. QED
      BY <3>1, <3>2
  <2>8. \A i \in Ids : i < arg.id + 1 => ~Live(<<arg.light, i>>)'
    <3> SUFFICES ASSUME NEW i \in Ids, i < arg.id + 1
                 PROVE  ~ (chn'[<<arg.light, i>>].cell = "live")
      BY <2>3 DEF Live
    <3>1. CASE i = arg.id
      BY <2>2, <2>5, <3>1 DEF Live
    <3>2. CASE i # arg.id
      <4>1. i < arg.id
        BY <2>2, <3>2 DEF Ids
      <4>2. ~Live(<<arg.light, i>>)
        BY <1>15, <4>1 DEF DeleteChannel, Busy
      <4>3. <<arg.light, i>> \in Channels /\ <<arg.light, i>> # k
        BY <2>2, <3>2 DEF Channels
      <4>4. QED
        BY <2>5, <4>2, <4>3 DEF Live
    <3>3. QED
      BY <3>1, <3>2
  <2>9. Busy'
    <3>1. arg.id = channel_num => \A i \in Ids : i < arg.id + 1
      BY NumberAssumption DEF Ids
    <3>2. pc' \in {"remove", "delete"} /\ (pc' = "remove" => arg.id = channel_num)
      BY <2>3
    <3>3. QED
      BY <2>3, <2>8, <3>1, <3>2 DEF Busy
  <2>10. QED
    BY <2>7, <2>9
<1>16. CASE Delete
  <2>1. /\ \A i \in Ids : ~Live(<<arg.light, i>>)
        /\ chn' = [k \in Channels |-> IF LightOf(k) = arg.light THEN NoChannel ELSE chn[k]]
        /\ UNCHANGED rtos /\ pc' = "idle"
    BY <1>16 DEF Delete, Busy, Return
  <2>2. ASSUME NEW m \in Channels PROVE Holds(m)' = Holds(m)
    <3>1. CASE LightOf(m) = arg.light
      <4>1. m = <<arg.light, m[2]>> /\ m[2] \in Ids
        BY <3>1, ChannelIs DEF LightOf
      <4>2. ~Live(m)
        BY <2>1, <4>1
      <4>3. chn'[m].cell = "null"
        BY <2>1, <3>1 DEF NoChannel
      <4>4. QED
        BY <4>2, <4>3 DEF Holds, Live
    <3>2. CASE LightOf(m) # arg.light
      BY <2>1, <3>2 DEF Holds, Live
    <3>3. QED
      BY <3>1, <3>2
  <2>3. QED
    BY <2>1, <2>2, TimedSame DEF Busy
<1>17. CASE Command
  <2>1. UNCHANGED <<chn, pc, arg>>
    BY <1>17 DEF Command, call
  <2>2. \A m \in Channels : Holds(m)' = Holds(m)
    BY <2>1 DEF Holds, Live
  <2>3. Timed'
    BY <1>17, <2>2, TimedTaken
  <2>4. QED
    BY <2>1, <2>3 DEF Busy, Asked, Live
<1>18. ASSUME NEW t \in Timers, Expire(t) PROVE Timed' /\ Busy'
  <2>1. /\ chn' = [k \in Channels |->
                  IF k \in Turned(t) THEN [chn[k] EXCEPT !.next = FullDuty - @] ELSE chn[k]]
        /\ UNCHANGED <<rtos, pc, arg>>
    BY <1>18 DEF Expire, call
  <2>2. ASSUME NEW m \in Channels
        PROVE  chn'[m].cell = chn[m].cell /\ chn'[m].timer = chn[m].timer
    BY <2>1 DEF Cells
  <2>3. \A m \in Channels : Holds(m)' = Holds(m)
    BY <2>2 DEF Holds, Live
  <2>4. Timed'
    BY <2>1, <2>3, TimedSame
  <2>5. pc = "start" => Asked \in Channels
    BY DEF Places
  <2>6. pc \in {"delete", "remove"} => arg.light \in Lights
    BY DEF Places, Asked, Channels
  <2>7. QED
    BY <2>1, <2>2, <2>4, <2>5, <2>6 DEF Busy, Asked, Live, Channels
<1>19. CASE UNCHANGED vars
  <2>1. \A m \in Channels : Holds(m)' = Holds(m)
    BY <1>19 DEF vars, Holds, Live
  <2>2. Timed'
    BY <1>19, <2>1, TimedSame DEF vars, rtos
  <2>3. Busy'
    BY <1>19 DEF vars, Busy, Asked, Live, call
  <2>4. QED
    BY <2>2, <2>3
<1>20. QED
  BY <1>1, <1>2, <1>3, <1>3a, <1>4, <1>5, <1>6, <1>7, <1>8, <1>9, <1>10, <1>11, <1>12,
     <1>13, <1>14, <1>15, <1>16, <1>17, <1>18, <1>19
     DEF Next, Call, CallStep

\* Every timer belongs to one channel or is about to be deleted, however many commands
\* the timer task has still to carry out.
THEOREM Owned == Spec => []TimersAreOwned
<1>1. ASSUME Init PROVE Places /\ Cells /\ Queues /\ Timed /\ Busy
  <2>1. Places
    BY <1>1, NumberAssumption DEF Init, NoArg, Places, Duties
  <2>2. Cells
    BY <1>1 DEF Init, Cells, NoChannel
  <2>3. commands = <<>> /\ timers = [t \in Timers |-> "free"] /\ pc = "idle"
        /\ \A k \in Channels : Holds(k) = NULL
    BY <1>1 DEF Init, Holds, Live, NoChannel
  <2>4. Queues
    BY <2>3, NumberAssumption DEF Queues
  <2>5. Timed
    BY <2>3, LightAssumption DEF Timed, Unique, Kept, Found, Quiet, LastIsDelete
  <2>6. Busy
    BY <2>3 DEF Busy
  <2>7. QED
    BY <2>1, <2>2, <2>4, <2>5, <2>6
<1>2. ASSUME Cells, Timed PROVE TimersAreOwned
  <2> SUFFICES ASSUME NEW t \in Timers
               PROVE  /\ timers[t] # "free" => (Cardinality(Owners(t)) = 1 <=> ~Deleted(t))
                      /\ timers[t] = "free" => Owners(t) = {}
                      /\ Cardinality(Owners(t)) <= 1
    BY DEF TimersAreOwned
  <2>1. Owners(t) = {k \in Channels : Holds(k) = t}
    BY LightAssumption DEF Owners, Holds
  <2>2. CASE Owners(t) = {}
    <3>1. Cardinality(Owners(t)) = 0
      BY <2>2, FS_EmptySet
    <3>2. timers[t] # "free" => Deleted(t)
      BY <1>2, <2>1, <2>2 DEF Timed, Found
    <3>3. QED
      BY <2>2, <3>1, <3>2
  <2>3. CASE Owners(t) # {}
    <3>1. PICK k \in Channels : Holds(k) = t
      BY <2>1, <2>3
    <3>2. Owners(t) = {k}
      BY <1>2, <2>1, <3>1, LightAssumption DEF Timed, Unique
    <3>3. Cardinality(Owners(t)) = 1
      BY <3>2, FS_Singleton
    <3>4. timers[t] # "free" /\ ~Deleted(t)
      BY <1>2, <3>1 DEF Timed, Kept
    <3>5. QED
      BY <3>3, <3>4
  <2>4. QED
    BY <2>2, <2>3
<1>3. QED
  BY <1>1, <1>2, PlacesStep, CellsStep, QueuesStep, TimedStep, PTL DEF Spec

-----------------------------------------------------------------------------
(* The fade driver                                                          *)

\* The flag is set while the driver is there, or could not be installed; a channel is that of
\* a light that exists, and its fades have the driver if the light is in the group.
Shown ==
    /\ g_fade_installed <=> fade_driver \/ fade_refused
    /\ \A k \in Channels : Live(k) => LightOf(k) \in exists
    /\ \A k \in Channels : Live(k) /\ InGroup(k) => fade_driver \/ fade_refused

\* The last light that leaves the group is the last one of it with channels.
LEMMA ShownStep ==
    ASSUME Group, Flags, Cells, Shown, [Next]_vars
    PROVE  Shown'
<1> USE DEF Shown, InGroup, lights, fade
<1>1. ASSUME NEW l \in Lights, Create(l) PROVE Shown'
  <2>1. l \notin exists /\ exists' = exists \cup {l} /\ UNCHANGED <<fade, chn>>
        /\ (UNCHANGED g_light_group \/ \E s : g_light_group' = [g_light_group EXCEPT ![s] = l])
    BY <1>1 DEF Create
  <2>2. \A s \in Slots : g_light_group'[s] \in {g_light_group[s], l}
    BY <2>1 DEF Group
  <2>3. \A m \in Channels : Live(m)' => Live(m) /\ LightOf(m) # l
    BY <2>1 DEF Live
  <2>4. \A m \in Channels : Live(m)' /\ InGroup(m)' => InGroup(m)
    BY <2>2, <2>3
  <2>5. QED
    BY <2>1, <2>3, <2>4
<1>2. ASSUME NEW k \in Channels, Regist(k) PROVE Shown'
  <2>1. /\ LightOf(k) \in exists /\ UNCHANGED lights
        /\ g_fade_installed' = TRUE
        /\ IF g_fade_installed
           THEN UNCHANGED <<fade_driver, fade_refused>>
           ELSE fade_driver' \in BOOLEAN /\ fade_refused' = ~fade_driver'
        /\ UNCHANGED chn \/ chn' = [chn EXCEPT ![k] = NewChannel]
    BY <1>2 DEF Regist
  <2>2. fade_driver' \/ fade_refused'
    BY <2>1
  <2>3. \A m \in Channels : Live(m)' => Live(m) \/ m = k
    BY <2>1 DEF Live, Cells
  <2>4. QED
    BY <2>1, <2>2, <2>3
<1>3. ASSUME NEW k \in Channels, NEW duty \in Duties, DutyCall(k, duty) PROVE Shown'
  <2>1. \A m \in Channels : Live(m)' => Live(m)
    BY <1>3 DEF DutyCall, Live, Cells
  <2>2. UNCHANGED <<lights, fade>>
    BY <1>3 DEF DutyCall
  <2>3. QED
    BY <2>1, <2>2
<1>3a. ASSUME NEW k \in Channels, DutyRefused(k) PROVE Shown'
  <2>1. \A m \in Channels : Live(m)' => Live(m)
    BY <1>3a DEF DutyRefused, Live, Cells
  <2>2. UNCHANGED <<lights, fade>>
    BY <1>3a DEF DutyRefused
  <2>3. QED
    BY <2>1, <2>2
<1>4. CASE DutySet
  <2>1. \A m \in Channels : Live(m)' => Live(m)
    BY <1>4 DEF DutySet, Live, Cells
  <2>2. UNCHANGED <<lights, fade>>
    BY <1>4 DEF DutySet
  <2>3. QED
    BY <2>1, <2>2
<1>5. ASSUME NEW k \in Channels, NEW period \in Periods, BreathCall(k, period) PROVE Shown'
  <2>1. /\ UNCHANGED chn \/ \E t : chn' = [chn EXCEPT ![k].timer = t, ![k].period = period]
        /\ UNCHANGED <<lights, fade>>
    BY <1>5 DEF BreathCall, rtos
  <2>2. ASSUME NEW m \in Channels PROVE chn'[m].cell = chn[m].cell
    <3>1. chn[m] \in [cell : {"null", "live", "freed"}, timer : Timers \cup {NULL},
                     period : Periods \cup {0}, next : {0, FullDuty}]
      BY DEF Cells
    <3>2. ASSUME NEW t, chn' = [chn EXCEPT ![k].timer = t, ![k].period = period]
          PROVE  chn'[m].cell = chn[m].cell
      <4>1. chn'[m] = IF m = k THEN [chn[m] EXCEPT !.timer = t, !.period = period]
                               ELSE chn[m]
        BY <3>2 DEF Cells
      <4>2. CASE m = k
        BY <3>1, <4>1, <4>2
      <4>3. CASE m # k
        BY <4>1, <4>3
      <4>4. QED
        BY <4>2, <4>3
    <3>3. QED
      BY <2>1, <3>2
  <2>3. QED
    BY <2>1, <2>2 DEF Live
<1>6. CASE BreathStart
  <2>1. \A m \in Channels : Live(m)' => Live(m)
    BY <1>6 DEF BreathStart, Live, Cells
  <2>2. UNCHANGED <<lights, fade>>
    BY <1>6 DEF BreathStart
  <2>3. QED
    BY <2>1, <2>2
<1>7. CASE BreathFade
  <2>1. \A m \in Channels : Live(m)' => Live(m)
    BY <1>7 DEF BreathFade, Live, Cells
  <2>2. UNCHANGED <<lights, fade>>
    BY <1>7 DEF BreathFade
  <2>3. QED
    BY <2>1, <2>2
<1>8. CASE BreathNext
  <2>1. chn' = [chn EXCEPT ![Asked].next = 0] /\ UNCHANGED <<lights, fade>>
    BY <1>8 DEF BreathNext
  <2>2. \A m \in Channels : chn'[m].cell = chn[m].cell
    BY <2>1 DEF Cells
  <2>3. QED
    BY <2>1, <2>2 DEF Live
<1>9. ASSUME NEW l \in Lights, NEW mask \in SUBSET Ids, BlinkCall(l, mask) PROVE Shown'
  <2>1. UNCHANGED <<exists, g_light_group, fade, chn>>
    BY <1>9 DEF BlinkCall
  <2>2. QED
    BY <2>1 DEF Live
<1>10. CASE BlinkStop
  <2>1. \A m \in Channels : Live(m)' => Live(m)
    BY <1>10 DEF BlinkStop, Live, Cells
  <2>2. UNCHANGED <<lights, fade>>
    BY <1>10 DEF BlinkStop
  <2>3. QED
    BY <2>1, <2>2
<1>11. CASE BlinkDuty
  <2>1. \A m \in Channels : Live(m)' => Live(m)
    BY <1>11 DEF BlinkDuty, Live, Cells
  <2>2. UNCHANGED <<lights, fade>>
    BY <1>11 DEF BlinkDuty
  <2>3. QED
    BY <2>1, <2>2
<1>12. CASE BlinkSkip
  <2>1. \A m \in Channels : Live(m)' => Live(m)
    BY <1>12 DEF BlinkSkip, Live, Cells
  <2>2. UNCHANGED <<lights, fade>>
    BY <1>12 DEF BlinkSkip
  <2>3. QED
    BY <2>1, <2>2
<1>13. CASE BlinkDone
  <2>1. \A m \in Channels : Live(m)' => Live(m)
    BY <1>13 DEF BlinkDone, Live, Cells
  <2>2. UNCHANGED <<lights, fade>>
    BY <1>13 DEF BlinkDone
  <2>3. QED
    BY <2>1, <2>2
<1>14. ASSUME NEW l \in Lights, DeleteCall(l) PROVE Shown'
  <2>1. \A m \in Channels : Live(m)' => Live(m)
    BY <1>14 DEF DeleteCall, Live, Cells
  <2>2. UNCHANGED <<lights, fade>>
    BY <1>14 DEF DeleteCall
  <2>3. QED
    BY <2>1, <2>2
<1>15. CASE DeleteChannel
  <2>1. \A m \in Channels : Live(m)' => Live(m)
    BY <1>15 DEF DeleteChannel, Live, Cells, NoChannel
  <2>2. UNCHANGED <<lights, fade>>
    BY <1>15 DEF DeleteChannel
  <2>3. QED
    BY <2>1, <2>2
<1>16. CASE Delete
  <2>1. /\ g_light_group' = Without(arg.light) /\ exists' = exists \ {arg.light}
        /\ chn' = [k \in Channels |-> IF LightOf(k) = arg.light THEN NoChannel ELSE chn[k]]
        /\ IF \E s \in Slots : g_light_group'[s] # NULL
           THEN UNCHANGED fade
           ELSE fade_driver' = FALSE /\ g_fade_installed' = FALSE /\ fade_refused' = FALSE
    BY <1>16 DEF Delete
  <2>2. \A s \in Slots : g_light_group'[s] =
                         IF g_light_group[s] = arg.light THEN NULL ELSE g_light_group[s]
    BY <2>1 DEF Without
  <2>3. \A m \in Channels : Live(m)' => Live(m) /\ LightOf(m) # arg.light
    BY <2>1 DEF Live, NoChannel
  <2>4. \A m \in Channels : InGroup(m)' /\ LightOf(m) # arg.light => InGroup(m)
    BY <2>2, ChannelIs, LightAssumption DEF LightOf
  <2>5. CASE \E s \in Slots : g_light_group'[s] # NULL
    BY <2>1, <2>3, <2>4, <2>5
  <2>6. CASE \A s \in Slots : g_light_group'[s] = NULL
    <3>1. fade_driver' = FALSE /\ g_fade_installed' = FALSE /\ fade_refused' = FALSE
      BY <2>1, <2>6
    <3>2. \A m \in Channels : ~InGroup(m)'
      BY <2>6, ChannelIs, LightAssumption DEF LightOf
    <3>3. QED
      BY <2>1, <2>3, <3>1, <3>2
  <2>7. QED
    BY <2>5, <2>6
<1>17. CASE Command
  <2>1. \A m \in Channels : Live(m)' => Live(m)
    BY <1>17 DEF Command, Live, Cells
  <2>2. UNCHANGED <<lights, fade>>
    BY <1>17 DEF Command
  <2>3. QED
    BY <2>1, <2>2
<1>18. ASSUME NEW t \in Timers, Expire(t) PROVE Shown'
  <2>1. /\ chn' = [k \in Channels |->
                  IF k \in Turned(t) THEN [chn[k] EXCEPT !.next = FullDuty - @] ELSE chn[k]]
        /\ UNCHANGED <<lights, fade>>
    BY <1>18 DEF Expire
  <2>2. ASSUME NEW m \in Channels PROVE chn'[m].cell = chn[m].cell
    BY <2>1 DEF Cells
  <2>3. QED
    BY <2>1, <2>2 DEF Live
<1>19. CASE UNCHANGED vars
  <2>1. \A m \in Channels : Live(m)' => Live(m)
    BY <1>19 DEF vars, Live, Cells
  <2>2. UNCHANGED <<lights, fade>>
    BY <1>19 DEF vars
  <2>3. QED
    BY <2>1, <2>2
<1>20. QED
  BY <1>1, <1>2, <1>3, <1>3a, <1>4, <1>5, <1>6, <1>7, <1>8, <1>9, <1>10, <1>11, <1>12,
     <1>13, <1>14, <1>15, <1>16, <1>17, <1>18, <1>19
     DEF Next, Call, CallStep

\* While a light of the group has a channel, its fades have their driver, unless the
\* installation of it failed, however many lights there are and whenever they are deleted.
THEOREM Faded == Spec => []FadesWork
<1>1. ASSUME Init PROVE Places /\ Group /\ Flags /\ Cells /\ Shown
  <2>1. Places
    BY <1>1, NumberAssumption DEF Init, NoArg, Places, Duties
  <2>2. Group /\ Flags /\ Cells
    BY <1>1 DEF Init, Group, Flags, Cells, NoChannel
  <2>3. Shown
    BY <1>1 DEF Init, Shown, Live, NoChannel
  <2>4. QED
    BY <2>1, <2>2, <2>3
<1>2. ASSUME Flags, Shown PROVE FadesWork
  BY <1>2 DEF Shown, FadesWork
<1>3. QED
  BY <1>1, <1>2, PlacesStep, GroupStep, FlagsStep, CellsStep, ShownStep, PTL DEF Spec

-----------------------------------------------------------------------------
(* Breathing follows the calls                                              *)

\* Once all commands to the timer are carried out, the last of them, or the timer as it
\* is, is one of these.
Ends(t, ops, states) ==
    \/ \E i \in DOMAIN commands :
          /\ commands[i].timer = t /\ commands[i].op \in ops
          /\ \A j \in DOMAIN commands : i < j => commands[j].timer # t
    \/ timers[t] \in states /\ \A i \in DOMAIN commands : commands[i].timer # t

WillRun(t) == Ends(t, {"start"}, {"active"})
WillRest(t) == Ends(t, {"stop", "delete"}, {"free", "dormant"})

\* A channel has no timer that will run.
Resting(k) == \A t \in Timers : Holds(k) = t => WillRest(t)

\* What was last asked of a channel is what its timer will do, but for the channel that a
\* call is about: its timer is told first.
Told == pc \in {"duty", "blink_duty"}
Follow(k) ==
    /\ mode[k].as = "breath" =>
          \E t \in Timers : Holds(k) = t /\ (WillRun(t) \/ (Told /\ Asked = k))
    /\ mode[k].as = "duty" => Resting(k)
Under(k) ==
    /\ pc \in {"start", "fade", "next"} => mode[k].as = "none" /\ \E t \in Timers : Holds(k) = t
    /\ pc \in {"fade", "next"} => \A t \in Timers : Holds(k) = t => WillRun(t)
    /\ Told => Resting(k)
Following == \A k \in Channels : Follow(k) /\ (Asked = k => Under(k))

\* A command decides what its timer will do, and nothing about another one.
LEMMA EndsSent ==
    ASSUME Queues, NEW t \in Timers, NEW op \in {"start", "stop", "delete"}, Send(op, t)
    PROVE  /\ op = "start" => WillRun(t)'
           /\ op # "start" => WillRest(t)'
           /\ \A u \in Timers : u # t /\ timers'[u] = timers[u] =>
                 (WillRun(u) => WillRun(u)') /\ (WillRest(u) => WillRest(u)')
<1> DEFINE n == Len(commands) + 1
<1>1. /\ DOMAIN commands' = DOMAIN commands \cup {n}
      /\ \A i \in DOMAIN commands : commands'[i] = commands[i] /\ i < n
      /\ commands'[n] = [op |-> op, timer |-> t]
  BY LightAssumption, Sent
<1>2. n \in DOMAIN commands' /\ \A j \in DOMAIN commands' : ~ (n < j)
  <2>1. Len(commands) \in Nat /\ DOMAIN commands = 1 .. Len(commands)
    BY DEF Queues
  <2>2. QED
    BY <1>1, <2>1
<1>3. ASSUME NEW ops, op \in ops, NEW states PROVE Ends(t, ops, states)'
  BY <1>1, <1>2, <1>3 DEF Ends
<1>4. ASSUME NEW u \in Timers, u # t, timers'[u] = timers[u],
             NEW ops, NEW states, Ends(u, ops, states)
      PROVE  Ends(u, ops, states)'
  <2>1. CASE \E i \in DOMAIN commands :
                /\ commands[i].timer = u /\ commands[i].op \in ops
                /\ \A j \in DOMAIN commands : i < j => commands[j].timer # u
    BY <1>1, <1>4, <2>1 DEF Ends
  <2>2. CASE timers[u] \in states /\ \A i \in DOMAIN commands : commands[i].timer # u
    BY <1>1, <1>4, <2>2 DEF Ends
  <2>3. QED
    BY <1>4, <2>1, <2>2 DEF Ends
<1>5. QED
  BY <1>3, <1>4 DEF WillRun, WillRest

\* Carrying a command out changes nothing about what its timer will do.
LEMMA EndsTaken ==
    ASSUME Queues, Command
    PROVE  \A u \in Timers : (WillRun(u) => WillRun(u)') /\ (WillRest(u) => WillRest(u)')
<1> DEFINE c == commands[1]
<1>1. /\ 1 \in DOMAIN commands /\ c.timer \in Timers
      /\ c.op \in {"start", "stop", "delete"}
  BY Taken DEF Commands
<1>2. /\ \A i \in DOMAIN commands' :
             i \in Int /\ i + 1 \in DOMAIN commands /\ commands'[i] = commands[i + 1]
      /\ \A i \in DOMAIN commands : i \in Int
      /\ \A i \in DOMAIN commands : i # 1 => i - 1 \in DOMAIN commands'
                                          /\ commands'[i - 1] = commands[i]
  BY Taken DEF Queues
<1>3. \A u \in Timers :
         /\ u # c.timer => timers'[u] = timers[u]
         /\ u = c.timer => /\ c.op = "start" => timers'[u] = "active"
                           /\ c.op = "stop" => timers'[u] = "dormant"
                           /\ c.op = "delete" => timers'[u] = "free"
  BY <1>1, Taken DEF Queues
<1>4. ASSUME NEW u \in Timers, NEW ops, NEW states, Ends(u, ops, states),
             "start" \in ops => "active" \in states,
             "stop" \in ops => "dormant" \in states,
             "delete" \in ops => "free" \in states
      PROVE  Ends(u, ops, states)'
  <2>1. ASSUME NEW i \in DOMAIN commands, commands[i].timer = u, commands[i].op \in ops,
               \A j \in DOMAIN commands : i < j => commands[j].timer # u
        PROVE  Ends(u, ops, states)'
    <3>1. \A j \in DOMAIN commands' : i < j + 1 => commands'[j].timer # u
      BY <1>2, <2>1
    <3>2. CASE i = 1
      <4>1. \A j \in DOMAIN commands' : commands'[j].timer # u
        <5>1. \A j \in DOMAIN commands' : 1 < j + 1
          BY Taken
        <5>2. QED
          BY <3>1, <3>2, <5>1
      <4>2. timers'[u] \in states
        BY <1>1, <1>3, <1>4, <2>1, <3>2
      <4>3. QED
        BY <4>1, <4>2 DEF Ends
    <3>3. CASE i # 1
      <4>1. i - 1 \in DOMAIN commands' /\ commands'[i - 1] = commands[i]
        BY <1>2, <3>3
      <4>2. \A j \in DOMAIN commands' : i - 1 < j => commands'[j].timer # u
        <5>1. \A j \in DOMAIN commands' : i - 1 < j => i < j + 1
          BY <1>2
        <5>2. QED
          BY <3>1, <5>1
      <4>3. QED
        BY <2>1, <4>1, <4>2 DEF Ends
    <3>4. QED
      BY <3>2, <3>3
  <2>2. CASE timers[u] \in states /\ \A i \in DOMAIN commands : commands[i].timer # u
    <3>1. u # c.timer
      BY <1>1, <2>2
    <3>2. \A i \in DOMAIN commands' : commands'[i].timer # u
      BY <1>2, <2>2
    <3>3. QED
      BY <1>3, <2>2, <3>1, <3>2 DEF Ends
  <2>3. QED
    BY <1>4, <2>1, <2>2 DEF Ends
<1>5. QED
  BY <1>4 DEF WillRun, WillRest

\* Without commands, timers go on as they would.
LEMMA EndsSame ==
    ASSUME UNCHANGED rtos
    PROVE  \A t \in Timers : (WillRun(t)' <=> WillRun(t)) /\ (WillRest(t)' <=> WillRest(t))
  BY DEF WillRun, WillRest, Ends, rtos

\* A channel that nothing is asked of follows as before, if its timer does.
LEMMA FollowKept ==
    ASSUME NEW m \in Channels, Follow(m), mode'[m] = mode[m], Holds(m)' = Holds(m),
           \A t \in Timers : Holds(m) = t =>
              (WillRun(t) => WillRun(t)') /\ (WillRest(t) => WillRest(t)'),
           Told /\ Asked = m => Told' /\ Asked' = m
    PROVE  Follow(m)'
  BY DEF Follow, Resting

\* So does every channel when no call is under way that is about a timer.
LEMMA FollowCalm ==
    ASSUME Following, UNCHANGED <<rtos, mode>>, \A m \in Channels : Holds(m)' = Holds(m),
           pc \in {"idle", "blink", "delete", "remove"},
           pc' \in {"idle", "blink", "delete", "remove"}
    PROVE  Following'
<1>1. ~Told /\ ~Told'
  BY DEF Told
<1>2. \A m \in Channels : Follow(m)'
  BY <1>1, EndsSame, FollowKept DEF Following
<1>3. \A m \in Channels : Under(m)'
  BY <1>1 DEF Under
<1>4. QED
  BY <1>2, <1>3 DEF Following

\* And when only the timer task takes a step.
LEMMA FollowStays ==
    ASSUME Following, UNCHANGED <<pc, arg, mode>>, \A m \in Channels : Holds(m)' = Holds(m),
           \A t \in Timers : (WillRun(t) => WillRun(t)') /\ (WillRest(t) => WillRest(t)')
    PROVE  Following'
<1>1. (Told' <=> Told) /\ Asked' = Asked
  BY DEF Told, Asked
<1>2. \A m \in Channels : Follow(m)'
  BY <1>1, FollowKept DEF Following
<1>3. \A m \in Channels : Asked' = m => Under(m)'
  BY <1>1 DEF Following, Under, Resting
<1>4. QED
  BY <1>2, <1>3 DEF Following

\* A command to the timer of one channel: the others follow as before.
LEMMA FollowSent ==
    ASSUME Following, Timed, Cells, Queues, NEW k \in Channels,
           NEW op \in {"start", "stop", "delete"}, Send(op, Holds(k)),
           \A t \in Timers : timers[t] # "free" => timers'[t] = timers[t],
           Told => Asked = k
    PROVE  /\ \A m \in Channels : m # k /\ mode'[m] = mode[m] /\ Holds(m)' = Holds(m) => Follow(m)'
           /\ op = "start" => \A t \in Timers : Holds(k) = t => WillRun(t)'
           /\ op = "stop" => \A t \in Timers : Holds(k) = t => WillRest(t)'
<1>1. \A m \in Channels, t \in Timers : Holds(m) = t => timers'[t] = timers[t]
  BY DEF Timed, Kept
<1>2. CASE Holds(k) = NULL
  <2>1. UNCHANGED commands
    BY <1>2 DEF Send
  <2>2. \A m \in Channels, t \in Timers : Holds(m) = t =>
           (WillRun(t) => WillRun(t)') /\ (WillRest(t) => WillRest(t)')
    BY <1>1, <2>1 DEF WillRun, WillRest, Ends
  <2>3. \A m \in Channels : m # k /\ mode'[m] = mode[m] /\ Holds(m)' = Holds(m) => Follow(m)'
    BY <2>2, FollowKept DEF Following
  <2>4. QED
    BY <1>2, <2>3, LightAssumption
<1>3. CASE Holds(k) # NULL
  <2>1. PICK own \in Timers : own = Holds(k)
    BY <1>3, HoldsType
  <2>2. /\ op = "start" => WillRun(own)'
        /\ op # "start" => WillRest(own)'
        /\ \A u \in Timers : u # own /\ timers'[u] = timers[u] =>
              (WillRun(u) => WillRun(u)') /\ (WillRest(u) => WillRest(u)')
    BY <2>1, EndsSent
  <2>3. \A m \in Channels, t \in Timers : m # k /\ Holds(m) = t =>
           (WillRun(t) => WillRun(t)') /\ (WillRest(t) => WillRest(t)')
    <3>1. \A m \in Channels, t \in Timers : m # k /\ Holds(m) = t => t # own
      BY <1>3, <2>1 DEF Timed, Unique
    <3>2. QED
      BY <1>1, <2>2, <3>1
  <2>4. \A m \in Channels : m # k /\ mode'[m] = mode[m] /\ Holds(m)' = Holds(m) => Follow(m)'
    BY <2>3, FollowKept DEF Following
  <2>5. QED
    BY <2>1, <2>2, <2>4
<1>4. QED
  BY <1>2, <1>3

\* Only a call to breathe and a deletion change the timer that a channel has.
LEMMA HoldsSame ==
    ASSUME Cells, Busy,
           \/ UNCHANGED chn
           \/ BreathNext
           \/ \E k \in Channels : Regist(k)
           \/ Delete
           \/ \E t \in Timers : Expire(t)
    PROVE  \A m \in Channels : Holds(m)' = Holds(m)
<1>1. CASE UNCHANGED chn
  BY <1>1 DEF Holds, Live
<1>2. CASE BreathNext
  <2>1. chn' = [chn EXCEPT ![Asked].next = 0]
    BY <1>2 DEF BreathNext
  <2>2. \A m \in Channels : chn'[m].cell = chn[m].cell /\ chn'[m].timer = chn[m].timer
    BY <2>1 DEF Cells
  <2>3. QED
    BY <2>2 DEF Holds, Live
<1>3. ASSUME NEW k \in Channels, Regist(k) PROVE \A m \in Channels : Holds(m)' = Holds(m)
  <2>1. chn[k].cell = "null" /\ (UNCHANGED chn \/ chn' = [chn EXCEPT ![k] = NewChannel])
    BY <1>3 DEF Regist
  <2>2. QED
    BY <2>1 DEF Holds, Live, NewChannel, NoChannel, Cells
<1>4. CASE Delete
  <2>1. /\ \A i \in Ids : ~Live(<<arg.light, i>>)
        /\ chn' = [k \in Channels |-> IF LightOf(k) = arg.light THEN NoChannel ELSE chn[k]]
    BY <1>4 DEF Delete, Busy
  <2>2. ASSUME NEW m \in Channels PROVE Holds(m)' = Holds(m)
    <3>1. CASE LightOf(m) = arg.light
      <4>1. m = <<arg.light, m[2]>> /\ m[2] \in Ids
        BY <3>1, ChannelIs DEF LightOf
      <4>2. ~Live(m)
        BY <2>1, <4>1
      <4>3. chn'[m].cell = "null"
        BY <2>1, <3>1 DEF NoChannel
      <4>4. QED
        BY <4>2, <4>3 DEF Holds, Live
    <3>2. CASE LightOf(m) # arg.light
      BY <2>1, <3>2 DEF Holds, Live
    <3>3. QED
      BY <3>1, <3>2
  <2>3. QED
    BY <2>2
<1>5. ASSUME NEW t \in Timers, Expire(t) PROVE \A m \in Channels : Holds(m)' = Holds(m)
  <2>1. chn' = [k \in Channels |->
                  IF k \in Turned(t) THEN [chn[k] EXCEPT !.next = FullDuty - @] ELSE chn[k]]
    BY <1>5 DEF Expire
  <2>2. \A m \in Channels : chn'[m].cell = chn[m].cell /\ chn'[m].timer = chn[m].timer
    BY <2>1 DEF Cells
  <2>3. QED
    BY <2>2 DEF Holds, Live
<1>6. QED
  BY <1>1, <1>2, <1>3, <1>4, <1>5

\* A timer is told to stop before the duty of its channel is written.
LEMMA FollowTold ==
    ASSUME Following, Timed, Cells, Queues, NEW k \in Channels, Send("stop", Holds(k)),
           UNCHANGED <<timers, mode>>, \A m \in Channels : Holds(m)' = Holds(m),
           ~Told, Told', Asked' = k
    PROVE  Following'
<1>1. /\ \A m \in Channels : m # k => Follow(m)'
      /\ \A t \in Timers : Holds(k) = t => WillRest(t)'
  BY FollowSent
<1>2. Resting(k)'
  BY <1>1 DEF Resting
<1>3. Follow(k)'
  BY <1>2 DEF Following, Follow
<1>4. pc' \notin {"start", "fade", "next"}
  BY DEF Told
<1>5. Under(k)'
  BY <1>2, <1>4 DEF Under
<1>6. QED
  BY <1>1, <1>3, <1>5 DEF Following

\* Then the duty is written.
LEMMA FollowWritten ==
    ASSUME Places, Outs, Following, UNCHANGED rtos, \A m \in Channels : Holds(m)' = Holds(m),
           NEW duty, Asks(Asked, Written(duty)), Told, pc' \in {"idle", "blink"}
    PROVE  Following'
<1>1. PICK k \in Channels : k = Asked
  BY DEF Told, Places
<1>2. mode'[k].as = "duty" /\ \A m \in Channels : m # k => mode'[m] = mode[m]
  BY <1>1 DEF Asks, Written, Outs
<1>3. \A m \in Channels : m # k => Follow(m)'
  BY <1>1, <1>2, EndsSame, FollowKept DEF Following
<1>4. Resting(k)
  BY <1>1 DEF Following, Under
<1>5. Follow(k)'
  BY <1>2, <1>4, EndsSame DEF Follow, Resting
<1>6. \A m \in Channels : Under(m)'
  BY DEF Under, Told
<1>7. QED
  BY <1>3, <1>5, <1>6 DEF Following

\* No step parts what a timer will do from what was asked of its channel.
LEMMA FollowingStep ==
    ASSUME Places, Cells, Outs, Queues, Timed, Busy, Following, [Next]_vars
    PROVE  Following'
<1>1. ASSUME NEW l \in Lights, Create(l) PROVE Following'
  <2>1. UNCHANGED <<rtos, mode, chn>> /\ pc = "idle" /\ pc' = "idle"
    BY <1>1 DEF Create, call
  <2>2. QED
    BY <2>1, HoldsSame, FollowCalm
<1>2. ASSUME NEW k \in Channels, Regist(k) PROVE Following'
  <2>1. UNCHANGED <<rtos, mode>> /\ pc = "idle" /\ pc' = "idle"
    BY <1>2 DEF Regist, call
  <2>2. QED
    BY <1>2, <2>1, HoldsSame, FollowCalm
<1>3. ASSUME NEW k \in Channels, NEW duty \in Duties, DutyCall(k, duty) PROVE Following'
  <2>1. /\ Send("stop", Holds(k)) /\ UNCHANGED <<timers, chn, mode>> /\ ~Told
        /\ pc' = "duty" /\ arg' = [NoArg EXCEPT !.light = k[1], !.id = k[2], !.duty = duty]
    BY <1>3 DEF DutyCall, Holds, Told
  <2>2. Asked' = k /\ Told'
    BY <2>1, ChannelIs DEF Asked, NoArg, Told
  <2>3. \A m \in Channels : Holds(m)' = Holds(m)
    BY <2>1, HoldsSame
  <2>4. QED
    BY <2>1, <2>2, <2>3, FollowTold
<1>3a. ASSUME NEW k \in Channels, DutyRefused(k) PROVE Following'
  <2>1. /\ Send("stop", Holds(k)) /\ UNCHANGED <<timers, chn>> /\ ~Told /\ pc' = "idle"
        /\ Asks(k, IF mode[k].as = "breath" THEN Nothing ELSE mode[k])
    BY <1>3a DEF DutyRefused, Holds, Told, call
  <2>2. mode'[k].as # "breath" /\ \A m \in Channels : m # k => mode'[m] = mode[m]
    BY <2>1 DEF Asks, Nothing, Outs
  <2>3. \A m \in Channels : Holds(m)' = Holds(m)
    BY <2>1, HoldsSame
  <2>4. /\ \A m \in Channels : m # k => Follow(m)'
        /\ \A t \in Timers : Holds(k) = t => WillRest(t)'
    BY <2>1, <2>2, <2>3, FollowSent
  <2>5. Follow(k)'
    BY <2>2, <2>3, <2>4 DEF Follow, Resting
  <2>6. \A m \in Channels : Under(m)'
    BY <2>1 DEF Under, Told
  <2>7. QED
    BY <2>4, <2>5, <2>6 DEF Following
<1>4. CASE DutySet
  <2>1. UNCHANGED <<rtos, chn>> /\ Told /\ pc' = "idle"
        /\ Asks(Asked, Written(arg.duty))
    BY <1>4 DEF DutySet, Told, Return
  <2>2. QED
    BY <2>1, HoldsSame, FollowWritten
<1>5. ASSUME NEW k \in Channels, NEW period \in Periods, BreathCall(k, period) PROVE Following'
  <2>1. Live(k) /\ Asks(k, Nothing) /\ pc = "idle" /\ ~Told
    BY <1>5 DEF BreathCall, Told
  <2>2. \/ pc' = "idle"
        \/ pc' = "start" /\ Asked' = k /\ chn'[k].timer # NULL
    <3>1. \/ UNCHANGED call
          \/ /\ pc' = "start" /\ arg' = [NoArg EXCEPT !.light = k[1], !.id = k[2]]
             /\ chn'[k].timer # NULL
      BY <1>5 DEF BreathCall
    <3>2. QED
      BY <2>1, <3>1, ChannelIs DEF call, NoArg, Asked
  <2>3. mode'[k].as = "none" /\ \A m \in Channels : m # k => mode'[m] = mode[m]
    BY <2>1 DEF Asks, Nothing, Outs
  <2>4. Follow(k)'
    BY <2>3 DEF Follow
  <2>5. CASE chn[k].period = period
    <3>1. UNCHANGED <<chn, rtos>>
      BY <1>5, <2>5 DEF BreathCall
    <3>2. \A m \in Channels : Holds(m)' = Holds(m)
      BY <3>1, HoldsSame
    <3>3. \A m \in Channels : m # k => Follow(m)'
      BY <2>1, <2>3, <3>1, <3>2, EndsSame, FollowKept DEF Following
    <3>4. Holds(k)' \in Timers \cup {NULL} /\ Holds(k)' = chn'[k].timer
      BY <2>1, <3>1, <3>2, HoldsType DEF Holds
    <3>5. Asked' = k => Under(k)'
      BY <2>2, <2>3, <3>4 DEF Under, Told
    <3>6. \A m \in Channels : Asked' = m => Under(m)'
      BY <2>2, <3>5 DEF Under, Told
    <3>7. QED
      BY <2>4, <3>3, <3>6 DEF Following
  <2>6. CASE chn[k].period # period
    <3>1. PICK new \in {u \in Timers : timers[u] = "free"} \cup {NULL} :
             /\ IF new = NULL THEN UNCHANGED timers ELSE Created(new)
             /\ chn' = [chn EXCEPT ![k].timer = new, ![k].period = period]
      BY <1>5, <2>6 DEF BreathCall
    <3>2. /\ chn'[k] = [chn[k] EXCEPT !.timer = new, !.period = period]
          /\ \A m \in Channels : m # k => chn'[m] = chn[m]
      BY <3>1 DEF Cells
    <3>3. Holds(k)' = new /\ chn'[k].timer = new
          /\ \A m \in Channels : m # k => Holds(m)' = Holds(m)
      BY <2>1, <3>2 DEF Holds, Live, Cells
    <3>4. Send("delete", Holds(k))
      BY <1>5, <2>1, <2>6 DEF BreathCall, Holds
    <3>5. \A t \in Timers : timers[t] # "free" => timers'[t] = timers[t]
      BY <3>1 DEF Created, Queues
    <3>6. \A m \in Channels : m # k => Follow(m)'
      BY <2>1, <2>3, <3>3, <3>4, <3>5, FollowSent
    <3>7. Asked' = k => Under(k)'
      BY <2>2, <2>3, <3>1, <3>3 DEF Under, Told
    <3>8. \A m \in Channels : Asked' = m => Under(m)'
      BY <2>2, <3>7 DEF Under, Told
    <3>9. QED
      BY <2>4, <3>6, <3>8 DEF Following
  <2>7. QED
    BY <2>5, <2>6
<1>6. CASE BreathStart
  <2>1. PICK k \in Channels : k = Asked
    BY <1>6 DEF BreathStart, Places
  <2>2. /\ Send("start", Holds(k)) /\ UNCHANGED <<timers, chn, mode>> /\ ~Told
        /\ pc' = "fade" /\ Asked' = k /\ Under(k) /\ pc = "start"
    BY <1>6, <2>1 DEF BreathStart, Busy, Holds, Told, Following, Asked
  <2>3. \A m \in Channels : Holds(m)' = Holds(m)
    BY <2>2, HoldsSame
  <2>4. /\ \A m \in Channels : m # k => Follow(m)'
        /\ \A t \in Timers : Holds(k) = t => WillRun(t)'
    BY <2>2, <2>3, FollowSent
  <2>5. mode'[k].as = "none" /\ \E t \in Timers : Holds(k)' = t
    BY <2>2, <2>3 DEF Under
  <2>6. Follow(k)' /\ Under(k)'
    BY <2>2, <2>3, <2>4, <2>5 DEF Follow, Under, Told
  <2>7. QED
    BY <2>2, <2>4, <2>6 DEF Following
<1>7. CASE BreathFade
  <2>1. /\ UNCHANGED <<rtos, mode, chn, arg>> /\ pc = "fade" /\ pc' = "next"
    BY <1>7 DEF BreathFade
  <2>2. (\A m \in Channels : Holds(m)' = Holds(m)) /\ Asked' = Asked /\ ~Told /\ ~Told'
    BY <2>1, HoldsSame DEF Asked, Told
  <2>3. \A m \in Channels : Follow(m)'
    BY <2>1, <2>2, EndsSame, FollowKept DEF Following
  <2>4. \A m \in Channels : Asked' = m => Under(m)'
    BY <2>1, <2>2, EndsSame DEF Following, Under
  <2>5. QED
    BY <2>3, <2>4 DEF Following
<1>8. CASE BreathNext
  <2>1. PICK k \in Channels : k = Asked
    BY <1>8 DEF BreathNext, Places
  <2>2. /\ UNCHANGED rtos /\ Asks(k, Breathing) /\ pc = "next" /\ pc' = "idle"
        /\ ~Told /\ ~Told'
    BY <1>8, <2>1 DEF BreathNext, Return, Told
  <2>3. mode'[k].as = "breath" /\ \A m \in Channels : m # k => mode'[m] = mode[m]
    BY <2>2 DEF Asks, Breathing, Outs
  <2>4. \A m \in Channels : Holds(m)' = Holds(m)
    BY <1>8, HoldsSame
  <2>5. \A m \in Channels : m # k => Follow(m)'
    BY <2>2, <2>3, <2>4, EndsSame, FollowKept DEF Following
  <2>6. Follow(k)'
    <3>1. Under(k)
      BY <2>1 DEF Following
    <3>2. \E t \in Timers : Holds(k) = t /\ WillRun(t)
      BY <2>2, <3>1 DEF Under
    <3>3. QED
      BY <2>2, <2>3, <2>4, <3>2, EndsSame DEF Follow
  <2>7. \A m \in Channels : Under(m)'
    BY <2>2 DEF Under
  <2>8. QED
    BY <2>5, <2>6, <2>7 DEF Following
<1>9. ASSUME NEW l \in Lights, NEW mask \in SUBSET Ids, BlinkCall(l, mask) PROVE Following'
  <2>1. UNCHANGED <<rtos, mode, chn>> /\ pc = "idle" /\ pc' = "blink"
    BY <1>9 DEF BlinkCall
  <2>2. QED
    BY <2>1, HoldsSame, FollowCalm
<1>10. CASE BlinkStop
  <2>1. PICK k \in Channels : k = Asked /\ Live(k)
    BY <1>10 DEF BlinkStop, Places, Asked, Channels, Ids
  <2>2. /\ Send("stop", Holds(k)) /\ UNCHANGED <<timers, chn, mode>> /\ ~Told
        /\ Asked' = k /\ Told' /\ pc' = "blink_duty"
    BY <1>10, <2>1 DEF BlinkStop, Holds, Told, Asked
  <2>3. \A m \in Channels : Holds(m)' = Holds(m)
    BY <2>2, HoldsSame
  <2>4. QED
    BY <2>2, <2>3, FollowTold
<1>11. CASE BlinkDuty
  <2>1. /\ UNCHANGED <<rtos, chn>> /\ Told /\ pc' \in {"idle", "blink"}
        /\ \E duty \in Duties : Asks(Asked, Written(duty))
    BY <1>11 DEF BlinkDuty, Told, Step, Duties
  <2>2. QED
    BY <2>1, HoldsSame, FollowWritten
<1>12. CASE BlinkSkip
  <2>1. UNCHANGED <<rtos, mode, chn>> /\ pc = "blink" /\ pc' = "blink"
    BY <1>12 DEF BlinkSkip, Step
  <2>2. QED
    BY <2>1, HoldsSame, FollowCalm
<1>13. CASE BlinkDone
  <2>1. UNCHANGED <<rtos, mode, chn>> /\ pc = "blink" /\ pc' = "idle"
    BY <1>13 DEF BlinkDone, Return
  <2>2. QED
    BY <2>1, HoldsSame, FollowCalm
<1>14. ASSUME NEW l \in Lights, DeleteCall(l) PROVE Following'
  <2>1. UNCHANGED <<rtos, mode, chn>> /\ pc = "idle" /\ pc' = "delete"
    BY <1>14 DEF DeleteCall
  <2>2. QED
    BY <2>1, HoldsSame, FollowCalm
<1>15. CASE DeleteChannel
  <2>1. PICK k \in Channels : k = Asked
    BY <1>15 DEF DeleteChannel, Places
  <2>2. /\ UNCHANGED timers /\ Asks(k, Nothing) /\ ~Told /\ pc' \in {"delete", "remove"}
        /\ IF Live(k)
           THEN /\ Send("delete", Holds(k))
                /\ chn' = [chn EXCEPT ![k] = [NoChannel EXCEPT !.cell = "freed"]]
           ELSE UNCHANGED <<chn, commands>>
    BY <1>15, <2>1 DEF DeleteChannel, Holds, Told, Step
  <2>3. mode'[k].as = "none" /\ \A m \in Channels : m # k => mode'[m] = mode[m]
    BY <2>2 DEF Asks, Nothing, Outs
  <2>4. \A m \in Channels : m # k => Holds(m)' = Holds(m)
    BY <2>2 DEF Live, Holds, Cells
  <2>5. \A m \in Channels : m # k => Follow(m)'
    <3>1. CASE Live(k)
      BY <2>2, <2>3, <2>4, <3>1, FollowSent
    <3>2. CASE ~Live(k)
      <4>1. UNCHANGED rtos
        BY <2>2, <3>2 DEF rtos
      <4>2. QED
        BY <2>2, <2>3, <2>4, <4>1, EndsSame, FollowKept DEF Following
    <3>3. QED
      BY <3>1, <3>2
  <2>6. Follow(k)' /\ \A m \in Channels : Under(m)'
    BY <2>2, <2>3 DEF Follow, Under, Told
  <2>7. QED
    BY <2>5, <2>6 DEF Following
<1>16. CASE Delete
  <2>1. UNCHANGED <<rtos, mode>> /\ pc = "remove" /\ pc' = "idle"
    BY <1>16 DEF Delete, Return
  <2>2. QED
    BY <1>16, <2>1, HoldsSame, FollowCalm
<1>17. CASE Command
  <2>1. UNCHANGED <<pc, arg, mode, chn>>
    BY <1>17 DEF Command, call
  <2>2. QED
    BY <1>17, <2>1, EndsTaken, HoldsSame, FollowStays
<1>18. ASSUME NEW t \in Timers, Expire(t) PROVE Following'
  <2>1. UNCHANGED <<pc, arg, mode, rtos>>
    BY <1>18 DEF Expire, call
  <2>2. QED
    BY <1>18, <2>1, EndsSame, HoldsSame, FollowStays
<1>19. CASE UNCHANGED vars
  <2>1. UNCHANGED <<pc, arg, mode, rtos, chn>>
    BY <1>19 DEF vars, call
  <2>2. QED
    BY <2>1, EndsSame, HoldsSame, FollowStays
<1>20. QED
  BY <1>1, <1>2, <1>3, <1>3a, <1>4, <1>5, <1>6, <1>7, <1>8, <1>9, <1>10, <1>11, <1>12,
     <1>13, <1>14, <1>15, <1>16, <1>17, <1>18, <1>19
     DEF Next, Call, CallStep

\* Between calls, once the timer task has carried out what was sent to it, breathing is
\* what was asked for: a channel of the group that is set to breathe is turned by a timer
\* that runs, and one that was given a duty by none.
TimersFollow ==
    pc = "idle" /\ commands = <<>> =>
        \A k \in Channels :
            /\ mode[k].as = "breath" /\ InGroup(k) =>
                  \E t \in Timers : timers[t] = "active" /\ k \in Turned(t)
            /\ mode[k].as = "duty" => \A t \in Timers : timers[t] = "active" => k \notin Turned(t)

\* Breathing follows the calls, however late the timer task is and however many lights there
\* are: the safety that BreathGoesOn and DutyRests rest on.
THEOREM Breathed == Spec => []TimersFollow
<1> DEFINE Inv == /\ Places /\ Cells /\ Outs /\ Queues
                  /\ Timed /\ Busy /\ Following
<1>1. ASSUME Init PROVE Inv
  <2>1. Places
    BY <1>1, NumberAssumption DEF Init, NoArg, Places, Duties
  <2>2. Cells
    BY <1>1 DEF Init, Cells, NoChannel
  <2>3. Outs
    BY <1>1 DEF Init, Outs, Duties
  <2>4. commands = <<>> /\ timers = [t \in Timers |-> "free"] /\ pc = "idle"
        /\ \A k \in Channels : Holds(k) = NULL /\ mode[k].as = "none"
    BY <1>1 DEF Init, Holds, Live, NoChannel
  <2>5. Queues
    BY <2>4, NumberAssumption DEF Queues
  <2>6. Timed
    BY <2>4, LightAssumption DEF Timed, Unique, Kept, Found, Quiet, LastIsDelete
  <2>7. Busy
    BY <2>4 DEF Busy
  <2>8. Following
    BY <2>4 DEF Following, Follow, Under, Told
  <2>9. QED
    BY <2>1, <2>2, <2>3, <2>5, <2>6, <2>7, <2>8
<1>2. ASSUME Inv PROVE TimersFollow
  <2> SUFFICES ASSUME pc = "idle", commands = <<>>, NEW k \in Channels
               PROVE  /\ mode[k].as = "breath" /\ InGroup(k) =>
                            \E t \in Timers : timers[t] = "active" /\ k \in Turned(t)
                      /\ mode[k].as = "duty" =>
                            \A t \in Timers : timers[t] = "active" => k \notin Turned(t)
    BY DEF TimersFollow
  <2>1. \A t \in Timers : k \in Turned(t) => Holds(k) = t
    BY DEF Turned, Holds
  <2>2. \A t \in Timers : Holds(k) = t /\ InGroup(k) => k \in Turned(t)
    BY LightAssumption DEF Turned, Holds
  <2>3. DOMAIN commands = {}
    OBVIOUS
  <2>4. ASSUME NEW t \in Timers
        PROVE  (WillRun(t) => timers[t] = "active") /\ (WillRest(t) => timers[t] # "active")
    BY <2>3 DEF WillRun, WillRest, Ends
  <2>5. Follow(k) /\ ~Told
    BY <1>2 DEF Following, Told
  <2>6. QED
    BY <2>1, <2>2, <2>4, <2>5 DEF Follow, Resting
<1>3. QED
  BY <1>1, <1>2, PlacesStep, CellsStep, OutsStep, QueuesStep, TimedStep, FollowingStep,
     PTL DEF Spec
==============================================================================
