------------------------------ MODULE HttpProofs ------------------------------
(***************************************************************************)
(* Proofs about Http, for any tasks, objects, connections and sizes.        *)
(***************************************************************************)
EXTENDS Http, TLAPS

\* Where a task can be, and when it has a client.
Placed ==
    /\ pc[Requester] \in {"idle", "perform", "cleanup"}
    /\ \A t \in Tasks : pc[t] \notin {"idle", "open"} => handle[t] # NULL

\* No step takes a variable out of its type.
LEMMA TypeStep ==
    ASSUME TypeOK, Placed, [Next]_vars
    PROVE  TypeOK'
<1> USE TaskAssumption, HandleAssumption, SizeAssumption
    DEF TypeOK, Responses, Downloads, Tasks, Requesting, Goto, Take, Cleanup, Returns,
        Forget, Loop, Left, NoResponse, NoDownload, library, requesting, downloading
<1>1. CASE SetBody
  BY <1>1 DEF SetBody
<1>2. CASE RequestInitFails
  BY <1>2 DEF RequestInitFails
<1>3. ASSUME NEW h \in Handles, DoRequest(h) PROVE TypeOK'
  BY <1>3 DEF DoRequest
<1>4. ASSUME NEW n \in 0 .. MaxBody, Append(n) PROVE TypeOK'
  <2> DEFINE end == response.current + n
             size == IF end >= response.size THEN response.size + Added(n)
                     ELSE response.size
  <2>1. end \in Nat /\ Added(n) \in Nat
    BY DEF Added
  <2>2. size \in Nat
    BY <2>1
  <2>3. response' = [response EXCEPT !.has = TRUE, !.size = size, !.current = end,
                                     !.dirty = IF end > @ THEN end ELSE @]
    BY <1>4 DEF Append
  <2>4. response' \in Responses
    <3> HIDE DEF end, size
    <3> QED
      BY <2>1, <2>2, <2>3
  <2>5. got' \in Nat /\ UNCHANGED <<library, pc, request, sent, downloading>>
    BY <1>4 DEF Append
  <2>6. QED
    BY <2>4, <2>5
<1>5. CASE PerformEnds
  BY <1>5 DEF PerformEnds
<1>6. CASE RequestEnds
  BY <1>6 DEF RequestEnds
<1>7. ASSUME NEW n \in {0, MaxBody}, NEW has \in BOOLEAN, SwapData(n, has) PROVE TypeOK'
  <2>1. response' = [response EXCEPT !.size = n, !.dirty = n, !.current = 0,
                                     !.has = has, !.set = response.set \/ has]
    BY <1>7 DEF SwapData
  <2>2. n \in Nat /\ (response.set \/ has) \in BOOLEAN
    OBVIOUS
  <2>3. response' \in Responses
    BY <2>1, <2>2
  <2>4. UNCHANGED <<library, pc, request, sent, got, downloading>>
    BY <1>7 DEF SwapData
  <2>5. QED
    BY <2>3, <2>4
<1>8. ASSUME NEW d \in Downloaders, NEW callback \in BOOLEAN, DoDownload(d, callback)
      PROVE  TypeOK'
  <2>1. UNCHANGED <<leaked, requesting, buffer>> /\ Goto(d, "open")
    BY <1>8 DEF DoDownload
  <2>2. clients' \subseteq Handles /\ handle' \in [Tasks -> Handles \cup {NULL}]
    BY <1>8 DEF DoDownload
  <2>3. dl' = [dl EXCEPT ![d] = [NoDownload EXCEPT !.callback = callback, !.success = TRUE]]
    BY <1>8 DEF DoDownload
  <2>4. given' \in [Downloaders -> Nat]
    BY <1>8 DEF DoDownload
  <2>5. QED
    BY <2>1, <2>2, <2>3, <2>4
<1>9. ASSUME NEW d \in Downloaders, OpenNull(d) PROVE TypeOK'
  BY <1>9, ZenonT(40) DEF OpenNull
<1>10. ASSUME NEW d \in Downloaders, Open(d) PROVE TypeOK'
  BY <1>10 DEF Open
<1>11. ASSUME NEW d \in Downloaders, OpenFails(d) PROVE TypeOK'
  BY <1>11 DEF OpenFails
<1>12. ASSUME NEW d \in Downloaders, HeadersFail(d) PROVE TypeOK'
  <2>1. handle[d] # NULL
    BY <1>12 DEF HeadersFail, Placed
  <2>2. handle[d] \in Handles
    BY <2>1
  <2>3. QED
    BY <1>12, <2>2 DEF HeadersFail
<1>13. ASSUME NEW d \in Downloaders, NEW n \in 1 .. MaxContent, FetchHeaders(d, n)
       PROVE  TypeOK'
  BY <1>13 DEF FetchHeaders
<1>14. ASSUME NEW d \in Downloaders, NEW n \in 1 .. MaxContent, Read(d, n) PROVE TypeOK'
  <2> DEFINE piece == [dl[d] EXCEPT !.total = dl[d].total + n, !.len = n]
  <2>1. dl' = [dl EXCEPT ![d] = piece]
    BY <1>14 DEF Read
  <2>2. dl[d] \in Downloads /\ n \in Nat
    BY SizeAssumption
  <2>3. piece \in Downloads
    <3>1. ASSUME NEW r \in Downloads, NEW k \in Nat
          PROVE  [r EXCEPT !.total = k, !.len = n] \in Downloads
      BY <2>2
    <3>2. dl[d].total + n \in Nat
      BY <2>2
    <3> HIDE DEF Downloads
    <3> QED
      BY <2>2, <3>1, <3>2
  <2>4. dl' \in [Downloaders -> Downloads]
    <3> HIDE DEF piece, Downloads
    <3> QED
      BY <2>1, <2>3
  <2>5. Goto(d, "callback") \/ Goto(d, "read") \/ Goto(d, "close")
    BY <1>14 DEF Read
  <2>6. buffer' = [buffer EXCEPT ![Object[d]] = d]
        /\ UNCHANGED <<library, requesting, given>>
    BY <1>14 DEF Read
  <2> HIDE DEF Downloads, Responses
  <2>7. QED
    BY <2>4, <2>5, <2>6
<1>15. ASSUME NEW d \in Downloaders, ReadNothing(d) PROVE TypeOK'
  BY <1>15 DEF ReadNothing
<1>16. ASSUME NEW d \in Downloaders, Again(d) PROVE TypeOK'
  BY <1>16 DEF Again
<1>17. ASSUME NEW d \in Downloaders, ReadFails(d) PROVE TypeOK'
  BY <1>17, ZenonT(40) DEF ReadFails
<1>18. ASSUME NEW d \in Downloaders, NEW go_on \in BOOLEAN, Callback(d, go_on) PROVE TypeOK'
  BY <1>18, SMTT(30) DEF Callback
<1>19. ASSUME NEW d \in Downloaders, DownloadEnds(d) PROVE TypeOK'
  BY <1>19 DEF DownloadEnds
<1>20. CASE UNCHANGED vars
  BY <1>20 DEF vars
<1> HIDE DEF TypeOK, Responses, Downloads, Tasks, Loop, Left, NoResponse, NoDownload,
             library, requesting, downloading
<1>21. QED
  BY <1>1, <1>2, <1>3, <1>4, <1>5, <1>6, <1>7, <1>8, <1>9, <1>10, <1>11, <1>12, <1>13,
     <1>14, <1>15, <1>16, <1>17, <1>18, <1>19, <1>20
     DEF Next, Request, RequestStep, DownloadStep

\* No step leaves a client without a task, or with two.
LEMMA OwnStep ==
    ASSUME TypeOK, Placed, ClientsAreOwned, [Next]_vars
    PROVE  Placed' /\ ClientsAreOwned'
<1> USE TaskAssumption, HandleAssumption
    DEF TypeOK, Placed, ClientsAreOwned, Tasks, Requesting, Goto, Take, Cleanup, Returns,
        Forget, Loop, library, requesting, downloading
<1>1. CASE SetBody
  BY <1>1 DEF SetBody
<1>2. CASE RequestInitFails
  BY <1>2 DEF RequestInitFails
<1>3. ASSUME NEW h \in Handles, DoRequest(h) PROVE Placed' /\ ClientsAreOwned'
  BY <1>3 DEF DoRequest
<1>4. ASSUME NEW n \in 0 .. MaxBody, Append(n) PROVE Placed' /\ ClientsAreOwned'
  BY <1>4 DEF Append
<1>5. CASE PerformEnds
  BY <1>5 DEF PerformEnds
<1>6. CASE RequestEnds
  BY <1>6 DEF RequestEnds
<1>7. ASSUME NEW n \in {0, MaxBody}, NEW has \in BOOLEAN, SwapData(n, has)
      PROVE  Placed' /\ ClientsAreOwned'
  BY <1>7 DEF SwapData
<1>8. ASSUME NEW d \in Downloaders, NEW callback \in BOOLEAN, DoDownload(d, callback)
      PROVE  Placed' /\ ClientsAreOwned'
  BY <1>8 DEF DoDownload
<1>9. ASSUME NEW d \in Downloaders, OpenNull(d) PROVE Placed' /\ ClientsAreOwned'
  BY <1>9 DEF OpenNull
<1>10. ASSUME NEW d \in Downloaders, Open(d) PROVE Placed' /\ ClientsAreOwned'
  BY <1>10 DEF Open
<1>11. ASSUME NEW d \in Downloaders, OpenFails(d) PROVE Placed' /\ ClientsAreOwned'
  BY <1>11 DEF OpenFails
<1>12. ASSUME NEW d \in Downloaders, HeadersFail(d) PROVE Placed' /\ ClientsAreOwned'
  BY <1>12 DEF HeadersFail
<1>13. ASSUME NEW d \in Downloaders, NEW n \in 1 .. MaxContent, FetchHeaders(d, n)
       PROVE  Placed' /\ ClientsAreOwned'
  BY <1>13 DEF FetchHeaders
<1>14. ASSUME NEW d \in Downloaders, NEW n \in 1 .. MaxContent, Read(d, n)
       PROVE  Placed' /\ ClientsAreOwned'
  BY <1>14 DEF Read
<1>15. ASSUME NEW d \in Downloaders, ReadNothing(d) PROVE Placed' /\ ClientsAreOwned'
  BY <1>15 DEF ReadNothing
<1>16. ASSUME NEW d \in Downloaders, Again(d) PROVE Placed' /\ ClientsAreOwned'
  BY <1>16 DEF Again
<1>17. ASSUME NEW d \in Downloaders, ReadFails(d) PROVE Placed' /\ ClientsAreOwned'
  BY <1>17 DEF ReadFails
<1>18. ASSUME NEW d \in Downloaders, NEW go_on \in BOOLEAN, Callback(d, go_on)
       PROVE  Placed' /\ ClientsAreOwned'
  BY <1>18 DEF Callback
<1>19. ASSUME NEW d \in Downloaders, DownloadEnds(d) PROVE Placed' /\ ClientsAreOwned'
  BY <1>19 DEF DownloadEnds
<1>20. CASE UNCHANGED vars
  BY <1>20 DEF vars
<1>21. QED
  BY <1>1, <1>2, <1>3, <1>4, <1>5, <1>6, <1>7, <1>8, <1>9, <1>10, <1>11, <1>12, <1>13,
     <1>14, <1>15, <1>16, <1>17, <1>18, <1>19, <1>20
     DEF Next, Request, RequestStep, DownloadStep

\* While a request is under way, the buffer is empty or as BodyIsString says.
Collecting ==
    pc[Requester] \in {"perform", "cleanup"} =>
        /\ ~response.set
        /\ ~response.has => response.current = 0 /\ response.dirty = 0 /\ got = 0

\* No step spoils the string: only AppendResponseData touches the buffer of a request.
LEMMA BodyStep ==
    ASSUME TypeOK, Placed, Collecting, BodyIsString, [Next]_vars
    PROVE  Collecting' /\ BodyIsString'
<1> USE TaskAssumption, SizeAssumption
    DEF TypeOK, Responses, Placed, Collecting, BodyIsString, Tasks, Requesting, Goto,
        Returns, NoResponse, library, requesting, downloading
<1>1. CASE SetBody
  BY <1>1 DEF SetBody
<1>2. CASE RequestInitFails
  BY <1>2 DEF RequestInitFails
<1>3. ASSUME NEW h \in Handles, DoRequest(h) PROVE Collecting' /\ BodyIsString'
  BY <1>3 DEF DoRequest
<1>4. ASSUME NEW n \in 0 .. MaxBody, Append(n) PROVE Collecting' /\ BodyIsString'
  <2> DEFINE end == response.current + n
             size == IF end >= response.size THEN response.size + Added(n)
                     ELSE response.size
  <2>1. response' = [response EXCEPT !.has = TRUE, !.size = size, !.current = end,
                                     !.dirty = IF end > response.dirty THEN end
                                               ELSE response.dirty]
    BY <1>4 DEF Append
  <2>3. response'.has /\ response'.current = end /\ response'.size = size
        /\ response'.set = response.set
        /\ response'.dirty = IF end > response.dirty THEN end ELSE response.dirty
    <3> HIDE DEF end, size
    <3> QED
      BY <2>1
  <2>4. got' = got + n /\ pc' = pc /\ pc[Requester] = "perform"
    BY <1>4 DEF Append
  <2>5. ~response.set /\ response.current = got /\ response.dirty = got
        /\ response.current <= response.size
    BY <2>4
  <2>6. Added(n) \in Nat /\ Added(n) > n
    BY DEF Added
  <2>7. end < size /\ end >= response.dirty
    <3> HIDE DEF Added
    <3> QED
      BY <2>5, <2>6
  <2>8. QED
    BY <2>3, <2>4, <2>5, <2>7
<1>5. CASE PerformEnds
  BY <1>5 DEF PerformEnds
<1>6. CASE RequestEnds
  BY <1>6 DEF RequestEnds
<1>7. ASSUME NEW n \in {0, MaxBody}, NEW has \in BOOLEAN, SwapData(n, has)
      PROVE  Collecting' /\ BodyIsString'
  BY <1>7 DEF SwapData
<1>8. ASSUME NEW d \in Downloaders, NEW callback \in BOOLEAN, DoDownload(d, callback)
      PROVE  Collecting' /\ BodyIsString'
  BY <1>8 DEF DoDownload
<1>9. ASSUME NEW d \in Downloaders, OpenNull(d) PROVE Collecting' /\ BodyIsString'
  BY <1>9 DEF OpenNull
<1>10. ASSUME NEW d \in Downloaders, Open(d) PROVE Collecting' /\ BodyIsString'
  BY <1>10 DEF Open
<1>11. ASSUME NEW d \in Downloaders, OpenFails(d) PROVE Collecting' /\ BodyIsString'
  BY <1>11 DEF OpenFails
<1>12. ASSUME NEW d \in Downloaders, HeadersFail(d) PROVE Collecting' /\ BodyIsString'
  BY <1>12 DEF HeadersFail
<1>13. ASSUME NEW d \in Downloaders, NEW n \in 1 .. MaxContent, FetchHeaders(d, n)
       PROVE  Collecting' /\ BodyIsString'
  BY <1>13 DEF FetchHeaders
<1>14. ASSUME NEW d \in Downloaders, NEW n \in 1 .. MaxContent, Read(d, n)
       PROVE  Collecting' /\ BodyIsString'
  BY <1>14 DEF Read
<1>15. ASSUME NEW d \in Downloaders, ReadNothing(d) PROVE Collecting' /\ BodyIsString'
  BY <1>15 DEF ReadNothing
<1>16. ASSUME NEW d \in Downloaders, Again(d) PROVE Collecting' /\ BodyIsString'
  BY <1>16 DEF Again
<1>17. ASSUME NEW d \in Downloaders, ReadFails(d) PROVE Collecting' /\ BodyIsString'
  BY <1>17 DEF ReadFails
<1>18. ASSUME NEW d \in Downloaders, NEW go_on \in BOOLEAN, Callback(d, go_on)
       PROVE  Collecting' /\ BodyIsString'
  BY <1>18 DEF Callback
<1>19. ASSUME NEW d \in Downloaders, DownloadEnds(d) PROVE Collecting' /\ BodyIsString'
  BY <1>19 DEF DownloadEnds
<1>20. CASE UNCHANGED vars
  BY <1>20 DEF vars
<1>21. QED
  BY <1>1, <1>2, <1>3, <1>4, <1>5, <1>6, <1>7, <1>8, <1>9, <1>10, <1>11, <1>12, <1>13,
     <1>14, <1>15, <1>16, <1>17, <1>18, <1>19, <1>20
     DEF Next, Request, RequestStep, DownloadStep

\* Each task downloads with an object of its own.
OwnObjects == \A d, e \in Downloaders : Object[d] = Object[e] => d = e

\* The callback has seen what was read, or is about to see the rest of it.
Counts(d) ==
    /\ dl[d].len < BufferLength /\ dl[d].total <= dl[d].content
    /\ pc[d] \in {"open", "headers"} => dl[d].total = 0 /\ given[d] = 0
    /\ pc[d] \in {"read", "again"} =>
          dl[d].total < dl[d].content /\ (dl[d].callback => given[d] = dl[d].total)
    /\ pc[d] = "callback" =>
          /\ dl[d].callback /\ given[d] + dl[d].len = dl[d].total
          /\ buffer[Object[d]] = d
    /\ pc[d] = "close" /\ dl[d].success =>
          dl[d].total = dl[d].content /\ (dl[d].callback => given[d] = dl[d].content)
    /\ pc[d] # "idle" => dl[d].result = "none"
    /\ pc[d] \in {"open", "headers", "read", "again", "callback"} => dl[d].success
    /\ dl[d].result = "true" =>
          dl[d].total = dl[d].content /\ (dl[d].callback => given[d] = dl[d].content)

\* What a step of another task leaves alone.
Untouched(d) ==
    /\ pc'[d] = pc[d] /\ dl'[d] = dl[d] /\ given'[d] = given[d]
    /\ buffer'[Object[d]] = buffer[Object[d]]

LEMMA UntouchedCounts ==
    ASSUME NEW d \in Downloaders, Counts(d), Untouched(d)
    PROVE  Counts(d)'
BY DEF Counts, Untouched, BufferLength

LEMMA RequestTouchesNone ==
    ASSUME TypeOK, Request \/ RequestStep \/ UNCHANGED vars, NEW d \in Downloaders
    PROVE  Untouched(d)
BY TaskAssumption
   DEF TypeOK, Request, RequestStep, Untouched, SetBody, RequestInitFails, DoRequest,
       Append, PerformEnds, RequestEnds, SwapData, Goto, Tasks, Requesting, library,
       downloading, vars

LEMMA DownloadTouchesOne ==
    ASSUME TypeOK, OwnObjects, NEW d \in Downloaders, NEW e \in Downloaders, d # e,
           DownloadStep(e) \/ \E callback \in BOOLEAN : DoDownload(e, callback)
    PROVE  Untouched(d)
<1> USE TaskAssumption
    DEF TypeOK, OwnObjects, Untouched, Goto, Returns, Tasks, downloading
<1>1. CASE \E callback \in BOOLEAN : DoDownload(e, callback)
  BY <1>1 DEF DoDownload
<1>2. CASE OpenNull(e) \/ Open(e) \/ OpenFails(e) \/ HeadersFail(e)
  BY <1>2 DEF OpenNull, Open, OpenFails, HeadersFail
<1>3. CASE \E n \in 1 .. MaxContent : FetchHeaders(e, n)
  BY <1>3 DEF FetchHeaders
<1>4. ASSUME NEW n \in 1 .. MaxContent, Read(e, n) PROVE Untouched(d)
  BY <1>4 DEF Read
<1>5. CASE ReadNothing(e) \/ Again(e) \/ ReadFails(e)
  BY <1>5 DEF ReadNothing, Again, ReadFails
<1>6. CASE \E go_on \in BOOLEAN : Callback(e, go_on)
  BY <1>6 DEF Callback
<1>7. CASE DownloadEnds(e)
  BY <1>7 DEF DownloadEnds
<1>8. QED
  BY <1>1, <1>2, <1>3, <1>4, <1>5, <1>6, <1>7 DEF DownloadStep

\* A download counts right at each of its own steps.
LEMMA OwnCounts ==
    ASSUME TypeOK, NEW d \in Downloaders, Counts(d),
           DownloadStep(d) \/ \E callback \in BOOLEAN : DoDownload(d, callback)
    PROVE  Counts(d)'
<1> USE TaskAssumption, SizeAssumption
    DEF TypeOK, Downloads, Counts, BufferLength, Goto, Returns, Loop, Left, Tasks,
        downloading
<1>1. ASSUME NEW callback \in BOOLEAN, DoDownload(d, callback) PROVE Counts(d)'
  <2>1. /\ dl' = [dl EXCEPT ![d] = [NoDownload EXCEPT !.callback = callback, !.success = TRUE]]
        /\ given' = [given EXCEPT ![d] = 0] /\ pc' = [pc EXCEPT ![d] = "open"]
    BY <1>1 DEF DoDownload
  <2>2. dl'[d] = [NoDownload EXCEPT !.callback = callback, !.success = TRUE]
    BY <2>1
  <2>3. /\ dl'[d].len = 0 /\ dl'[d].total = 0 /\ dl'[d].content = 0
        /\ dl'[d].result = "none" /\ dl'[d].success
    BY <2>2 DEF NoDownload
  <2>4. given'[d] = 0 /\ pc'[d] = "open"
    BY <2>1
  <2>5. QED
    BY <2>3, <2>4
<1>2. CASE OpenNull(d)
  BY <1>2 DEF OpenNull
<1>3. CASE Open(d)
  BY <1>3 DEF Open
<1>4. CASE OpenFails(d)
  BY <1>4 DEF OpenFails
<1>5. CASE HeadersFail(d)
  BY <1>5 DEF HeadersFail
<1>6. ASSUME NEW n \in 1 .. MaxContent, FetchHeaders(d, n) PROVE Counts(d)'
  BY <1>6 DEF FetchHeaders
<1>7. ASSUME NEW n \in 1 .. MaxContent, Read(d, n) PROVE Counts(d)'
  <2>1. /\ n \in Nat /\ 0 < n /\ n < BufferLength
        /\ dl[d].total + n <= dl[d].content
        /\ pc[d] = "read"
    BY <1>7 DEF Read, Pieces
  <2>2. /\ dl'[d] = [dl[d] EXCEPT !.total = dl[d].total + n, !.len = n]
        /\ buffer'[Object[d]] = d /\ given'[d] = given[d]
        /\ pc'[d] = IF dl[d].callback THEN "callback" ELSE Loop(d, n)
    BY <1>7 DEF Read
  <2>3. /\ dl'[d].total = dl[d].total + n /\ dl'[d].len = n
        /\ \A f \in {"content", "callback", "success", "result"} : dl'[d][f] = dl[d][f]
    <3> HIDE DEF Counts
    <3> QED
      BY <2>2
  <2>4. /\ dl'[d].content = dl[d].content /\ dl'[d].callback = dl[d].callback
        /\ dl'[d].success = dl[d].success /\ dl'[d].result = dl[d].result
    BY <2>3
  <2>5. /\ dl[d].callback => pc'[d] = "callback"
        /\ ~dl[d].callback /\ dl'[d].total < dl[d].content => pc'[d] = "read"
        /\ ~dl[d].callback /\ dl'[d].total = dl[d].content => pc'[d] = "close"
    BY <2>1, <2>2, <2>3
  <2>6. /\ dl[d].total \in Nat /\ dl[d].content \in Nat /\ given[d] \in Nat
        /\ dl[d].callback \in BOOLEAN
    OBVIOUS
  <2>7. /\ dl[d].callback => given[d] = dl[d].total
        /\ dl[d].result = "none" /\ dl[d].success
    BY <2>1
  <2> HIDE DEF TypeOK, Loop
  <2>8. CASE dl[d].callback
    BY <2>1, <2>2, <2>3, <2>4, <2>5, <2>6, <2>7, <2>8
  <2>9. CASE ~dl[d].callback
    BY <2>1, <2>2, <2>3, <2>4, <2>5, <2>6, <2>7, <2>9
  <2>10. QED
    BY <2>6, <2>8, <2>9
<1>8. CASE ReadNothing(d)
  BY <1>8 DEF ReadNothing
<1>9. CASE Again(d)
  BY <1>9 DEF Again
<1>10. CASE ReadFails(d)
  BY <1>10 DEF ReadFails
<1>11. ASSUME NEW go_on \in BOOLEAN, Callback(d, go_on) PROVE Counts(d)'
  BY <1>11 DEF Callback
<1>12. CASE DownloadEnds(d)
  BY <1>12 DEF DownloadEnds
<1> HIDE DEF TypeOK, Counts
<1>13. QED
  BY <1>1, <1>2, <1>3, <1>4, <1>5, <1>6, <1>7, <1>8, <1>9, <1>10, <1>11, <1>12
     DEF DownloadStep

LEMMA WholeStep ==
    ASSUME TypeOK, OwnObjects, \A d \in Downloaders : Counts(d), [Next]_vars
    PROVE  \A d \in Downloaders : Counts(d)'
<1> SUFFICES ASSUME NEW d \in Downloaders PROVE Counts(d)'
  OBVIOUS
<1>1. CASE Request \/ RequestStep \/ UNCHANGED vars
  BY <1>1, RequestTouchesNone, UntouchedCounts
<1>2. ASSUME NEW e \in Downloaders,
             DownloadStep(e) \/ \E callback \in BOOLEAN : DoDownload(e, callback)
      PROVE  Counts(d)'
  <2>1. CASE d = e
    BY <1>2, <2>1, OwnCounts
  <2>2. CASE d # e
    BY <1>2, <2>2, DownloadTouchesOne, UntouchedCounts
  <2>3. QED
    BY <2>1, <2>2
<1>3. QED
  BY <1>1, <1>2 DEF Next

-----------------------------------------------------------------------------
\* What the steps preserve together.
Inv == TypeOK /\ Placed /\ ClientsAreOwned /\ Collecting /\ BodyIsString

LEMMA InvAlways == Spec => []Inv
<1>1. Init => Inv
  BY TaskAssumption, HandleAssumption
     DEF Init, Inv, TypeOK, Responses, Downloads, Placed, ClientsAreOwned, Collecting,
         BodyIsString, Tasks, NoResponse, NoDownload
<1>2. Inv /\ [Next]_vars => Inv'
  BY TypeStep, OwnStep, BodyStep DEF Inv
<1>3. QED
  BY <1>1, <1>2, PTL DEF Spec

\* Every variable keeps its type.
THEOREM TypeCorrect == Spec => []TypeOK
<1>1. Inv => TypeOK
  BY DEF Inv
<1>2. QED
  BY <1>1, InvAlways, PTL

\* Pieces of any length, in any number: the body is in the buffer with a 0 behind it.
THEOREM BodyTerminated == Spec => []BodyIsString
<1>1. Inv => BodyIsString
  BY DEF Inv
<1>2. QED
  BY <1>1, InvAlways, PTL

\* Clients are lost on the two early returns of DoDownload and nowhere else.
THEOREM ClientsOwned == Spec => []ClientsAreOwned
<1>1. Inv => ClientsAreOwned
  BY DEF Inv
<1>2. QED
  BY <1>1, InvAlways, PTL

\* Contents and buffers of any length, any number of tasks: a download with an object of its
\* own that returns true has given its callback every byte, once.
THEOREM Whole == OwnObjects /\ Spec => []DownloadIsWhole
<1> SUFFICES ASSUME OwnObjects PROVE Spec => []DownloadIsWhole
  OBVIOUS
<1> DEFINE Counting == TypeOK /\ Placed /\ \A d \in Downloaders : Counts(d)
<1>1. Init => Counting
  <2>1. ASSUME Init PROVE \A d \in Downloaders : Counts(d)
    BY <2>1, SizeAssumption, TaskAssumption
       DEF Init, Counts, NoDownload, BufferLength, Tasks
  <2>2. QED
    BY <2>1, TaskAssumption, HandleAssumption
       DEF Init, TypeOK, Responses, Downloads, Placed, Tasks, NoResponse, NoDownload
<1>2. Spec => []Inv
  BY InvAlways
<1>3. Counting /\ Inv /\ [Next]_vars /\ Inv' => Counting'
  BY WholeStep DEF Inv
<1>4. Counting => DownloadIsWhole
  BY DEF Counts, DownloadIsWhole
<1> HIDE DEF Counting
<1>5. QED
  BY <1>1, <1>2, <1>3, <1>4, PTL DEF Spec
=============================================================================
