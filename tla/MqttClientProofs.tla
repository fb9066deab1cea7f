--------------------------- MODULE MqttClientProofs ---------------------------
(***************************************************************************)
(* Proofs about MqttClient: the object and the library's client go together *)
(* through every error path of Start and through Stop, with the callbacks   *)
(* of the library's task anywhere between; and the ready flag settles.      *)
(***************************************************************************)
EXTENDS MqttClient, TLAPS

Starting == {"register", "start"}
Stopping == {"wait", "destroy"}

\* What the fields say of the library's client, at every place of a call, and where the
\* library's task can be.
Owned ==
    /\ handle \in BOOLEAN /\ is_start \in BOOLEAN /\ is_ready \in BOOLEAN
    /\ handle <=> lib # "none"
    /\ api_pc \in {"idle", "request"} => (is_start <=> handle)
    /\ api_pc \in Starting => lib = "created" /\ ~is_start
    /\ api_pc = "started" => lib \in Running /\ ~is_start
    /\ api_pc = "wait" => lib \in Running /\ is_start
    /\ api_pc = "destroy" => lib = "stopped"
    /\ api_pc \in {"idle", "request"} => lib \in Running \cup {"none"}
    /\ cb_pc # "idle" => lib \in Running
    /\ cb_pc = "subscribe" => is_ready
    /\ object = "deleted" => api_pc = "idle" /\ lib = "none"
    /\ object \in {"alive", "deleted"}
    /\ api_pc \in {"idle", "request", "started"} \cup Starting \cup Stopping

\* No step of either task separates them.
LEMMA OwnedStep ==
    ASSUME Owned, [Next]_vars
    PROVE  Owned'
<1> USE DEF Owned, Starting, Stopping, Running, At, Destroy, Runs, object_fields, flags
<1>1. CASE New
  BY <1>1 DEF New
<1>2. CASE Delete
  BY <1>2 DEF Delete
<1>3. CASE StartCall
  BY <1>3 DEF StartCall
<1>4. CASE StopCall
  BY <1>4 DEF StopCall
<1>5. ASSUME NEW request \in Requests, Request(request) PROVE Owned'
  BY <1>5 DEF Request
<1>6. CASE Register
  BY <1>6 DEF Register
<1>7. CASE StartClient
  BY <1>7 DEF StartClient
<1>8. CASE Started
  BY <1>8 DEF Started
<1>9. CASE StopWait
  BY <1>9 DEF StopWait
<1>10. CASE StopDone
  BY <1>10 DEF StopDone
<1>11. CASE Requested
  BY <1>11 DEF Requested
<1>12. CASE OnReady
  BY <1>12 DEF OnReady
<1>13. CASE ReadyCallback
  BY <1>13 DEF ReadyCallback
<1>14. CASE OnDisconnect
  BY <1>14 DEF OnDisconnect
<1>15. CASE OnReceiveMsg
  BY <1>15 DEF OnReceiveMsg
<1>16. CASE Connect
  BY <1>16 DEF Connect
<1>17. ASSUME NEW state \in {"connecting", "connected"}, Disconnect(state) PROVE Owned'
  BY <1>17 DEF Disconnect
<1>18. CASE Receive
  BY <1>18 DEF Receive
<1>19. CASE UNCHANGED vars
  BY <1>19 DEF vars
<1>20. QED
  BY <1>1, <1>2, <1>3, <1>4, <1>5, <1>6, <1>7, <1>8, <1>9, <1>10, <1>11, <1>12,
     <1>13, <1>14, <1>15, <1>16, <1>17, <1>18, <1>19
     DEF Next, Api, ApiStep, Callback, Network, AttemptEnds

\* The invariant of the theorems.
LEMMA OwnedAlways == Spec => []Owned
<1>1. Init => Owned
  BY DEF Init, Owned, Starting, Stopping, Running
<1>2. QED
  BY <1>1, OwnedStep, PTL DEF Spec

\* What Owned does not say of the types.
Places ==
    /\ lib \in Running \cup {"none", "created", "stopped"}
    /\ call \in Requests \cup {Idle}
    /\ cb_pc \in {"idle", "ready", "subscribe", "lost", "message"}
    /\ said \in {"", "ok", "not ready", "failed", "failed but accepted", "null handle"}

\* Every variable keeps its type, and a call that has got past its checks has a client.
THEOREM TypeCorrect == Spec => []TypeOK
<1>1. Init => Places /\ auto \in BOOLEAN
  BY DEF Init, Places
<1>2. ASSUME auto \in BOOLEAN, [Next]_vars PROVE (auto \in BOOLEAN)'
  BY <1>2 DEF Next, Api, ApiStep, Callback, Network, AttemptEnds, New, Delete, StartCall,
     StopCall, Request, Register, StartClient, Started, StopWait, StopDone, Requested,
     OnReady, ReadyCallback, OnDisconnect, OnReceiveMsg, Connect, Disconnect, Receive,
     object_fields, vars
<1>3. ASSUME Places, [Next]_vars PROVE Places'
  <2> USE <1>3 DEF Places, Running, Destroy, Runs, object_fields, flags
  <2>1. CASE New
    BY <2>1 DEF New
  <2>2. CASE Delete
    BY <2>2 DEF Delete
  <2>3. CASE StartCall
    BY <2>3 DEF StartCall
  <2>4. CASE StopCall
    BY <2>4 DEF StopCall
  <2>5. ASSUME NEW request \in Requests, Request(request) PROVE Places'
    BY <2>5 DEF Request
  <2>6. CASE Register
    BY <2>6 DEF Register
  <2>7. CASE StartClient
    BY <2>7 DEF StartClient
  <2>8. CASE Started
    BY <2>8 DEF Started
  <2>9. CASE StopWait
    BY <2>9 DEF StopWait
  <2>10. CASE StopDone
    BY <2>10 DEF StopDone
  <2>11. CASE Requested
    BY <2>11 DEF Requested
  <2>12. CASE OnReady
    BY <2>12 DEF OnReady
  <2>13. CASE ReadyCallback
    BY <2>13 DEF ReadyCallback
  <2>14. CASE OnDisconnect
    BY <2>14 DEF OnDisconnect
  <2>15. CASE OnReceiveMsg
    BY <2>15 DEF OnReceiveMsg
  <2>16. CASE Connect
    BY <2>16 DEF Connect
  <2>17. ASSUME NEW state \in {"connecting", "connected"}, Disconnect(state) PROVE Places'
    BY <2>17 DEF Disconnect
  <2>18. CASE Receive
    BY <2>18 DEF Receive
  <2>19. CASE UNCHANGED vars
    BY <2>19 DEF vars
  <2>20. QED
    BY <2>1, <2>2, <2>3, <2>4, <2>5, <2>6, <2>7, <2>8, <2>9, <2>10, <2>11, <2>12,
       <2>13, <2>14, <2>15, <2>16, <2>17, <2>18, <2>19
       DEF Next, Api, ApiStep, Callback, Network, AttemptEnds
<1>4. ASSUME Owned, Places, auto \in BOOLEAN PROVE TypeOK
  <2>1. api_pc \in {"register", "start", "started", "wait", "destroy"} => handle
    BY <1>4 DEF Owned, Starting, Running
  <2>2. api_pc \in {"idle", "register", "start", "started", "request", "wait", "destroy"}
    BY <1>4 DEF Owned, Starting, Stopping
  <2>3. QED
    BY <1>4, <2>1, <2>2 DEF Owned, Places, TypeOK
<1>5. QED
  BY <1>1, <1>2, <1>3, <1>4, OwnedAlways, PTL DEF Spec

\* Between two calls the object holds the library's client exactly while it is started.
THEOREM NoLeak == Spec => []ClientIsOwned
<1>1. Owned => ClientIsOwned
  BY DEF Owned, ClientIsOwned
<1>2. QED
  BY <1>1, OwnedAlways, PTL

\* Every callback has a client and an object, and the ready callback finds them ready.
THEOREM ReadyCallbackIsSafe == Spec => []CallbackHasClient
<1>1. Owned => CallbackHasClient
  BY DEF Owned, CallbackHasClient, Running
<1>2. QED
  BY <1>1, OwnedAlways, PTL

-----------------------------------------------------------------------------
(* The ready flag                                                           *)

\* What the flag and the library's task say of the connection.
Noted ==
    /\ lib = "connected" => is_ready \/ cb_pc = "ready"
    /\ lib = "ended" => ~is_ready \/ cb_pc = "lost"
    /\ cb_pc \in {"ready", "subscribe", "message"} => lib = "connected"
    /\ cb_pc = "lost" => lib \in {"connecting", "ended"}

LEMMA NotedStep ==
    ASSUME Owned, Noted, [Next]_vars
    PROVE  Noted'
<1> USE DEF Noted, Owned, Starting, Stopping, Running, At, Destroy, Runs, object_fields, flags
<1>1. CASE New
  BY <1>1 DEF New
<1>2. CASE Delete
  BY <1>2 DEF Delete
<1>3. CASE StartCall
  BY <1>3 DEF StartCall
<1>4. CASE StopCall
  BY <1>4 DEF StopCall
<1>5. ASSUME NEW request \in Requests, Request(request) PROVE Noted'
  BY <1>5 DEF Request
<1>6. CASE Register
  BY <1>6 DEF Register
<1>7. CASE StartClient
  BY <1>7 DEF StartClient
<1>8. CASE Started
  BY <1>8 DEF Started
<1>9. CASE StopWait
  BY <1>9 DEF StopWait
<1>10. CASE StopDone
  BY <1>10 DEF StopDone
<1>11. CASE Requested
  BY <1>11 DEF Requested
<1>12. CASE OnReady
  BY <1>12 DEF OnReady
<1>13. CASE ReadyCallback
  BY <1>13 DEF ReadyCallback
<1>14. CASE OnDisconnect
  BY <1>14 DEF OnDisconnect
<1>15. CASE OnReceiveMsg
  BY <1>15 DEF OnReceiveMsg
<1>16. CASE Connect
  BY <1>16 DEF Connect
<1>17. ASSUME NEW state \in {"connecting", "connected"}, Disconnect(state) PROVE Noted'
  BY <1>17 DEF Disconnect
<1>18. CASE Receive
  BY <1>18 DEF Receive
<1>19. CASE UNCHANGED vars
  BY <1>19 DEF vars
<1>20. QED
  BY <1>1, <1>2, <1>3, <1>4, <1>5, <1>6, <1>7, <1>8, <1>9, <1>10, <1>11, <1>12,
     <1>13, <1>14, <1>15, <1>16, <1>17, <1>18, <1>19
     DEF Next, Api, ApiStep, Callback, Network, AttemptEnds

\* Between two callbacks is_ready_ is right about a client that is connected and one that
\* has given up.
ReadySettles ==
    cb_pc = "idle" =>
        /\ lib = "connected" => is_ready
        /\ lib = "ended" => ~is_ready

\* An attempt that ends settles the flag, also when a Stop has left it from before: the
\* safety that ReadyFollows rests on.  (While an attempt is under way it may be stale.)
THEOREM ReadyIsNoted == Spec => []ReadySettles
<1>1. Init => Noted
  BY DEF Init, Noted
<1>2. Noted => ReadySettles
  BY DEF Noted, ReadySettles
<1>3. QED
  BY <1>1, <1>2, NotedStep, OwnedAlways, PTL DEF Spec
==============================================================================
