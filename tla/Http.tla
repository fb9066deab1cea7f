--------------------------------- MODULE Http ---------------------------------
(***************************************************************************)
(* main/core/util/http_*.cc: HttpClient::DoRequest, which collects the      *)
(* response in a buffer that grows, and HttpDownload::DoDownload, which     *)
(* reads a response piece by piece into the buffer of its object and hands  *)
(* each piece to a callback.  Both take their connection from the pool of   *)
(* esp_http_client, which is external: any of its calls may fail, and a     *)
(* read returns at most what is left of the content.                        *)
(*                                                                         *)
(* One task makes requests, others download; each call runs on its task.    *)
(* Of data only lengths are kept, and whose piece a buffer holds.           *)
(***************************************************************************)
EXTENDS Integers, FiniteSets

CONSTANTS Requester, Downloaders,  \* tasks
          Objects, Object,         \* [Downloaders -> its HttpDownload]
          Handles, NULL,           \* connections of the library
          DEFAULT_DATA_SIZE,
          HTTP_DOWNLOAD_BUFFER_SIZE,
          MaxBody, MaxContent      \* lengths in this model

ASSUME TaskAssumption == Requester \notin Downloaders /\ Object \in [Downloaders -> Objects]
ASSUME HandleAssumption == NULL \notin Handles /\ NULL \notin Downloaders
ASSUME SizeAssumption ==
    /\ DEFAULT_DATA_SIZE \in Nat \ {0} /\ HTTP_DOWNLOAD_BUFFER_SIZE \in Nat \ {0}
    /\ MaxBody \in Nat /\ MaxContent \in Nat

Tasks == {Requester} \cup Downloaders

VARIABLES
    clients,         \* handles that are initialised and not cleaned up
    pc, handle,      \* of each task
    request,         \* request_data_ is not empty; raw_request_data_ is not null
    response,        \* HttpResponse
    dl,              \* the locals of each DoDownload, and the result of the last one
    buffer,          \* buffer_ of each object: whose piece it holds
    sent,            \* history: what the last request sent as its body
    got,             \* history: the bytes that the server sent for this response
    given,           \* history: the bytes of this download that its callback has seen
    leaked           \* history: handles that no task knows any more

library == <<clients, handle, leaked>>
requesting == <<request, response, sent, got>>
downloading == <<dl, buffer, given>>
vars == <<library, pc, requesting, downloading>>

\* size is response_data_.size(), current is current_size_; the bytes from dirty on
\* are 0.  set: SetResponseData has been called.
NoResponse ==
    [size |-> 0, current |-> 0, dirty |-> 0, has |-> FALSE, set |-> FALSE,
     outcome |-> "none", down |-> FALSE]

NoDownload ==
    [content |-> 0, total |-> 0, len |-> 0, callback |-> FALSE, success |-> FALSE,
     result |-> "none"]

Responses ==
    [size : Nat, current : Nat, dirty : Nat, has : BOOLEAN, set : BOOLEAN,
     outcome : {"none", "code", "error"}, down : BOOLEAN]

Downloads ==
    [content : Nat, total : Nat, len : Nat, callback : BOOLEAN, success : BOOLEAN,
     result : {"none", "true", "false", "undefined"}]

\* Every variable has its type.
TypeOK ==
    /\ clients \subseteq Handles /\ leaked \subseteq Handles
    /\ handle \in [Tasks -> Handles \cup {NULL}]
    /\ pc \in [Tasks -> {"idle", "perform", "cleanup", "open", "headers", "read",
                         "again", "callback", "close"}]
    /\ request \in [body : BOOLEAN, raw : BOOLEAN]
    /\ response \in Responses
    /\ dl \in [Downloaders -> Downloads]
    /\ buffer \in [Objects -> Downloaders \cup {NULL}]
    /\ sent \in {"nothing", "body", "raw"}
    /\ got \in Nat
    /\ given \in [Downloaders -> Nat]

Init ==
    /\ clients = {} /\ leaked = {}
    /\ handle = [t \in Tasks |-> NULL]
    /\ pc = [t \in Tasks |-> "idle"]
    /\ request = [body |-> FALSE, raw |-> FALSE]
    /\ response = NoResponse
    /\ dl = [d \in Downloaders |-> NoDownload]
    /\ buffer = [o \in Objects |-> NULL]
    /\ sent = "nothing" /\ got = 0
    /\ given = [d \in Downloaders |-> 0]

-----------------------------------------------------------------------------
(* esp_http_client_init and esp_http_client_cleanup                         *)

Goto(t, place) == pc' = [pc EXCEPT ![t] = place]

Take(t, h) ==
    /\ h \in Handles \ clients
    /\ clients' = clients \cup {h}
    /\ handle' = [handle EXCEPT ![t] = h]

Cleanup(t) ==
    /\ clients' = clients \ {handle[t]}
    /\ handle' = [handle EXCEPT ![t] = NULL]

-----------------------------------------------------------------------------
(* HttpRequest, HttpClient::DoRequest and HttpResponse                      *)

Requesting(place) == pc[Requester] = place

\* SetRequestBody and SetRawRequestBody, with data or without.
SetBody ==
    /\ Requesting("idle")
    /\ request' \in [body : BOOLEAN, raw : BOOLEAN]
    /\ UNCHANGED <<library, pc, response, sent, got, downloading>>

\* A response that knows neither a code nor an error.
RequestInitFails ==
    /\ Requesting("idle")
    /\ response' = NoResponse /\ got' = 0
    /\ UNCHANGED <<library, pc, request, sent, downloading>>

\* ReleaseGetRequestBody takes the body out of the request; raw data stay in it.
DoRequest(h) ==
    /\ Requesting("idle")
    /\ Take(Requester, h)
    /\ response' = NoResponse /\ got' = 0
    /\ sent' = CASE request.body -> "body"
                 [] ~request.body /\ request.raw -> "raw"
                 [] OTHER -> "nothing"
    /\ request' = [request EXCEPT !.body = FALSE]
    /\ Goto(Requester, "perform")
    /\ UNCHANGED <<leaked, downloading>>

\* (mutant) The room for a terminating 0 is forgotten when a large piece comes.
Added_Exact(n) == IF n >= DEFAULT_DATA_SIZE THEN n ELSE DEFAULT_DATA_SIZE

\* new_add_size
Added(n) == IF n >= DEFAULT_DATA_SIZE THEN n + 1 ELSE DEFAULT_DATA_SIZE

\* AppendResponseData, called by HttpEventHandler for HTTP_EVENT_ON_DATA.
Append(n) ==
    /\ Requesting("perform")
    /\ got + n <= MaxBody
    /\ LET end == response.current + n
           size == IF end >= response.size THEN response.size + Added(n) ELSE response.size
       IN  response' = [response EXCEPT !.has = TRUE, !.size = size, !.current = end,
                                        !.dirty = IF end > @ THEN end ELSE @]
    /\ got' = got + n
    /\ UNCHANGED <<library, pc, request, sent, downloading>>

\* esp_http_client_perform returns; on an error it may have disconnected.
PerformEnds ==
    /\ Requesting("perform")
    /\ \E outcome \in {"code", "error"}, down \in BOOLEAN :
           response' = [response EXCEPT !.outcome = outcome, !.down = down]
    /\ Goto(Requester, "cleanup")
    /\ UNCHANGED <<library, request, sent, got, downloading>>

\* ~EspHttpClient disconnects, while response is still held.
RequestEnds ==
    /\ Requesting("cleanup")
    /\ Cleanup(Requester)
    /\ response' = [response EXCEPT !.down = TRUE]
    /\ Goto(Requester, "idle")
    /\ UNCHANGED <<leaked, request, sent, got, downloading>>

\* SetResponseData and ReleaseReponseData swap the buffer with a vector of the caller.
SwapData(n, has) ==
    /\ Requesting("idle")
    /\ response' = [response EXCEPT !.size = n, !.dirty = n, !.current = 0,
                                    !.has = has, !.set = @ \/ has]
    /\ UNCHANGED <<library, pc, request, sent, got, downloading>>

-----------------------------------------------------------------------------
(* HttpDownload::DoDownload                                                 *)

Returns(d, result) ==
    /\ Goto(d, "idle")
    /\ dl' = [dl EXCEPT ![d].result = result]

\* The handle goes with the locals.
Forget(d) ==
    /\ leaked' = leaked \cup {handle[d]}
    /\ handle' = [handle EXCEPT ![d] = NULL]
    /\ UNCHANGED clients

\* esp_http_client_init; its result is not looked at.
DoDownload(d, callback) ==
    /\ pc[d] = "idle"
    /\ \/ \E h \in Handles : Take(d, h)
       \/ UNCHANGED <<clients, handle>>
    /\ dl' = [dl EXCEPT ![d] = [NoDownload EXCEPT !.callback = callback, !.success = TRUE]]
    /\ given' = [given EXCEPT ![d] = 0]
    /\ Goto(d, "open")
    /\ UNCHANGED <<leaked, requesting, buffer>>

\* esp_http_client_open of no client.
OpenNull(d) ==
    /\ pc[d] = "open" /\ handle[d] = NULL
    /\ Returns(d, "undefined")
    /\ UNCHANGED <<library, requesting, buffer, given>>

Open(d) ==
    /\ pc[d] = "open" /\ handle[d] # NULL
    /\ Goto(d, "headers")
    /\ UNCHANGED <<library, requesting, downloading>>

OpenFails(d) ==
    /\ pc[d] = "open" /\ handle[d] # NULL
    /\ Returns(d, "false") /\ Forget(d)
    /\ UNCHANGED <<requesting, buffer, given>>

\* No content length, also for a chunked response.
HeadersFail(d) ==
    /\ pc[d] = "headers"
    /\ Returns(d, "false") /\ Forget(d)
    /\ UNCHANGED <<requesting, buffer, given>>

FetchHeaders(d, n) ==
    /\ pc[d] = "headers"
    /\ dl' = [dl EXCEPT ![d].content = n]
    /\ Goto(d, "read")
    /\ UNCHANGED <<library, requesting, buffer, given>>

\* buffer_.resize
BufferLength == HTTP_DOWNLOAD_BUFFER_SIZE + 1

Left(d) == dl[d].content - dl[d].total
Pieces(d) == {n \in 0 .. HTTP_DOWNLOAD_BUFFER_SIZE : n <= Left(d)}

\* The condition of the loop, when n more bytes have been read.
Loop(d, n) == IF Left(d) > n THEN "read" ELSE "close"

\* A piece, and a 0 behind it.
Read(d, n) ==
    /\ pc[d] = "read" /\ n \in Pieces(d) \ {0}
    /\ buffer' = [buffer EXCEPT ![Object[d]] = d]
    /\ dl' = [dl EXCEPT ![d].total = @ + n, ![d].len = n]
    /\ Goto(d, IF dl[d].callback THEN "callback" ELSE Loop(d, n))
    /\ UNCHANGED <<library, requesting, given>>

\* The read times out, or the server has gone: the loop goes round.
ReadNothing(d) ==
    /\ pc[d] = "read"
    /\ buffer' = [buffer EXCEPT ![Object[d]] = d]
    /\ dl' = [dl EXCEPT ![d].len = 0]
    /\ Goto(d, "again")
    /\ UNCHANGED <<library, requesting, given>>

Again(d) ==
    /\ pc[d] = "again"
    /\ Goto(d, "read")
    /\ UNCHANGED <<library, requesting, downloading>>

\* (mutant) The loop is not left.
ReadFails_GoesOn(d) ==
    /\ pc[d] = "read"
    /\ dl' = [dl EXCEPT ![d].success = FALSE]
    /\ Goto(d, "again")
    /\ UNCHANGED <<library, requesting, buffer, given>>

ReadFails(d) ==
    /\ pc[d] = "read"
    /\ dl' = [dl EXCEPT ![d].success = FALSE]
    /\ Goto(d, "close")
    /\ UNCHANGED <<library, requesting, buffer, given>>

\* (mutant) A callback that has had enough ends the call at once.
Callback_Leaves(d, go_on) ==
    /\ pc[d] = "callback"
    /\ given' = [given EXCEPT ![d] = @ + dl[d].len]
    /\ IF go_on
       THEN Goto(d, Loop(d, 0)) /\ UNCHANGED <<library, dl>>
       ELSE Returns(d, "false") /\ handle' = [handle EXCEPT ![d] = NULL]
              /\ UNCHANGED <<clients, leaked>>
    /\ UNCHANGED <<requesting, buffer>>

\* The callback sees what is in the buffer now.
Callback(d, go_on) ==
    /\ pc[d] = "callback"
    /\ given' = [given EXCEPT ![d] = IF buffer[Object[d]] = d THEN @ + dl[d].len ELSE @]
    /\ dl' = [dl EXCEPT ![d].success = go_on]
    /\ Goto(d, IF go_on THEN Loop(d, 0) ELSE "close")
    /\ UNCHANGED <<library, requesting, buffer>>

\* (mutant) It is a success to have left the loop.
DownloadEnds_Success(d) ==
    /\ pc[d] = "close"
    /\ Cleanup(d)
    /\ Returns(d, "true")
    /\ UNCHANGED <<leaked, requesting, buffer, given>>

\* esp_http_client_close and esp_http_client_cleanup
DownloadEnds(d) ==
    /\ pc[d] = "close"
    /\ Cleanup(d)
    /\ Returns(d, IF dl[d].success THEN "true" ELSE "false")
    /\ UNCHANGED <<leaked, requesting, buffer, given>>

-----------------------------------------------------------------------------
RequestStep == PerformEnds \/ RequestEnds

Request ==
    \/ SetBody \/ RequestInitFails
    \/ \E h \in Handles : DoRequest(h)
    \/ \E n \in 0 .. MaxBody : Append(n)
    \/ \E n \in {0, MaxBody}, has \in BOOLEAN : SwapData(n, has)

DownloadStep(d) ==
    \/ OpenNull(d) \/ Open(d) \/ OpenFails(d) \/ HeadersFail(d)
    \/ \E n \in 1 .. MaxContent : FetchHeaders(d, n) \/ Read(d, n)
    \/ ReadNothing(d) \/ Again(d) \/ ReadFails(d)
    \/ \E go_on \in BOOLEAN : Callback(d, go_on)
    \/ DownloadEnds(d)

Next ==
    \/ Request \/ RequestStep
    \/ \E d \in Downloaders :
          \/ \E callback \in BOOLEAN : DoDownload(d, callback)
          \/ DownloadStep(d)

Spec == Init /\ [][Next]_vars

\* Calls of the library return, and callbacks do.
FairSpec == Spec /\ WF_vars(RequestStep) /\ \A d \in Downloaders : WF_vars(DownloadStep(d))

-----------------------------------------------------------------------------
(* Properties                                                               *)

\* Whatever pieces a body comes in, the buffer holds all of it and is longer, and a 0
\* follows: RawResponseData is a string.
BodyIsString ==
    response.has /\ ~response.set =>
        /\ response.current = got
        /\ response.dirty = got
        /\ got < response.size

\* Every client of the library belongs to one call under way, or has been lost where
\* DoDownload returns before its loop: no other error, no callback that has enough,
\* loses one, and none is cleaned up twice.
ClientsAreOwned ==
    /\ clients = leaked \cup ({handle[t] : t \in Tasks} \ {NULL})
    /\ \A t, u \in Tasks : handle[t] # NULL =>
          handle[t] \notin leaked /\ (handle[t] = handle[u] => t = u)
    /\ \A t \in Tasks : pc[t] = "idle" => handle[t] = NULL

\* DoDownload returns true only when the callback has seen every byte of the content, once,
\* as long as no other task uses its object; and the 0 behind a piece is in the buffer.
DownloadIsWhole ==
    \A d \in Downloaders :
        /\ dl[d].result = "true" =>
              /\ dl[d].total = dl[d].content
              /\ dl[d].callback => given[d] = dl[d].content
        /\ dl[d].len < BufferLength /\ dl[d].total <= dl[d].content

\* A download ends unless reads of nothing keep coming.
DownloadsEnd ==
    \A d \in Downloaders :
        <>[][~ReadNothing(d)]_vars => (pc[d] # "idle" ~> pc[d] = "idle")

-----------------------------------------------------------------------------
(* What this code does not keep: checked on its own, each is violated        *)

\* Every path of DoDownload releases its client.
NothingLeaks == leaked = {}

\* esp_http_client_open gets a client.
ClientIsChecked == \A d \in Downloaders : dl[d].result # "undefined"

\* A request that is repeated after an error sends its body again.
RetrySendsBody ==
    [][\A h \in Handles :
           DoRequest(h) /\ response.outcome = "error" /\ sent = "body" => sent' = "body"]_vars

\* A response that has a body gives it to ReleaseReponseData.
SetIsReleased ==
    response.set /\ response.has /\ response.size > 0 => response.current > 0

\* A download ends, also when the server closes the connection early.
AlwaysEnds == \A d \in Downloaders : pc[d] # "idle" ~> pc[d] = "idle"
=============================================================================
