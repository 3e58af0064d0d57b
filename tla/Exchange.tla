------------------------------ MODULE Exchange ------------------------------
(***************************************************************************)
(* One client (client.cpp) and the sessions of a coordinator (server.cpp)  *)
(* that it talks to, one after the other: frames that arrive in parts or   *)
(* never (socket.cpp), connections that break, calls that are repeated     *)
(* over another session, answers that no longer find their client.         *)
(*                                                                         *)
(* Requests travel as module Wire says, sessions and fences are those of   *)
(* module Coordinator.  Of the engine there is its worker authority, the   *)
(* table of attempt ids, and whether a call commits; it lives as long as   *)
(* the specification runs, and the table with it.  What is asked,          *)
(* dispatched and run is numbered by the calls of the client: the numbers  *)
(* and the histories are not in the code.                                  *)
(***************************************************************************)
EXTENDS Coordinator, Wire

CONSTANTS
    Calls,        \* calls of the client's methods
    Contexts,     \* what the caller fills in of a mutation context
    MaxAttempts,  \* size of the table of attempts, max_attempts
    MaxCalls,     \* bound on the calls of the client
    MaxUnread,    \* bound on what failed refreshes leave to be read
    ListSize,     \* size of the answer to list_sets(); a snapshot or explanation has size 1
    MaxResponse   \* largest response that encode_response() and max_frame_bytes admit

NoSessionId == "no_connection"

\* Callers fill valid identities and generations, and "no connection" is no session.
ASSUME ExchangeAssumption ==
    /\ MaxAttempts \in Nat \ {0}
    /\ NoSessionId \notin Sessions
    /\ "" \notin Sessions \cup Publishers \cup Boots
    /\ \A call \in Calls :
           /\ ProperCall(call)
           /\ call.op = "register_publisher" =>
                  /\ <<call.args.publisher, call.args.worker_boot>> \in Workers
                  /\ call.args.scope \subseteq SetIds
    /\ \A context \in Contexts :
           /\ DOMAIN context = {"attempt", "expected_set", "expected_member"}
           /\ context.attempt # ""

VARIABLES
    up,           \* session |-> frames under way to the coordinator
    down,         \* session |-> frames under way to the client
    reading,      \* session |-> how much of a frame its thread has received
    scratch,      \* session |-> the results left in its response
    answer,       \* session |-> the frame its thread is about to send, or NoFrame
    lost,         \* sessions whose connection broke
    client,       \* the connection, what is awaited, and what the client remembers
    asked,        \* history: the calls of the client
    dispatched,   \* history: what became of the last frame at the coordinator
    ran,          \* history: the mutations that were committed
    taken         \* the result that the last call was given

wire          == <<up, down, reading, scratch, answer>>
histories     == <<asked, dispatched, ran>>
exchange_vars == <<server_vars, wire, lost, client, histories, taken>>

NoCall   == 0
Greeting == -1                   \* connect() waits for HELLO_ACK
Refresh  == -2                   \* refresh_epoch() does
NoFrame  == [id |-> "none"]
NoResults == [snapshot |-> NoCall, explanation |-> NoCall, set_ids |-> NoCall]

NewClient == [conn |-> NoSessionId, awaits |-> NoCall, partial |-> FALSE, failed |-> FALSE,
              epoch |-> 0, publisher |-> "", worker_boot |-> ""]

NoResult   == [call |-> NoCall, answers |-> NoCall, code |-> "none", result |-> NoCall]
NoDispatch == [call |-> NoCall]

Unconnected(c) ==
    [c EXCEPT !.conn = NoSessionId, !.awaits = NoCall, !.partial = FALSE, !.failed = FALSE]

ExchangeInit ==
    /\ ServerInit
    /\ up = [x \in Sessions |-> <<>>]
    /\ down = [x \in Sessions |-> <<>>]
    /\ reading = [x \in Sessions |-> "nothing"]
    /\ scratch = [x \in Sessions |-> NoResults]
    /\ answer = [x \in Sessions |-> NoFrame]
    /\ lost = {}
    /\ client = NewClient
    /\ asked = <<>>
    /\ dispatched = NoDispatch
    /\ ran = <<>>
    /\ taken = NoResult

-----------------------------------------------------------------------------
(***************************************************************************)
(* The client.  It has one connection and awaits one answer at a time.     *)
(***************************************************************************)

HelloAck == [id |-> "HELLO_ACK", epoch |-> epoch, results |-> NoResults]

\* connect(): the session announces itself before anything is sent.
Connect(x) ==
    /\ client.conn = NoSessionId
    /\ Accept(x)
    /\ client' = [client EXCEPT !.conn = x, !.awaits = Greeting]
    /\ answer' = [answer EXCEPT ![x] = HelloAck]
    /\ UNCHANGED <<up, down, reading, scratch, lost, histories, taken>>

\* stamp(): the session always, the epoch and the worker as the client knows them.
Stamp(context, c) ==
    With(context, [session |-> c.conn, epoch |-> c.epoch,
                   publisher |-> c.publisher, worker_boot |-> c.worker_boot])

\* The fields that client c has filled when it sends a call.
Sent(call, context, c) ==
    LET request == Request(call)
    IN  CASE request.id \in Queries -> request.fields
          [] request.id = "REGISTER_PUBLISHER" -> With(request.fields, [session |-> c.conn])
          [] OTHER -> With(request.fields, Stamp(context, c))

\* A frame that is sent over a broken connection goes nowhere.
Sending(id, payload, n) ==
    IF client.conn \in lost \/ client.failed \/ phase[client.conn] # "open" THEN up
    ELSE [up EXCEPT ![client.conn] = Append(@, [id |-> id, payload |-> payload, call |-> n])]

Ready == client.conn # NoSessionId /\ client.awaits = NoCall

\* exchange() up to the send.  A call that cannot be encoded is not sent.
Ask(call, context) ==
    LET id     == Request(call).id
        fields == Sent(call, context, client)
        filled == Filled(NewRequest, fields)
        n      == Len(asked) + 1
    IN  /\ Ready /\ n <= MaxCalls
        /\ asked' = Append(asked, [call |-> call, fields |-> fields])
        /\ IF Encodable(id, filled)
           THEN /\ up' = Sending(id, Encoded(id, filled), n)
                /\ client' = [client EXCEPT !.awaits = n]
                /\ taken' = NoResult
           ELSE /\ taken' = [call |-> n, answers |-> n, code |-> "RESOURCE_LIMIT",
                             result |-> NoCall]
                /\ UNCHANGED <<up, client>>
        /\ UNCHANGED <<server_vars, down, reading, scratch, answer, lost, dispatched, ran>>

\* refresh_epoch() up to the send.
AskEpoch ==
    /\ Ready
    /\ Len(down[client.conn]) < MaxUnread
    /\ up' = Sending("HELLO", <<>>, NoCall)
    /\ client' = [client EXCEPT !.awaits = Refresh]
    /\ UNCHANGED <<server_vars, down, reading, scratch, answer, lost, histories, taken>>

Awaiting == client.conn # NoSessionId /\ client.awaits # NoCall
Incoming == down[client.conn]

\* The first bytes of a frame: from here on the frame budget runs.
FirstBytes ==
    /\ Awaiting /\ ~client.partial /\ ~client.failed
    /\ Incoming # <<>>
    /\ client' = [client EXCEPT !.partial = TRUE]
    /\ UNCHANGED <<server_vars, wire, lost, histories, taken>>

\* Mutant: a caller is handed whatever the response carries.
ResultOfAny(n, frame) ==
    CASE asked[n].call.op \in {"query_set", "request_snapshot"} -> frame.results.snapshot
      [] asked[n].call.op = "explain_set" -> frame.results.explanation
      [] asked[n].call.op = "list_sets"   -> frame.results.set_ids
      [] OTHER                            -> NoCall

\* What a caller is handed besides the outcome: nothing without success.
ResultOf(n, frame) ==
    IF frame.code # "OK" THEN NoCall
    ELSE CASE asked[n].call.op \in {"query_set", "request_snapshot"} -> frame.results.snapshot
           [] asked[n].call.op = "explain_set" -> frame.results.explanation
           [] asked[n].call.op = "list_sets"   -> frame.results.set_ids
           [] OTHER                            -> NoCall

\* register_publisher() remembers the worker.
Remembered(n, frame) ==
    IF asked[n].call.op = "register_publisher" /\ frame.code = "OK"
    THEN [client EXCEPT !.awaits = NoCall, !.partial = FALSE,
                        !.publisher = asked[n].fields.publisher,
                        !.worker_boot = asked[n].fields.worker_boot]
    ELSE [client EXCEPT !.awaits = NoCall, !.partial = FALSE]

\* The whole frame: exchange() takes any response for its own, whatever its id
\* and without a sequence number to compare.
TakeAnswer ==
    /\ client.partial /\ client.awaits > 0
    /\ Head(Incoming).id \in {"RESULT", "ERROR"}
    /\ LET frame == Head(Incoming)
           n     == client.awaits
       IN  /\ client' = Remembered(n, frame)
           /\ taken' = [call |-> n, answers |-> frame.call, code |-> frame.code,
                        result |-> ResultOf(n, frame)]
    /\ down' = [down EXCEPT ![client.conn] = Tail(@)]
    /\ UNCHANGED <<server_vars, up, reading, scratch, answer, lost, histories>>

\* read_hello_ack().
TakeEpoch ==
    /\ client.partial /\ client.awaits < 0
    /\ Head(Incoming).id = "HELLO_ACK"
    /\ client' = [client EXCEPT !.awaits = NoCall, !.partial = FALSE,
                                !.epoch = Head(Incoming).epoch]
    /\ down' = [down EXCEPT ![client.conn] = Tail(@)]
    /\ UNCHANGED <<server_vars, up, reading, scratch, answer, lost, histories, taken>>

\* Mutant: the end of the session is not noticed.
PeerClosedNever == FALSE

\* The session has closed its socket and everything it sent was received.
PeerClosed == phase[client.conn] = "done" /\ Incoming = <<>>

\* The socket is closed on what was not read.
Disconnect(clients) ==
    /\ client' \in clients
    /\ down' = [down EXCEPT ![client.conn] = <<>>]
    /\ UNCHANGED <<server_vars, up, reading, scratch, answer, lost, histories, taken>>

\* The read fails: the connection broke or was closed, the frame budget ran out
\* in the middle of a frame, or the frame is not one that can be taken here.
ReadFailure ==
    \/ client.conn \in lost \/ client.failed
    \/ PeerClosed
    \/ client.partial

\* connect() and exchange() close the connection on every failure.
GiveUp ==
    /\ Awaiting /\ ReadFailure
    /\ client.awaits # Refresh
    /\ Disconnect({Unconnected(client)})

\* refresh_epoch() keeps it.  What it left of a frame is read as the header of the
\* next one; a socket that has reported an error receives nothing more.
GiveUpRefresh ==
    /\ Awaiting /\ ReadFailure
    /\ client.awaits = Refresh
    /\ client' = [client EXCEPT !.awaits = NoCall, !.partial = FALSE,
                                !.failed = ~client.partial]
    /\ down' = IF client.partial
               THEN [down EXCEPT ![client.conn] = <<[id |-> "rest"]>> \o Tail(@)]
               ELSE down
    /\ UNCHANGED <<server_vars, up, reading, scratch, answer, lost, histories, taken>>

\* close(), or the process ends and another one takes its place.
CloseClient ==
    /\ client.conn # NoSessionId
    /\ Disconnect({Unconnected(client), NewClient})

\* The connection breaks; what is under way may still arrive, or not.
Break(x) ==
    /\ client.conn = x /\ phase[x] = "open" /\ x \notin lost
    /\ lost' = lost \cup {x}
    /\ UNCHANGED <<server_vars, wire, client, histories, taken>>

-----------------------------------------------------------------------------
(***************************************************************************)
(* A session thread: handle_frame().                                       *)
(***************************************************************************)

\* The thread has nothing to finish before it reads on.
Reading(x) == Idle(x) /\ answer[x] = NoFrame

PeerGone(x) == client.conn # x

\* The next part of a frame arrives.  The header and the payload are received by
\* separate calls of socket_recv_exact().
Arrives(x) ==
    /\ Reading(x) /\ up[x] # <<>>
    /\ \/ reading[x] = "nothing"      /\ reading' = [reading EXCEPT ![x] = "header_part"]
       \/ reading[x] = "header_part"  /\ reading' = [reading EXCEPT ![x] = "header"]
       \/ /\ reading[x] = "header"    /\ Head(up[x]).payload # <<>>
          /\ reading' = [reading EXCEPT ![x] = "payload_part"]
       \/ reading[x] = "payload_part" /\ reading' = [reading EXCEPT ![x] = "frame"]
    /\ UNCHANGED <<server_vars, up, down, scratch, answer, lost, client, histories, taken>>

\* handle_frame() returns false, after an ERROR frame if it could be sent.
Abandon(x, frames) ==
    /\ Leave(x)
    /\ reading' = [reading EXCEPT ![x] = "nothing"]
    /\ down' = [down EXCEPT ![x] = @ \o frames]
    /\ UNCHANGED <<up, scratch, answer, lost, client, histories, taken>>

SizeOf(results) ==
    (IF results.snapshot = NoCall THEN 0 ELSE 1) + (IF results.explanation = NoCall THEN 0 ELSE 1)
    + (IF results.set_ids = NoCall THEN 0 ELSE ListSize)

Fits(frame) == SizeOf(frame.results) <= MaxResponse

\* An ERROR frame carries the response too.
ErrorFrames(x, n, code) ==
    LET frame == [id |-> "ERROR", call |-> n, code |-> code, results |-> scratch[x]]
    IN  IF Fits(frame) /\ ~PeerGone(x) THEN <<frame>> ELSE <<>>

\* The frame budget of socket_recv_exact() runs from the first byte of each call:
\* a peer that has sent a whole header and nothing after it has no budget.
BudgetExpires(x) ==
    /\ Reading(x)
    /\ reading[x] \in {"header_part", "payload_part"}
    /\ Abandon(x, ErrorFrames(x, Head(up[x]).call, "SESSION_TIMEOUT"))

\* Mutant: only a broken connection is noticed.
ReceiveFailsLost(x) ==
    /\ Reading(x)
    /\ x \in lost
    /\ Abandon(x, <<>>)

\* The connection broke, or the peer closed it and all it sent was received.
ReceiveFails(x) ==
    /\ Reading(x)
    /\ x \in lost \/ (PeerGone(x) /\ up[x] = <<>>)
    /\ Abandon(x, <<>>)

\* The frame is complete; one without a payload is complete with its header.
Complete(x) ==
    /\ Reading(x)
    /\ \/ reading[x] = "frame"
       \/ reading[x] = "header" /\ Head(up[x]).payload = <<>>

\* Mutant: the frame is not taken out of the stream.
ConsumedLate(x) ==
    /\ up' = up
    /\ reading' = [reading EXCEPT ![x] = "nothing"]

Consumed(x) ==
    /\ up' = [up EXCEPT ![x] = Tail(@)]
    /\ reading' = [reading EXCEPT ![x] = "nothing"]

\* HELLO is answered without touching the response.
AnswerHello(x) ==
    /\ Complete(x) /\ Head(up[x]).id = "HELLO"
    /\ Consumed(x)
    /\ answer' = [answer EXCEPT ![x] = HelloAck]
    /\ UNCHANGED <<server_vars, down, scratch, lost, client, histories, taken>>

\* What a session made of the call with number n.
Outcome(n, x, call, request) == [call |-> n, session |-> x, as |-> call, request |-> request]

\* A request that cannot be decoded ends the session.
RejectFrame(x) ==
    /\ Complete(x) /\ Head(up[x]).id # "HELLO"
    /\ LET frame == Head(up[x])
       IN  /\ Decoded(frame.id, frame.payload) = Malformed
           /\ dispatched' = Outcome(frame.call, x, Malformed, Malformed)
           /\ down' = [down EXCEPT ![x] =
                           @ \o ErrorFrames(x, frame.call, "MALFORMED_REQUEST")]
    /\ Leave(x)
    /\ Consumed(x)
    /\ UNCHANGED <<scratch, answer, lost, client, asked, ran, taken>>

\* The response to call n: the results of earlier queries are still in it.
Respond(x, n, code, results) ==
    /\ scratch' = [scratch EXCEPT ![x] = results]
    /\ answer' = [answer EXCEPT ![x] =
                      [id |-> "RESULT", call |-> n, code |-> code, results |-> results]]

Rejected(x, n) ==
    /\ Respond(x, n, "REJECTED", scratch[x])
    /\ UNCHANGED <<server_vars, ran>>

\* REGISTER_PUBLISHER; a successful one is bound before it is answered.
DispatchRegister(x, n, r) ==
    LET w == <<r.publisher, r.worker_boot>>
    IN  \/ /\ RegisterAgain(x, w) \/ (AuthorityRoom /\ Register(x, w, r.scope))
           /\ Respond(x, n, "OK", scratch[x])
           /\ UNCHANGED ran
        \/ /\ ~AuthorityRoom
           /\ Register(x, w, r.scope)
           /\ Respond(x, n, "REJECTED", scratch[x])
           /\ UNCHANGED ran
        \/ /\ \/ w \in fences
              \/ ~Registered(w) /\ Cardinality(RegisteredWorkers) >= MaxPublishers
           /\ Rejected(x, n)

\* The results of a query replace those of the last one of its kind.
Results(x, n, call) ==
    CASE call.op \in {"query_set", "request_snapshot"} -> [scratch[x] EXCEPT !.snapshot = n]
      [] call.op = "explain_set" -> [scratch[x] EXCEPT !.explanation = n]
      [] OTHER                   -> [scratch[x] EXCEPT !.set_ids = n]

DispatchQueryOf(x, n, call) ==
    /\ \/ Respond(x, n, "OK", Results(x, n, call))
       \/ call.op # "list_sets" /\ Respond(x, n, "SET_NOT_FOUND", scratch[x])
    /\ UNCHANGED <<server_vars, ran>>

\* Calls whose attempt ids the engine looks up and records: every mutation but the
\* advance of the epoch.
Recognised(call) == call.op # "advance_epoch"

\* Two calls may be one request to the engine: refresh_path() applies the view that
\* Path Authority reports as apply_path_authority() does, and under its name.
SameRequest(a, b) ==
    \/ a = b
    \/ /\ {a.op, b.op} \subseteq {"apply_path_authority", "refresh_path"}
       /\ "refresh_path" \in {a.op, b.op}
       /\ a.args.path_id = b.args.path_id

\* The mutations recorded since the i-th ran.
RecordedSince(i) == {j \in DOMAIN ran : j > i /\ Recognised(ran[j].as)}

\* Mutant: the engine does not look the attempt up.
RecordedNone(r) == {}

\* The recorded mutations under the attempt id of a request: the table keeps the
\* last MaxAttempts.
Recorded(r) ==
    {i \in DOMAIN ran : /\ ran[i].attempt = r.attempt
                        /\ Recognised(ran[i].as)
                        /\ Cardinality(RecordedSince(i)) < MaxAttempts}

\* A request runs and succeeds.
Run(x, n, r, call) ==
    /\ ran' = Append(ran, [call |-> n, session |-> x, attempt |-> r.attempt, as |-> call])
    /\ Respond(x, n, "OK", scratch[x])

\* A mutation: of the session that it names, by a worker with authority, run
\* unless its attempt id is in the table.  The engine may have its own reasons to
\* refuse.
DispatchMutation(x, n, r, call) ==
    LET w == <<r.publisher, r.worker_boot>>
    IN  \/ Rejected(x, n)
        \/ /\ r.session = x /\ w \in Workers /\ Authorized(w, r.epoch)
           /\ \/ /\ \E i \in Recorded(r) : SameRequest(ran[i].as, call)
                 /\ Respond(x, n, "OK", scratch[x])
                 /\ UNCHANGED ran
              \/ Recorded(r) = {} /\ Run(x, n, r, call)
           /\ UNCHANGED server_vars

\* EPOCH_ADVANCE: what counts is the epoch that the call expects, not the one that
\* the client stamped and not the attempt id.
DispatchEpochAdvance(x, n, r, call) ==
    \/ Rejected(x, n)
    \/ /\ r.session = x /\ <<r.publisher, r.worker_boot>> \in Workers
       /\ call.args.expected_epoch = epoch
       /\ RequestEpoch(x, <<r.publisher, r.worker_boot>>)
       /\ Run(x, n, r, call)

\* dispatch().
DispatchFrame(x) ==
    /\ Complete(x) /\ Head(up[x]).id # "HELLO"
    /\ LET frame   == Head(up[x])
           request == Decoded(frame.id, frame.payload)
           call    == Dispatched(frame.id, request)
       IN  /\ request # Malformed
           /\ dispatched' = Outcome(frame.call, x, call, request)
           /\ CASE frame.id = "REGISTER_PUBLISHER" -> DispatchRegister(x, frame.call, request)
                [] frame.id \in Queries -> DispatchQueryOf(x, frame.call, call)
                [] frame.id = "EPOCH_ADVANCE" -> DispatchEpochAdvance(x, frame.call, request, call)
                [] OTHER -> DispatchMutation(x, frame.call, request, call)
    /\ Consumed(x)
    /\ UNCHANGED <<down, lost, client, asked, taken>>

\* The second half of a registration.
BindWorker(x) ==
    /\ Bind(x)
    /\ UNCHANGED <<wire, lost, client, histories, taken>>

Send(x) ==
    /\ answer[x] # NoFrame /\ granted[x] = NoWorker
    /\ Fits(answer[x]) /\ ~PeerGone(x)
    /\ down' = [down EXCEPT ![x] = Append(@, answer[x])]
    /\ answer' = [answer EXCEPT ![x] = NoFrame]
    /\ UNCHANGED <<server_vars, up, reading, scratch, lost, client, histories, taken>>

\* A response that cannot be encoded, or whose peer is gone, ends the session.
SendFails(x) ==
    /\ answer[x] # NoFrame
    /\ x \in lost \/ PeerGone(x) \/ ~Fits(answer[x])
    /\ Leave(x)
    /\ answer' = [answer EXCEPT ![x] = NoFrame]
    /\ UNCHANGED <<up, down, reading, scratch, lost, client, histories, taken>>

\* end_session(): the fence, then the socket is closed on what it did not receive.
EndOfSession(x) ==
    /\ EndSession(x)
    /\ up' = [up EXCEPT ![x] = <<>>]
    /\ scratch' = [scratch EXCEPT ![x] = NoResults]
    /\ UNCHANGED <<down, reading, answer, lost, client, histories, taken>>

ClientNext ==
    \/ \E call \in Calls, context \in Contexts : Ask(call, context)
    \/ AskEpoch \/ FirstBytes \/ TakeAnswer \/ TakeEpoch
    \/ GiveUp \/ GiveUpRefresh \/ CloseClient

SessionNext(x) ==
    \/ Arrives(x) \/ BudgetExpires(x) \/ ReceiveFails(x)
    \/ AnswerHello(x) \/ RejectFrame(x) \/ DispatchFrame(x)
    \/ BindWorker(x) \/ Send(x) \/ SendFails(x) \/ EndOfSession(x)

ExchangeNext ==
    \/ ClientNext
    \/ \E x \in Sessions : Connect(x) \/ Break(x) \/ SessionNext(x)

\* The threads of both processes are scheduled and sockets report what they know.
ThreadFairness ==
    /\ WF_exchange_vars(FirstBytes)
    /\ WF_exchange_vars(TakeAnswer \/ TakeEpoch)
    /\ WF_exchange_vars(GiveUp \/ GiveUpRefresh)
    /\ \A x \in Sessions :
           /\ WF_exchange_vars(BudgetExpires(x))
           /\ WF_exchange_vars(ReceiveFails(x))
           /\ WF_exchange_vars(AnswerHello(x) \/ RejectFrame(x) \/ DispatchFrame(x))
           /\ WF_exchange_vars(BindWorker(x) \/ Send(x) \/ SendFails(x))
           /\ WF_exchange_vars(EndOfSession(x))

\* The network delivers what was sent, unless the connection breaks.
Delivery == \A x \in Sessions : WF_exchange_vars(Arrives(x))

ExchangeSpec == ExchangeInit /\ [][ExchangeNext]_exchange_vars /\ ThreadFairness /\ Delivery
-----------------------------------------------------------------------------
\* Frames that the client has sent to session x, or that x will answer it with.
UnderWay(x) ==
    (IF phase[x] = "open" THEN Len(up[x]) ELSE 0) + (IF answer[x] = NoFrame THEN 0 ELSE 1)
    + Len(down[x])

\* A refresh has failed on connection x, which stays open.
OutOfStep(x) == client.failed \/ (down[x] # <<>> /\ down[x][1].id = "rest")

\* Type invariant of the exchange: what a session and a client are doing agrees with
\* what each has received, and until a refresh fails the connection carries one
\* request or one answer at most.
ExchangeTypeOK ==
    /\ client.conn \in Sessions \cup {NoSessionId}
    /\ client.awaits \in {Greeting, Refresh} \cup 0 .. Len(asked)
    /\ client.partial => client.conn \in Sessions /\ Incoming # <<>>
    /\ client.conn \in Sessions /\ ~OutOfStep(client.conn) => UnderWay(client.conn) <= 1
    /\ \A x \in Sessions :
           /\ reading[x] \in {"nothing", "header_part", "header", "payload_part", "frame"}
           /\ reading[x] # "nothing" => up[x] # <<>> /\ phase[x] = "open"
           /\ answer[x] # NoFrame => phase[x] = "open"

\* "Only the fields meaningful for the message id are encoded or decoded": the
\* engine is asked to run exactly the call that the client was asked to make, with
\* the context that the client stamped, and on the session that sent it.  Only
\* two requests are found malformed: a mutation of a client that never registered,
\* and SUPERSEDE_SET, which is encoded without its successor.
DispatchedAsAsked ==
    dispatched # NoDispatch =>
        LET a == asked[dispatched.call]
        IN  \/ /\ dispatched.as = a.call
               /\ \A f \in DOMAIN a.fields : dispatched.request[f] = a.fields[f]
            \/ /\ dispatched.as = Malformed
               /\ \/ "publisher" \in DOMAIN a.fields /\ a.fields.publisher = ""
                  \/ a.call.op = "supersede_set"

\* Every answer that a caller is given is the answer to its own call, although
\* frames carry no sequence number, and what a query hands out was read for it,
\* although a session never clears its response.
AnswersAreOwn ==
    taken.answers = taken.call /\ taken.result \in {NoCall, taken.call}

\* A call that is repeated, over whatever sessions, and whichever of its answers were
\* lost, runs again only when max_attempts others have pushed its attempt out of the
\* table; the epoch, which no attempt id protects, ends once.  And a caller that was
\* told OK is right: its request ran under its attempt id, an advance of the epoch
\* for this very call.
RunsOnce ==
    /\ \A i, j \in DOMAIN ran :
           /\ Recognised(ran[i].as) /\ Recognised(ran[j].as)
           /\ ran[i].attempt = ran[j].attempt
           /\ i < j
           => Cardinality({k \in RecordedSince(i) : k < j}) >= MaxAttempts
    /\ \A i, j \in DOMAIN ran :
           ~Recognised(ran[i].as) /\ ran[i].as = ran[j].as => i = j
    /\ taken.code = "OK" /\ "attempt" \in DOMAIN asked[taken.call].fields =>
           \E i \in DOMAIN ran :
               /\ SameRequest(ran[i].as, asked[taken.call].call)
               /\ ran[i].attempt = asked[taken.call].fields.attempt
               /\ Recognised(ran[i].as) \/ ran[i].call = taken.call

\* Every call returns, with its answer or with the failure of its connection.
CallsReturn == client.awaits # NoCall ~> client.awaits = NoCall

\* "Real worker death becomes a permanent fence": the session of a client that is
\* gone ends, whatever it was in the middle of.
GoneClientsAreFenced ==
    \A x \in Sessions :
        (phase[x] = "open" /\ PeerGone(x)) ~>
            /\ phase[x] = "done"
            /\ AuthorityRoom /\ bound[x] # NoWorker => bound[x] \in fences
=============================================================================
