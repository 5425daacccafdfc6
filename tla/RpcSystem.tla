------------------------------ MODULE RpcSystem -----------------------------
(***************************************************************************)
(* The client and the server of rpc/test.cpp, which call each other, as    *)
(* two processes joined by connections that may break: main() of the       *)
(* client makes the calls of Script; request_something_from_me() calls     *)
(* say_good_bye() of the client before it returns; say_good_bye() calls    *)
(* echo_v1() and answers when that is answered.  The test runs both in one *)
(* process, which is one of the ways these two may be scheduled.           *)
(*                                                                         *)
(* Every action is one of Client or one of Server, together with what it   *)
(* takes from the streams between them and writes to them.  Both sides     *)
(* declare the same protocols, so hellos are accepted; methods do not      *)
(* throw, nor does the factory; nobody calls reconnect().  say_good_bye()  *)
(* answers under an on_data() of the client and never in another callback. *)
(* The client then uses one handle after the other, and one timer (see     *)
(* SingleAttempt of Client).                                               *)
(***************************************************************************)
EXTENDS Naturals, Sequences, FiniteSets, Functions

CONSTANTS
    Script,        \* the methods that main() calls
    MaxFaults,     \* bound on what goes wrong
    H, T, None     \* the handle, the timer, nullptr

Say == "say_hello_world_v1"
Request == "request_something_from_me"
Echo == "echo_v1"

Connection == 1 .. MaxFaults + 1

ASSUME SystemAssumption ==
    /\ Script \in Seq({Say, Request})
    /\ MaxFaults \in Nat
    /\ None \notin {H, T} \cup Connection

VARIABLES
    \* of the client
    handle, sock, is_open, is_connected, handshake_finished, hellos, asked,
    is_active, n_failures, timer, armed, wait, next_message_id,
    pending_messages, promises, sent, resolutions, threw, aborted,
    \* of the server
    s_listener, s_handle, s_clients, s_is_open, s_is_connected,
    s_handshake_finished, s_established, s_reading, s_started, s_running,
    s_replies, s_next_message_id, s_asked, s_promises, s_answers, s_aborted,
    \* of what is between them
    link,          \* connections made so far; the last one is that of *sock
    up, down,      \* what is on its way to the server, and to the client
    faults,
    stale,         \* is the socket file there without a server that made it?
    \* of the application
    calls,         \* calls of the client: the method, and whom it is made for
    called,        \* requests whose method has called the client
    executed       \* history: requests in the order their methods ran

(* One echo_v1() for every request_something_from_me(). *)
Requests == Cardinality({i \in 1 .. Len(Script) : Script[i] = Request})
MaxCalls == Len(Script) + Requests

C == INSTANCE Client WITH
    Conn <- {H}, Timer <- {T}, MayReject <- FALSE, MayReconnect <- FALSE,
    MayThrowForeign <- FALSE, MayAnswerLate <- FALSE, owed <- {}

S == INSTANCE Server WITH
    Conn <- Connection, Request <- 0 .. MaxCalls - 1, MaxCalls <- Requests,
    Async <- FALSE, MayThrowForeign <- FALSE, FactoryMayThrow <- FALSE,
    listener <- s_listener, handle <- s_handle, clients <- s_clients,
    is_open <- s_is_open, is_connected <- s_is_connected,
    handshake_finished <- s_handshake_finished, established <- s_established,
    reading <- s_reading, started <- s_started, running <- s_running,
    replies <- s_replies, next_message_id <- s_next_message_id,
    asked <- s_asked, promises <- s_promises, answers <- s_answers,
    aborted <- s_aborted

Call == C!Call             \* of the client
Callback == S!Call         \* to the client, on one connection

clientVars == <<handle, sock, is_open, is_connected, handshake_finished, hellos, asked,
    is_active, n_failures, timer, armed, wait, next_message_id, pending_messages,
    promises, sent, resolutions, threw, aborted>>
serverVars == <<s_listener, s_handle, s_clients, s_is_open, s_is_connected,
    s_handshake_finished, s_established, s_reading, s_started, s_running, s_replies,
    s_next_message_id, s_asked, s_promises, s_answers, s_aborted>>
appVars == <<calls, called, executed>>
netVars == <<link, up, down, faults, stale>>
vars == <<clientVars, serverVars, netVars, appVars>>

(***************************************************************************)
(* Streams and messages                                                    *)
(***************************************************************************)
Hello == <<"hello">>
CallOf(k) == <<"call", k>>
AnswerTo(k) == <<"answer", k>>

Arrives(stream, c, m) == c \in Connection /\ stream[c] # <<>> /\ Head(stream[c]) = m
Taken(stream, c) == [stream EXCEPT ![c] = Tail(@)]
Put(stream, c, m) == [stream EXCEPT ![c] = Append(@, m)]

(* Fault: the calls that waited longest are written last. *)
LatestFirst(q) == [i \in 1 .. Len(q) |-> CallOf(q[Len(q) + 1 - i])]

(* Fault: the first of the calls that waited is skipped. *)
FirstSkipped(q) == [i \in 1 .. Len(q) - 1 |-> CallOf(q[i + 1])]

(* The calls that waited, as they are written. *)
Flushed(q) == [i \in 1 .. Len(q) |-> CallOf(q[i])]

(* Fault: the number of the caller's own call is used. *)
OwnNumber(k) == k

(* say_good_bye() replies to the call it was made by. *)
ReplyNumber(k) == calls[k + 1].for[2]

(* Who has closed its end, or never will accept the connection. *)
ClientGone(c) == c < link \/ handle[H] # "up"
ServerGone(c) == \/ s_handle[c] \in {"closing", "closed"}
                 \/ s_handle[c] = "new" /\ s_listener # "on"

Fault == faults < MaxFaults /\ faults' = faults + 1

(* A connection ends by itself or because the other side ended it. *)
Ends(gone) == Fault \/ (gone /\ UNCHANGED faults)

Init ==
    /\ C!Init /\ S!Init
    /\ link = 0 /\ faults = 0 /\ stale = FALSE
    /\ up = [c \in Connection |-> <<>>] /\ down = [c \in Connection |-> <<>>]
    /\ calls = <<>> /\ called = {} /\ executed = <<>>

(***************************************************************************)
(* The client                                                              *)
(***************************************************************************)
Connect ==
    /\ s_listener = "on"
    /\ C!OnConnect(H)
    /\ link' = link + 1
    /\ up' = [up EXCEPT ![link'] = <<Hello>>]
    /\ UNCHANGED <<serverVars, down, faults, stale, appVars>>

FailToConnect ==
    /\ handle[H] = "connecting" /\ C!OnError /\ Fault
    /\ UNCHANGED <<serverVars, link, up, down, stale, appVars>>

LoseServer ==
    /\ C!OnEnd /\ Ends(ServerGone(link))
    /\ UNCHANGED <<serverVars, link, up, down, stale, appVars>>

Redial ==
    /\ C!OnClose(H) \/ C!OnTimer(T)
    /\ UNCHANGED <<serverVars, netVars, appVars>>

(* The calls that waited are written. *)
TakeHello ==
    /\ Arrives(down, link, Hello) /\ C!OnHandshake
    /\ down' = Taken(down, link)
    /\ up' = [up EXCEPT ![link] = @ \o Flushed(pending_messages)]
    /\ UNCHANGED <<serverVars, link, faults, stale, appVars>>

(* invoke() for somebody, on *sock if it can be written. *)
Invoke(method, for) ==
    /\ C!Invoke
    /\ calls' = Append(calls, [method |-> method, for |-> for])
    /\ up' = IF sent' = sent THEN up
             ELSE Put(up, link, CallOf(next_message_id))

MainCalls ==
    LET n == Cardinality({i \in 1 .. Len(calls) : calls[i].method # Echo}) IN
    /\ n < Len(Script)
    /\ Invoke(Script[n + 1], <<>>)
    /\ UNCHANGED <<serverVars, link, down, faults, stale, called, executed>>

(* say_good_bye() *)
TakeCall(n) ==
    /\ Arrives(down, link, CallOf(n)) /\ C!Receiving /\ handshake_finished
    /\ down' = Taken(down, link)
    /\ Invoke(Echo, <<link, n>>)
    /\ UNCHANGED <<serverVars, link, faults, stale, called, executed>>

(* The continuation of echo_v1() settles that of say_good_bye(), which     *)
(* replies on the socket that asked and throws if it is not connected.     *)
TakeAnswer(k) ==
    LET for == calls[k + 1].for IN
    /\ Arrives(down, link, AnswerTo(k)) /\ C!OnResponse(k)
    /\ is_open' <=> (for = <<>> \/ for[1] = link)
    /\ down' = Taken(down, link)
    /\ up' = IF for = <<>> \/ ~is_open' THEN up
             ELSE Put(up, link, AnswerTo(ReplyNumber(k)))
    /\ UNCHANGED <<serverVars, link, faults, stale, appVars>>

(* A signal to the client. *)
StopClient ==
    /\ Fault /\ is_active /\ C!Stop
    /\ UNCHANGED <<serverVars, link, up, down, stale, appVars>>

(***************************************************************************)
(* The server                                                              *)
(***************************************************************************)
Accept(c) ==
    /\ c <= link /\ S!OnListen(c)
    /\ UNCHANGED <<clientVars, netVars, appVars>>

LoseClient(c) ==
    /\ S!OnEndOrError(c) /\ Ends(ClientGone(c))
    /\ UNCHANGED <<clientVars, link, up, down, stale, appVars>>

Close ==
    /\ S!OnListenerClose \/ \E c \in Connection : S!OnClose(c)
    /\ UNCHANGED <<clientVars, netVars, appVars>>

Read ==
    /\ \/ \E c \in Connection : up[c] # <<>> /\ S!StartReading(c)
       \/ S!StopReading
    /\ UNCHANGED <<clientVars, netVars, appVars>>

Greet(c) ==
    /\ Arrives(up, c, Hello) /\ S!OnHello(c, TRUE)
    /\ up' = Taken(up, c)
    /\ down' = Put(down, c, Hello)
    /\ UNCHANGED <<clientVars, link, faults, stale, appVars>>

MustCallBack(c, k) == calls[k + 1].method = Request /\ <<c, k>> \notin called

(* request_something_from_me() calls the client, and returns in Execute;   *)
(* that the connection may end in between is more than the code allows.    *)
CallBack(c, k) ==
    /\ Arrives(up, c, CallOf(k)) /\ s_reading = c /\ MustCallBack(c, k)
    /\ S!CallClient(c) /\ s_asked' # s_asked
    /\ called' = called \cup {<<c, k>>}
    /\ down' = Put(down, c, CallOf(s_next_message_id[c]))
    /\ UNCHANGED <<clientVars, link, up, faults, stale, calls, executed>>

(* A method returns. *)
Execute(c, k) ==
    /\ Arrives(up, c, CallOf(k)) /\ ~MustCallBack(c, k)
    /\ S!OnRequest(c, k) /\ s_replies' # s_replies
    /\ up' = Taken(up, c)
    /\ down' = Put(down, c, AnswerTo(k))
    /\ executed' = Append(executed, <<c, k>>)
    /\ UNCHANGED <<clientVars, link, faults, stale, calls, called>>

(* The continuation of say_good_bye() prints what it is given. *)
GoodBye(c, n) ==
    /\ Arrives(up, c, AnswerTo(n))
    /\ S!OnResponse(c, n) /\ s_reading' = s_reading
    /\ up' = Taken(up, c)
    /\ UNCHANGED <<clientVars, link, down, faults, stale, appVars>>

(* A signal to the server. *)
StopServer ==
    /\ s_reading = None /\ Fault /\ S!Stop
    /\ UNCHANGED <<clientVars, link, up, down, stale, appVars>>

(* The server ends without stop() and leaves the file of its socket, if    *)
(* stop() has not removed it.  Connections are never used again, so what   *)
(* was known of them remains as history.                                   *)
CrashServer ==
    /\ Fault /\ s_listener # "closed"
    /\ stale' = (s_listener = "on")
    /\ s_listener' = "closed"
    /\ s_handle' = [c \in Connection |-> IF c <= link THEN "closed" ELSE "new"]
    /\ s_clients' = {} /\ s_is_open' = {} /\ s_is_connected' = {}
    /\ s_reading' = None /\ s_promises' = {}
    /\ UNCHANGED <<s_handshake_finished, s_established, s_started, s_running, s_replies,
                   s_next_message_id, s_asked, s_answers, s_aborted>>
    /\ UNCHANGED <<clientVars, link, up, down, appVars>>

(* Somebody removes the file a server left. *)
RemoveFile ==
    /\ stale /\ stale' = FALSE
    /\ UNCHANGED <<clientVars, serverVars, link, up, down, faults, appVars>>

(* A new server process, whose bind() gives the address up while the file  *)
(* of another is there.  Nobody accepts what came for the last one.        *)
StartServer ==
    /\ s_listener = "closed" /\ ~stale
    /\ \A c \in Connection : s_handle[c] \in {"new", "closed"}
    /\ s_listener' = "on"
    /\ s_handle' = [c \in Connection |-> IF c <= link THEN "closed" ELSE "new"]
    /\ UNCHANGED <<s_clients, s_is_open, s_is_connected, s_handshake_finished, s_established,
                   s_reading, s_started, s_running, s_replies, s_next_message_id, s_asked,
                   s_promises, s_answers, s_aborted>>
    /\ UNCHANGED <<clientVars, netVars, appVars>>

(* What a loop does as soon as it can. *)
ClientLoop == Connect \/ (LoseServer /\ UNCHANGED faults) \/ Redial \/ TakeHello
              \/ \E k \in Call : TakeAnswer(k)
    \/ \E n \in Callback : TakeCall(n)
Frames == \E c \in Connection :
              \/ Greet(c)
              \/ \E k \in Call : CallBack(c, k) \/ Execute(c, k)
              \/ \E n \in Callback : GoodBye(c, n)
ServerLoop == Close \/ Read \/ Frames
              \/ \E c \in Connection : Accept(c) \/ (LoseClient(c) /\ UNCHANGED faults)

ClientNext ==
    \/ Connect \/ FailToConnect \/ LoseServer \/ Redial
    \/ TakeHello \/ MainCalls \/ StopClient
    \/ \E k \in Call : TakeAnswer(k)
    \/ \E n \in Callback : TakeCall(n)

ServerNext ==
    \/ Close \/ Read \/ StopServer \/ CrashServer \/ RemoveFile \/ StartServer
    \/ \E c \in Connection :
          \/ Accept(c) \/ LoseClient(c) \/ Greet(c)
          \/ \E k \in Call : CallBack(c, k) \/ Execute(c, k)
          \/ \E n \in Callback : GoodBye(c, n)

Next == ClientNext \/ ServerNext

(* While something is due one of the loops goes on, or the server is       *)
(* started again; a piece of a stream that is delivered again and again    *)
(* completes a frame.  Nobody need remove the file of a killed server.     *)
Spec == /\ Init /\ [][Next]_vars
        /\ WF_vars(ClientLoop \/ ServerLoop \/ StartServer) /\ SF_vars(Frames)

(***************************************************************************)
(* Properties                                                              *)
(***************************************************************************)
Numbers == Call \cup Callback
Message == {Hello} \cup {CallOf(k) : k \in Numbers} \cup {AnswerTo(k) : k \in Numbers}

CallRecord == [method : {Say, Request, Echo}, for : {<<>>} \cup (Connection \X Callback)]

(* What travels, what waits and what was executed has its type, and every  *)
(* call has a method.                                                      *)
TypeOK ==
    /\ up \in [Connection -> Seq(Message)] /\ down \in [Connection -> Seq(Message)]
    /\ pending_messages \in Seq(Call) /\ next_message_id \in Nat
    /\ resolutions \in [Call -> Nat]
    /\ executed \in Seq(Connection \X Call)
    /\ calls \in Seq(CallRecord) /\ Len(calls) = next_message_id

(* Neither side lets an exception out of a callback. *)
NoAbort == aborted = "no" /\ s_aborted = "no"

(* Neither side is sent an answer it does not wait for: the promise of     *)
(* every answer on its way is in the map of the side it goes to, over      *)
(* reconnections, restarts of the server and numbers that start over.      *)
AnswersAwaited ==
    /\ handle[H] = "up" =>
         \A k \in Call : AnswerTo(k) \in Range(down[link]) => k \in asked \cap promises
    /\ \A c \in s_clients, n \in Callback :
         AnswerTo(n) \in Range(up[c]) => <<c, n>> \in s_promises

(* While both ends of a connection are up nothing is lost on it: a call    *)
(* that waits for its answer is on its way, or is being executed, or its   *)
(* answer is on its way, and only one of them.                             *)
InFlight ==
    handle[H] = "up" /\ ~ServerGone(link) =>
        /\ \A k \in asked \cap promises :
             CallOf(k) \in Range(up[link]) <=> AnswerTo(k) \notin Range(down[link])
        /\ \A n \in Callback : <<link, n>> \in s_promises =>
             Cardinality({m \in {CallOf(n)} : m \in Range(down[link])}
                 \cup {m \in {AnswerTo(n)} : m \in Range(up[link])}
                 \cup {k \in asked \cap promises : calls[k + 1].for = <<link, n>>}) = 1

(* The server executes what came over one connection in the order in which *)
(* the calls were made.                                                    *)
ExecutedInOrder ==
    \A i, j \in 1 .. Len(executed) :
        i < j /\ executed[i][1] = executed[j][1] => executed[i][2] < executed[j][2]

(* Calls of the client, and calls to it, are executed at most once and     *)
(* answered at most once, on whatever connection.                          *)
Forward == INSTANCE RemoteCalls WITH
    Id <- Call, made <- 0 .. next_message_id - 1, answers <- resolutions,
    executions <- [k \in Call |-> Cardinality({i \in 1 .. Len(executed) : executed[i][2] = k})]

Backward == INSTANCE RemoteCalls WITH
    Id <- Connection \X Callback, made <- s_asked, answers <- s_answers,
    executions <- [p \in Connection \X Callback |->
                      Cardinality({i \in 1 .. Len(calls) : calls[i].for = p})]

ForwardCalls == Forward!Spec
BackwardCalls == Backward!Spec

(* In the end every call has completed: it was answered, or it was written *)
(* on a connection that is gone, or invoke() threw, or the client was      *)
(* stopped.  Calls that wait survive any number of connections and of      *)
(* servers, unless one was killed and the file it left is never removed.   *)
CallsComplete ==
    <>[](is_active /\ ~stale => \A k \in 0 .. next_message_id - 1 :
            resolutions[k] > 0 \/ k \in threw \cup (Range(sent) \ asked))

(* So has every call to the client, which takes another call of the client *)
(* to the server, unless the connection it was made on is lost.            *)
CallbacksComplete ==
    <>[](\A p \in s_asked : s_answers[p] > 0 \/ s_handle[p[1]] # "up")
=============================================================================
