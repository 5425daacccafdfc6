------------------------------- MODULE Server -------------------------------
(***************************************************************************)
(* rpc::generic_server (rpc/src/server.cpp, rpc/include/rpc/server.hpp):   *)
(* one listener, the list of its server_clients, each with its own object  *)
(* that implements the methods, and their sockets.                         *)
(*                                                                         *)
(* Every action is one callback of the loop, except that on_data() of a    *)
(* socket is taken apart into one action per frame: reading is the         *)
(* connection whose on_data() is running.  It goes on with the frames that *)
(* came together even after a handler stopped the socket, and it catches   *)
(* what a handler throws if that derives from std::exception.  Nothing     *)
(* else in the program catches: an exception that on_data() lets pass, or  *)
(* that is thrown in another callback, leaves the loop.                    *)
(*                                                                         *)
(* A socket lives as long as a method that has not answered yet holds it,  *)
(* so its flags outlast the server_client.                                 *)
(***************************************************************************)
EXTENDS Naturals, FiniteSets

CONSTANTS
    Conn,          \* the connections clients make
    Request,       \* numbers of the requests on one connection
    MaxCalls,      \* bound on the calls made to one client
    None,          \* no on_data() is running
    Async,         \* may methods answer, and call their client, later?
    MayThrowForeign,   \* may the application throw what is no std::exception?
    FactoryMayThrow    \* may its factory throw, or call the new client?

ASSUME ServerAssumption ==
    /\ None \notin Conn
    /\ MaxCalls \in Nat
    /\ Async \in BOOLEAN
    /\ MayThrowForeign \in BOOLEAN /\ FactoryMayThrow \in BOOLEAN

VARIABLES
    listener,
    handle,               \* uvw's view of every connection
    clients,              \* connections with a server_client
    is_open, is_connected, handshake_finished,   \* sockets with the flag set
    established,          \* connections whose hello was accepted
    reading,
    started,              \* requests whose method was called
    running,              \* requests whose method has not answered yet
    replies,              \* replies written to each request
    next_message_id,
    asked,                \* calls to clients that were written
    promises,             \* calls to clients whose promise is in the map
    answers,              \* how often each call to a client was answered
    aborted               \* how the process died, "no" while it lives

connVars == <<listener, handle, clients, handshake_finished, established>>
flagVars == <<is_open, is_connected>>
methodVars == <<started, running>>
callVars == <<next_message_id, asked, promises, answers>>
vars == <<connVars, flagVars, reading, methodVars, replies, callVars, aborted>>

Call == 0 .. MaxCalls - 1

(***************************************************************************)
(* Parts of the handlers                                                   *)
(***************************************************************************)
Running == aborted = "no"

(* Fault: the handle is not closed. *)
CloseNothing(C) == handle

(* The open handles of C start to close. *)
Closed(C) ==
    [c \in Conn |-> IF c \in C \cap is_open THEN "closing" ELSE handle[c]]

(* socket::stop() on the sockets of C. *)
StopSockets(C) ==
    /\ handle' = Closed(C)
    /\ is_open' = is_open \ C
    /\ is_connected' = is_connected \ C

(* Fault: on_data() has no catch clause. *)
NotCaught == /\ aborted' = "uncaught"
             /\ UNCHANGED <<handle, flagVars, reading>>

(* A std::exception ends the on_data() that is running and stops its       *)
(* socket, whichever connection the exception is about; outside of         *)
(* on_data() nobody catches it.                                            *)
Thrown ==
    IF reading # None
    THEN /\ StopSockets({reading})
         /\ reading' = None
         /\ UNCHANGED aborted
    ELSE /\ aborted' = "uncaught"
         /\ UNCHANGED <<handle, flagVars, reading>>

(* An exception of another kind leaves on_data() and the loop. *)
Escape ==
    /\ MayThrowForeign
    /\ aborted' = "foreign"
    /\ reading' = None
    /\ UNCHANGED <<handle, flagVars>>

(* Fault: write() does not look whether the socket is connected. *)
WritableAlways(c) == TRUE

(* socket::write() throws unless this holds. *)
Writable(c) == c \in is_connected

Reply(c, r) ==
    IF Writable(c)
    THEN /\ replies' = [replies EXCEPT ![<<c, r>>] = @ + 1]
         /\ UNCHANGED <<handle, flagVars, reading, aborted>>
    ELSE Thrown /\ UNCHANGED replies

(***************************************************************************)
(* The server has been bound once.                                         *)
(***************************************************************************)
Init ==
    /\ listener = "on"
    /\ handle = [c \in Conn |-> "new"]
    /\ clients = {}
    /\ is_open = {} /\ is_connected = {}
    /\ handshake_finished = {} /\ established = {}
    /\ reading = None
    /\ started = {} /\ running = {}
    /\ replies = [p \in Conn \X Request |-> 0]
    /\ next_message_id = [c \in Conn |-> 0]
    /\ asked = {} /\ promises = {}
    /\ answers = [p \in Conn \X Call |-> 0]
    /\ aborted = "no"

(***************************************************************************)
(* Callbacks of the loop                                                   *)
(***************************************************************************)

(* ListenEvent: a socket that is connected from the start, a server_client *)
(* at the front of the list and the object that implements its methods.    *)
OnListen(c) ==
    /\ Running /\ reading = None
    /\ listener = "on" /\ handle[c] = "new"
    /\ handle' = [handle EXCEPT ![c] = "up"]
    /\ clients' = clients \cup {c}
    /\ is_open' = is_open \cup {c}
    /\ is_connected' = is_connected \cup {c}
    /\ UNCHANGED <<listener, handshake_finished, established, reading,
                   methodVars, replies, callVars, aborted>>

(* The object's factory throws, or calls the client, whose methods have no *)
(* ids before its hello.  There is no on_data() to catch it.               *)
OnListenFails(c) ==
    /\ FactoryMayThrow
    /\ Running /\ reading = None
    /\ listener = "on" /\ handle[c] = "new"
    /\ aborted' = "factory"
    /\ UNCHANGED <<connVars, flagVars, reading, methodVars, replies, callVars>>

(* EndEvent and ErrorEvent. *)
OnEndOrError(c) ==
    /\ Running /\ reading = None
    /\ handle[c] = "up"
    /\ handle' = [handle EXCEPT ![c] = "closing"]
    /\ is_open' = is_open \ {c} /\ is_connected' = is_connected \ {c}
    /\ UNCHANGED <<listener, clients, handshake_finished, established, reading,
                   methodVars, replies, callVars, aborted>>

(* Fault: the promises of the connection are kept. *)
PromisesKept(c) == promises

PromisesDropped(c) == {p \in promises : p[1] # c}

(* CloseEvent: the server_client, the object and the promises are gone.    *)
OnClose(c) ==
    /\ Running /\ reading = None
    /\ handle[c] = "closing"
    /\ handle' = [handle EXCEPT ![c] = "closed"]
    /\ clients' = clients \ {c}
    /\ promises' = PromisesDropped(c)
    /\ UNCHANGED <<listener, flagVars, handshake_finished, established, reading,
                   methodVars, replies, next_message_id, asked, answers, aborted>>

OnListenerClose ==
    /\ Running /\ reading = None
    /\ listener = "closing"
    /\ listener' = "closed"
    /\ UNCHANGED <<handle, clients, flagVars, handshake_finished, established,
                   reading, methodVars, replies, callVars, aborted>>

(* DataEvent: on_data() starts, and ends when no frame is complete.        *)
StartReading(c) ==
    /\ Running /\ reading = None
    /\ handle[c] = "up"
    /\ reading' = c
    /\ UNCHANGED <<connVars, flagVars, methodVars, replies, callVars, aborted>>

StopReading ==
    /\ reading # None
    /\ reading' = None
    /\ UNCHANGED <<connVars, flagVars, methodVars, replies, callVars, aborted>>

(***************************************************************************)
(* Frames                                                                  *)
(***************************************************************************)

(* A hello is answered with method ids, or with an error, after which the  *)
(* socket is stopped; on_data() takes the handshake for finished either    *)
(* way.                                                                    *)
OnHello(c, accept) ==
    /\ reading = c /\ c \notin handshake_finished
    /\ handshake_finished' = handshake_finished \cup {c}
    /\ IF accept
       THEN /\ established' = established \cup {c}
            /\ UNCHANGED <<handle, flagVars>>
       ELSE /\ StopSockets({c})
            /\ UNCHANGED established
    /\ UNCHANGED <<listener, clients, reading, methodVars, replies, callVars, aborted>>

(* A frame that breaks the protocol, or does not deserialize. *)
OnBadFrame(c) ==
    /\ reading = c
    /\ Thrown
    /\ UNCHANGED <<listener, clients, handshake_finished, established,
                   methodVars, replies, callVars>>

(* A call of a method, which answers at once, or later, or throws. *)
OnRequest(c, r) ==
    /\ reading = c /\ c \in handshake_finished
    /\ <<c, r>> \notin started
    /\ started' = started \cup {<<c, r>>}
    /\ \/ Reply(c, r) /\ UNCHANGED running
       \/ /\ Async
          /\ running' = running \cup {<<c, r>>}
          /\ UNCHANGED <<handle, flagVars, reading, replies, aborted>>
       \/ (Thrown \/ Escape) /\ UNCHANGED <<running, replies>>
    /\ UNCHANGED <<listener, clients, handshake_finished, established, callVars>>

(* A call of a method that is not there is answered with an error. *)
OnUnknownMethod(c) ==
    /\ reading = c /\ c \in handshake_finished
    /\ IF Writable(c) THEN UNCHANGED <<handle, flagVars, reading, aborted>> ELSE Thrown
    /\ UNCHANGED <<listener, clients, handshake_finished, established,
                   methodVars, replies, callVars>>

(* Fault: the promise is looked up and stays in the map. *)
Found(c, k) == promises

Extracted(c, k) == promises \ {<<c, k>>}

(* A client answers a call: the promise is taken out of the map and its    *)
(* continuation runs, and may throw.                                       *)
OnResponse(c, k) ==
    /\ reading = c /\ c \in handshake_finished
    /\ <<c, k>> \in promises
    /\ promises' = Extracted(c, k)
    /\ answers' = [answers EXCEPT ![<<c, k>>] = @ + 1]
    /\ UNCHANGED <<handle, flagVars, reading, aborted>> \/ Thrown \/ Escape
    /\ UNCHANGED <<listener, clients, handshake_finished, established,
                   methodVars, replies, next_message_id, asked>>

(* A second answer finds no promise and is reported. *)
OnStrayResponse(c, k) ==
    /\ reading = c /\ c \in handshake_finished
    /\ <<c, k>> \in asked \ promises
    /\ UNCHANGED vars

(***************************************************************************)
(* The application                                                         *)
(***************************************************************************)

(* Fault: a method that answered is not forgotten. *)
StillRunning(c, r) == running

Answered(c, r) == running \ {<<c, r>>}

(* A method answers later, in whatever callback completes it: one of the   *)
(* loop or the on_data() of any connection.                                *)
AnswerLater(c, r) ==
    /\ Running
    /\ <<c, r>> \in running
    /\ running' = Answered(c, r)
    /\ Reply(c, r)
    /\ UNCHANGED <<listener, clients, handshake_finished, established, started, callVars>>

(* The object calls its client.  The number is used up even if there is no *)
(* id for the method yet, or nobody to write to.                           *)
CallClient(c) ==
    LET k == next_message_id[c] IN
    /\ Running
    /\ c \in clients /\ (reading = c \/ Async)
    /\ k \in Call
    /\ next_message_id' = [next_message_id EXCEPT ![c] = k + 1]
    /\ IF c \in established /\ Writable(c)
       THEN /\ asked' = asked \cup {<<c, k>>}
            /\ promises' = promises \cup {<<c, k>>}
            /\ UNCHANGED <<handle, flagVars, reading, aborted>>
       ELSE /\ Thrown
            /\ UNCHANGED <<asked, promises>>
    /\ UNCHANGED <<listener, clients, handshake_finished, established,
                   methodVars, replies, answers>>

(* A method outlives its connection, whose CloseEvent has deleted the      *)
(* object and the server_client that it calls.                             *)
CallFromDeleted(c) ==
    /\ Running
    /\ c \notin clients /\ \E r \in Request : <<c, r>> \in running
    /\ \/ UNCHANGED <<reading, aborted>>
       \/ reading' = None /\ aborted' = "deleted"
    /\ UNCHANGED <<connVars, flagVars, methodVars, replies, callVars>>

(* Fault: the clients are left connected. *)
NobodyStopped == {}

StoppedClients == clients

(* stop(): the listener is closed and every client is stopped.  A signal   *)
(* handler calls it, or a method, whose on_data() then goes on.            *)
Stop ==
    /\ Running
    /\ listener = "on"
    /\ listener' = "closing"
    /\ StopSockets(StoppedClients)
    /\ UNCHANGED <<clients, handshake_finished, established, reading,
                   methodVars, replies, callVars, aborted>>

Next ==
    \/ \E c \in Conn :
          \/ OnListen(c) \/ OnListenFails(c) \/ OnEndOrError(c) \/ OnClose(c)
          \/ StartReading(c) \/ OnBadFrame(c) \/ OnUnknownMethod(c)
          \/ CallClient(c) \/ CallFromDeleted(c)
          \/ \E accept \in BOOLEAN : OnHello(c, accept)
          \/ \E r \in Request : OnRequest(c, r) \/ AnswerLater(c, r)
          \/ \E k \in Call : OnResponse(c, k) \/ OnStrayResponse(c, k)
    \/ StopReading \/ OnListenerClose \/ Stop

Spec == Init /\ [][Next]_vars

(* on_data() ends, and the loop delivers a CloseEvent that is due.         *)
FairSpec == /\ Spec
            /\ WF_vars(StopReading) /\ WF_vars(OnListenerClose)
            /\ \A c \in Conn : WF_vars(OnClose(c))

(***************************************************************************)
(* Properties                                                              *)
(***************************************************************************)

(* Every variable has its type. *)
TypeOK ==
    /\ listener \in {"on", "closing", "closed"}
    /\ handle \in [Conn -> {"new", "up", "closing", "closed"}]
    /\ clients \in SUBSET Conn
    /\ is_open \in SUBSET Conn /\ is_connected \in SUBSET Conn
    /\ handshake_finished \in SUBSET Conn /\ established \in SUBSET Conn
    /\ reading \in Conn \cup {None}
    /\ started \in SUBSET (Conn \X Request) /\ running \in SUBSET (Conn \X Request)
    /\ replies \in [Conn \X Request -> 0 .. 1]
    /\ next_message_id \in [Conn -> 0 .. MaxCalls]
    /\ asked \in SUBSET (Conn \X Call) /\ promises \in SUBSET (Conn \X Call)
    /\ answers \in [Conn \X Call -> Nat]
    /\ aborted \in {"no", "uncaught", "foreign", "factory", "deleted"}

(* The flags of the sockets say what uvw knows of their handles, and there *)
(* is a server_client, whose address every handle keeps, for exactly the   *)
(* handles that are not closed: no callback meets one that is gone.        *)
FlagsMirrorHandles ==
    /\ is_open = {c \in Conn : handle[c] = "up"}
    /\ is_connected = is_open
    /\ clients = {c \in Conn : handle[c] \in {"up", "closing"}}
    /\ reading # None => reading \in clients

(* A request is answered once its method has finished, unless the client   *)
(* is not connected any more or the process ended; it is never answered    *)
(* twice, nor while its method still runs.                                 *)
RequestsAccounted ==
    \A p \in Conn \X Request :
        /\ replies[p] > 0 => replies[p] = 1 /\ p \in started \ running
        /\ p \in started \ running => replies[p] = 1 \/ p[1] \notin is_connected \/ ~Running

(* A client whose hello was refused, or that sent none, is never sent a    *)
(* reply or a call, though its requests may still be executed when they    *)
(* came together with the hello.                                           *)
OnlyEstablishedAreServed ==
    /\ \A p \in Conn \X Request : replies[p] > 0 => p[1] \in established
    /\ \A p \in asked : p[1] \in established

(* The promise of a call to a client stays in the map until the answer     *)
(* comes, which it does at most once, or the client is gone.               *)
PeerCallsAccounted ==
    /\ promises = {p \in asked : answers[p] = 0 /\ p[1] \in clients}
    /\ \A p \in Conn \X Call : answers[p] > 0 => p \in asked /\ answers[p] = 1

(* As long as methods answer before they return and call their client only *)
(* then, all that the server and the methods' calls throw is caught by an  *)
(* on_data(), and no method uses an object that is deleted.  The process   *)
(* ends in one of two ways only: the application throws what on_data()     *)
(* does not catch, or throws while its object is made.                     *)
OwnHandlersNeverThrow == aborted \in {"no", "foreign", "factory"}

(* After stop() every connection and the listener leave the loop, unless   *)
(* the program died.                                                       *)
StopWindsDown ==
    listener = "closing" ~>
        \/ listener = "closed" /\ \A c \in Conn : handle[c] \in {"new", "closed"}
        \/ ~Running
=============================================================================
