------------------------------- MODULE Client -------------------------------
(***************************************************************************)
(* rpc::generic_client (rpc/src/client.cpp, rpc/include/rpc/client.hpp)    *)
(* with the one rpc::socket it owns (rpc/include/rpc/socket.hpp) and the   *)
(* uvw handles and timers the two of them create.                          *)
(*                                                                         *)
(* The program is single threaded: every action is one callback of the uvw *)
(* loop, run to its end, or one call of the public interface made from a   *)
(* callback of the application.  The flags of *sock are plain variables;   *)
(* they mean something while sock # None.  A handle outlives its socket:   *)
(* uvw keeps it until its CloseEvent.                                      *)
(*                                                                         *)
(* on_data() catches what derives from std::exception; everything else     *)
(* leaves the loop and ends the process, and so does whatever is thrown in *)
(* another callback.  A method the client offers leaves no trace if it     *)
(* answers before it returns, or under an on_data() of the client; owed    *)
(* tells of those that are to answer in another callback.  Such a method   *)
(* holds the socket it was asked on, listeners included.  A socket that    *)
(* was stopped hears nothing more; one that was replaced without being     *)
(* stopped would, and is left out by ClientAssumption.                     *)
(***************************************************************************)
EXTENDS Naturals, Sequences, FiniteSets, Functions

CONSTANTS
    Conn,          \* handles; a closed one may be used again
    Timer,         \* timers; at most Cardinality(Timer) armed at once
    None,          \* nullptr
    MaxCalls,      \* bound on the calls the application makes
    MayReject,     \* may the server refuse the hello it is sent?
    MayReconnect,  \* may the application call reconnect(), or stop() in on_data()?
    MayThrowForeign,   \* may it throw what is no std::exception?
    MayAnswerLate      \* may its methods answer outside the client's on_data()?

ASSUME ClientAssumption ==
    /\ None \notin Conn /\ None \notin Timer
    /\ Conn # {}
    /\ MaxCalls \in Nat
    /\ MayReject \in BOOLEAN /\ MayReconnect \in BOOLEAN
    /\ MayThrowForeign \in BOOLEAN /\ MayAnswerLate \in BOOLEAN
    /\ MayAnswerLate => ~MayReject /\ ~MayReconnect

VARIABLES
    handle,              \* uvw's view of every handle
    sock,                \* the handle of *sock, or None
    is_open, is_connected, handshake_finished,   \* flags of *sock
    hellos,              \* client hellos written on sock
    asked,               \* calls written on sock
    owed,                \* late answers due: on sock "here", on one "gone"
    is_active,
    n_failures,
    timer,               \* the raw pointer to the last timer started
    armed,               \* timers that will fire
    wait,                \* seconds each armed timer waits
    next_message_id,
    pending_messages,
    promises,            \* calls whose promise is in the map
    sent,                \* history: calls in the order they were written
    resolutions,         \* history: how often each call was answered
    threw,               \* history: calls whose invoke() threw
    aborted              \* how the process died, "no" while it lives

connVars  == <<handle, sock, is_open, is_connected, handshake_finished>>
retryVars == <<is_active, n_failures, timer, armed, wait>>
callVars  == <<next_message_id, pending_messages, promises, sent, resolutions, threw>>
vars      == <<connVars, hellos, asked, owed, retryVars, callVars, aborted>>

Call == 0 .. MaxCalls - 1

(***************************************************************************)
(* n_failures feeds only the delay, which is the same from 9 failures on:  *)
(* the counter stops one above that.                                       *)
(***************************************************************************)
FailureCap == 10

Smaller(a, b) == IF a < b THEN a ELSE b

(* Fault: the number of doublings is not bounded. *)
DoublingsUnbounded(n) == IF n <= 3 THEN 0 ELSE n - 3

Doublings(n) == IF n <= 3 THEN 0 ELSE Smaller(6, n - 3)

(* The delay of reconnect(): none, one second, then doubling up to 64. *)
Backoff(n) == IF n = 0 THEN 0 ELSE 2 ^ Doublings(n)

(***************************************************************************)
(* Parts of the handlers                                                   *)
(***************************************************************************)
Running == aborted = "no"

(* Fault: stop() does not close the handle. *)
HandlesLeftOpen == handle

(* socket::stop() on *sock, if there is one: an open handle starts closing. *)
StoppedHandles ==
    [h \in Conn |-> IF h = sock /\ is_open THEN "closing" ELSE handle[h]]

Orphaned == IF owed = {} THEN {} ELSE {"gone"}

(* sock->stop(); sock.reset().  The flags go with the socket. *)
DropSocket ==
    /\ sock' = None
    /\ is_open' = FALSE /\ is_connected' = FALSE /\ handshake_finished' = FALSE
    /\ hellos' = 0 /\ asked' = {} /\ owed' = Orphaned

(* Fault: the pointer is cleared, the timer is not closed. *)
TimerLeftArmed == timer' = None /\ UNCHANGED <<armed, wait>>

ForgetTimer == /\ armed' = armed \ {timer}
               /\ timer' = None
               /\ wait' = [t \in Timer |-> IF t = timer THEN 0 ELSE wait[t]]

(* Fault: the delay is worked out before the failure is counted. *)
RearmEarly ==
    IF is_active
    THEN \E t \in Timer \ armed :
            /\ armed' = armed \cup {t}
            /\ timer' = t
            /\ wait' = [wait EXCEPT ![t] = Backoff(n_failures)]
    ELSE UNCHANGED <<timer, armed, wait>>

(* Fault: a client that was stopped starts a timer all the same. *)
RearmStopped ==
    \E t \in Timer \ armed :
        /\ armed' = armed \cup {t}
        /\ timer' = t
        /\ wait' = [wait EXCEPT ![t] = Backoff(n_failures')]

(* Fault: no timer after the third failure. *)
RearmThreeTimes ==
    IF is_active /\ n_failures' <= 3
    THEN \E t \in Timer \ armed :
            /\ armed' = armed \cup {t}
            /\ timer' = t
            /\ wait' = [wait EXCEPT ![t] = Backoff(n_failures')]
    ELSE UNCHANGED <<timer, armed, wait>>

(* A timer is started only for a client that was not stopped, and the      *)
(* pointer to an earlier timer is overwritten: that timer stays armed.     *)
Rearm ==
    IF is_active
    THEN \E t \in Timer \ armed :
            /\ armed' = armed \cup {t}
            /\ timer' = t
            /\ wait' = [wait EXCEPT ![t] = Backoff(n_failures')]
    ELSE UNCHANGED <<timer, armed, wait>>

(* reconnect(), but for what it does to the handles. *)
Reconnect(due_to_failure) ==
    /\ n_failures' = IF due_to_failure THEN Smaller(n_failures + 1, FailureCap) ELSE 0
    /\ DropSocket
    /\ Rearm
    /\ UNCHANGED is_active

(* A fresh handle starts to connect and a fresh socket replaces *sock.     *)
(* The handle of a socket replaced this way is not closed.                 *)
Dial(h) ==
    /\ handle[h] = "free"
    /\ handle' = [handle EXCEPT ![h] = "connecting"]
    /\ sock' = h
    /\ is_open' = TRUE /\ is_connected' = FALSE /\ handshake_finished' = FALSE
    /\ hellos' = 0 /\ asked' = {} /\ owed' = Orphaned

(* Fault: a call is written as soon as the connection is up. *)
QueueUntilConnected == sock = None \/ ~is_connected

MustQueue == sock = None \/ ~handshake_finished

(* Fault: the queue is not cleared. *)
QueueKept == pending_messages

AfterFlush == <<>>

(* Fault: the promise is found, not extracted. *)
Find(k) == promises

Extract(k) == promises \ {k}

(***************************************************************************)
(* The constructor has dialed once when the loop starts.                   *)
(***************************************************************************)
Init ==
    /\ sock \in Conn
    /\ handle = [h \in Conn |-> IF h = sock THEN "connecting" ELSE "free"]
    /\ is_open = TRUE /\ is_connected = FALSE /\ handshake_finished = FALSE
    /\ hellos = 0 /\ asked = {} /\ owed = {}
    /\ is_active = TRUE
    /\ n_failures = 0
    /\ timer = None /\ armed = {} /\ wait = [t \in Timer |-> 0]
    /\ next_message_id = 0
    /\ pending_messages = <<>> /\ promises = {}
    /\ sent = <<>> /\ resolutions = [k \in Call |-> 0] /\ threw = {}
    /\ aborted = "no"

(***************************************************************************)
(* Callbacks of the loop                                                   *)
(***************************************************************************)

(* ConnectEvent.  The listener added last runs first: the socket's, which  *)
(* marks it connected and is gone if the socket is, then the client's,     *)
(* which writes the hello on whatever sock is by then.  Nothing catches    *)
(* what it throws.                                                         *)
OnConnect(h) ==
    /\ Running /\ handle[h] = "connecting"
    /\ handle' = [handle EXCEPT ![h] = "up"]
    /\ is_connected' = (is_connected \/ sock = h)
    /\ \/ /\ is_connected'
          /\ hellos' = hellos + 1
          /\ UNCHANGED aborted
       \/ /\ sock = None
          /\ aborted' = "null"
          /\ UNCHANGED hellos
       \/ /\ sock # None /\ ~is_connected'
          /\ aborted' = "unconnected"
          /\ UNCHANGED hellos
    /\ UNCHANGED <<sock, is_open, handshake_finished, asked, owed, retryVars, callVars>>

(* Fault: the flags are left as they were. *)
CloseOnly ==
    /\ handle' = [handle EXCEPT ![sock] = "closing"]
    /\ UNCHANGED <<sock, is_open, is_connected, handshake_finished, hellos, asked, owed,
                   retryVars, callVars, aborted>>

(* EndEvent and ErrorEvent: the socket's listeners close the handle. *)
LoseConnection ==
    /\ is_open' = FALSE /\ is_connected' = FALSE
    /\ handle' = [handle EXCEPT ![sock] = "closing"]
    /\ UNCHANGED <<sock, handshake_finished, hellos, asked, owed, retryVars, callVars,
                   aborted>>

OnEnd == /\ Running /\ sock # None /\ handle[sock] = "up"
         /\ LoseConnection

OnError == /\ Running /\ sock # None /\ handle[sock] \in {"connecting", "up"}
           /\ LoseConnection

(* CloseEvent of any handle, the current one or not: reconnect(true). *)
OnClose(h) ==
    /\ Running /\ handle[h] = "closing"
    /\ handle' = [StoppedHandles EXCEPT ![h] = "free"]
    /\ Reconnect(TRUE)
    /\ UNCHANGED <<callVars, aborted>>

(* A timer fires, the pointer is cleared whichever timer it designates. *)
OnTimer(t) ==
    /\ Running /\ t \in armed
    /\ armed' = armed \ {t}
    /\ timer' = None
    /\ wait' = [wait EXCEPT ![t] = 0]
    /\ \E h \in Conn : Dial(h)
    /\ UNCHANGED <<is_active, n_failures, callVars, aborted>>

Receiving == /\ Running /\ sock # None
             /\ handle[sock] = "up" /\ is_connected

(* A server_hello that fits: the calls that waited are written in order,   *)
(* then on_data() sets the flag.                                           *)
OnHandshake ==
    /\ Receiving /\ ~handshake_finished /\ hellos > 0
    /\ handshake_finished' = TRUE
    /\ asked' = asked \cup Range(pending_messages)
    /\ sent' = sent \o pending_messages
    /\ pending_messages' = AfterFlush
    /\ UNCHANGED <<handle, sock, is_open, is_connected, hellos, owed, retryVars,
                   next_message_id, promises, resolutions, threw, aborted>>

(* A server_hello that does not: reconnect(true) destroys the socket whose *)
(* on_data() is still running; what that does to the freed socket is       *)
(* undefined, the process goes on or dies of it.                           *)
OnHandshakeRefused ==
    /\ MayReject
    /\ Receiving /\ ~handshake_finished /\ hellos > 0
    /\ handle' = StoppedHandles
    /\ Reconnect(TRUE)
    /\ aborted' \in {"no", "freed"}
    /\ UNCHANGED callVars

(* A std::exception that a handler under on_data() throws is caught there  *)
(* and the socket is stopped.                                              *)
StopSocket ==
    /\ handle' = StoppedHandles
    /\ is_open' = FALSE /\ is_connected' = FALSE
    /\ UNCHANGED <<sock, handshake_finished, hellos, asked, owed, aborted>>

(* An exception of another kind is not. *)
Escape ==
    /\ MayThrowForeign
    /\ aborted' = "foreign"
    /\ UNCHANGED <<connVars, hellos, asked, owed>>

(* A malformed frame, or a method of the client that throws. *)
OnBadData ==
    /\ Receiving
    /\ StopSocket
    /\ UNCHANGED <<retryVars, callVars>>

(* The server calls a method of the client, which will answer later, or    *)
(* throws something that is not caught.                                    *)
OnRequest ==
    /\ Receiving /\ handshake_finished
    /\ \/ /\ MayAnswerLate
          /\ owed' = owed \cup {"here"}
          /\ UNCHANGED <<connVars, hellos, asked, aborted>>
       \/ Escape
    /\ UNCHANGED <<retryVars, callVars>>

(* It answers, the last of those that owe one or not, on the socket that   *)
(* asked; if that is not connected any more nobody catches the exception.  *)
AnswerLater ==
    /\ Running
    /\ \/ /\ "here" \in owed /\ is_connected
          /\ owed' \in {owed, owed \ {"here"}}
          /\ UNCHANGED aborted
       \/ /\ "gone" \in owed \/ ("here" \in owed /\ ~is_connected)
          /\ aborted' = "reply"
          /\ UNCHANGED owed
    /\ UNCHANGED <<connVars, hellos, asked, retryVars, callVars>>

(* A response: the promise leaves the map and its continuation runs. *)
Resolve(k) ==
    /\ Receiving /\ handshake_finished
    /\ k \in asked \cap promises
    /\ promises' = Extract(k)
    /\ resolutions' = [resolutions EXCEPT ![k] = @ + 1]
    /\ UNCHANGED <<next_message_id, pending_messages, sent, threw>>

(* The continuation returns, or throws. *)
OnResponse(k) ==
    /\ Resolve(k)
    /\ StopSocket \/ Escape \/ UNCHANGED <<connVars, hellos, asked, owed, aborted>>
    /\ UNCHANGED retryVars

(* reconnect() or stop() from inside on_data(), which goes on with the     *)
(* members of a socket that is destroyed, as after a refused hello.        *)
Leave ==
    /\ MayReconnect
    /\ handle' = StoppedHandles
    /\ \/ Reconnect(FALSE)
       \/ is_active' = FALSE /\ DropSocket /\ ForgetTimer /\ UNCHANGED n_failures
    /\ aborted' \in {"no", "freed"}

(* A continuation calls it, or a method that the client offers. *)
OnLastResponse(k) == Resolve(k) /\ Leave
OnLastRequest == Receiving /\ handshake_finished /\ Leave /\ UNCHANGED callVars

(* A response nobody waits for is reported and changes nothing. *)
OnStrayResponse(k) ==
    /\ Receiving /\ handshake_finished
    /\ k \in asked \ promises
    /\ UNCHANGED vars

(***************************************************************************)
(* Calls of the application                                                *)
(***************************************************************************)
Invoke ==
    LET k == next_message_id IN
    /\ Running /\ k \in Call
    /\ next_message_id' = k + 1
    /\ \/ /\ MustQueue
          /\ pending_messages' = Append(pending_messages, k)
          /\ promises' = promises \cup {k}
          /\ UNCHANGED <<asked, sent, threw>>
       \/ /\ ~MustQueue /\ is_connected
          /\ asked' = asked \cup {k}
          /\ sent' = Append(sent, k)
          /\ promises' = promises \cup {k}
          /\ UNCHANGED <<pending_messages, threw>>
       \/ /\ ~MustQueue /\ ~is_connected      \* "Socket not connected"
          /\ threw' = threw \cup {k}
          /\ UNCHANGED <<asked, pending_messages, promises, sent>>
    /\ UNCHANGED <<connVars, hellos, owed, retryVars, resolutions, aborted>>

(* stop(): from a signal handler or the destructor. *)
Stop ==
    /\ Running
    /\ is_active' = FALSE
    /\ handle' = StoppedHandles
    /\ DropSocket
    /\ ForgetTimer
    /\ UNCHANGED <<n_failures, callVars, aborted>>

ReconnectByHand ==
    /\ MayReconnect /\ Running
    /\ handle' = StoppedHandles
    /\ Reconnect(FALSE)
    /\ UNCHANGED <<callVars, aborted>>

Next ==
    \/ \E h \in Conn : OnConnect(h) \/ OnClose(h)
    \/ \E t \in Timer : OnTimer(t)
    \/ OnEnd \/ OnError
    \/ OnHandshake \/ OnHandshakeRefused \/ OnBadData
    \/ \E k \in Call : OnResponse(k) \/ OnLastResponse(k) \/ OnStrayResponse(k)
    \/ OnRequest \/ OnLastRequest \/ AnswerLater
    \/ Invoke \/ Stop \/ ReconnectByHand

Spec == Init /\ [][Next]_vars

(* The loop delivers a CloseEvent that is due and fires a timer that is    *)
(* due.                                                                    *)
LoopFairness == /\ \A h \in Conn : WF_vars(OnClose(h))
                /\ \A t \in Timer : WF_vars(OnTimer(t))

LoopSpec == Spec /\ LoopFairness

(* However often it fails, the network lets a connection through again,    *)
(* and the server answers a hello again.                                   *)
PeerFairness == /\ SF_vars(\E h \in Conn : OnConnect(h))
                /\ SF_vars(OnHandshake)

(***************************************************************************)
(* Properties                                                              *)
(***************************************************************************)

(* Every variable has its type; a timer waits 64 seconds at the most. *)
TypeOK ==
    /\ handle \in [Conn -> {"free", "connecting", "up", "closing"}]
    /\ sock \in Conn \cup {None}
    /\ is_open \in BOOLEAN /\ is_connected \in BOOLEAN
    /\ handshake_finished \in BOOLEAN
    /\ hellos \in Nat
    /\ asked \in SUBSET Call
    /\ is_active \in BOOLEAN
    /\ n_failures \in 0 .. FailureCap
    /\ timer \in Timer \cup {None}
    /\ armed \in SUBSET Timer
    /\ wait \in [Timer -> {0} \cup {2 ^ i : i \in 0 .. 6}]
    /\ next_message_id \in 0 .. MaxCalls
    /\ pending_messages \in Seq(Call)
    /\ promises \in SUBSET Call
    /\ sent \in Seq(Call)
    /\ resolutions \in [Call -> Nat]
    /\ threw \in SUBSET Call
    /\ owed \in SUBSET {"here", "gone"}
    /\ aborted \in {"no", "null", "unconnected", "freed", "foreign", "reply"}

(* Calls reach the wire in the order they were made and none reaches it    *)
(* twice, over any number of connections: what was written, followed by    *)
(* what waits, is increasing.                                              *)
CallOrder ==
    LET order == sent \o pending_messages IN
    \A i, j \in 1 .. Len(order) : i < j => order[i] < order[j]

(* Every number that invoke() gave out is accounted for exactly once: it   *)
(* waits, or was written, or its invoke() threw; the promise of a waiting  *)
(* or written call is in the map until the call is answered, which happens *)
(* at most once and only to a written call.                                *)
CallsAccounted ==
    LET Queued   == Range(pending_messages)
        Written  == Range(sent)
        Answered == {k \in Call : resolutions[k] > 0}
    IN  /\ Queued \cup Written \cup threw = {k \in Call : k < next_message_id}
        /\ Queued \cap Written = {} /\ (Queued \cup Written) \cap threw = {}
        /\ Answered \subseteq Written
        /\ promises = (Queued \cup Written) \ Answered
        /\ \A k \in Call : resolutions[k] <= 1

(* The flags of *sock, which decide whether invoke() queues, writes or     *)
(* throws and whether stop() closes, say what uvw knows of its handle,     *)
(* and a socket whose handshake is over leaves nothing waiting.            *)
FlagsMirrorHandle ==
    /\ sock # None =>
         /\ is_connected <=> handle[sock] = "up"
         /\ is_open <=> handle[sock] \in {"connecting", "up"}
         /\ handle[sock] # "free"
    /\ handshake_finished => sock # None /\ hellos > 0 /\ pending_messages = <<>>

(* The raw pointer to a timer, which stop() closes through, designates a   *)
(* timer that is still armed, and armed with the delay that the failures   *)
(* counted so far call for.                                                *)
TimerNotDangling ==
    timer # None => timer \in armed /\ wait[timer] = Backoff(n_failures)

(* As long as hellos are accepted and reconnect() is left to the client    *)
(* itself, one failure causes one attempt: the client has one handle or    *)
(* one timer, never more, and it can stop either of them.                  *)
SingleAttempt ==
    /\ \A h \in Conn : handle[h] \in {"connecting", "up"} => h = sock
    /\ armed = {timer} \ {None}
    /\ \A g, h \in Conn : handle[g] # "free" /\ handle[h] # "free" => g = h
    /\ (\E h \in Conn : handle[h] # "free") => armed = {}

(* Under the same conditions no event handler of the client throws into    *)
(* the loop or uses a socket that is gone.  The process ends in one of two *)
(* ways only, both of them the application's: it throws what on_data()     *)
(* does not catch, or one of its methods answers on a lost connection.     *)
OwnHandlersNeverThrow == aborted \in {"no", "foreign", "reply"}

(* A comment in on_incoming_handshake() says that a refused handshake is   *)
(* followed by an attempt to reconnect rather than by failing fast: the    *)
(* process does not end in an exception nobody catches.                    *)
RefusalNotFatal == aborted \notin {"unconnected", "null"}

(* Once stopped, the client leaves the loop for good, pending closes       *)
(* included, unless the process ends first.                                *)
StopWindsDown ==
    ~is_active ~> \/ [](armed = {} /\ \A h \in Conn : handle[h] = "free")
                  \/ ~Running

(* A client that lost its connection dials again, whatever happens         *)
(* meanwhile, unless it is stopped or the process ends.                    *)
KeepsTrying ==
    (sock = None \/ ~is_open) ~> ((sock # None /\ is_open) \/ ~is_active \/ ~Running)

(* With a network and a server that work again and again, a queued call is *)
(* written in the end, however many connections fail first, unless the     *)
(* client is stopped or the process ends.                                  *)
QueueDrains ==
    PeerFairness =>
        \A k \in Call :
            k \in Range(pending_messages) ~> (k \in Range(sent) \/ ~is_active \/ ~Running)

(* The calls are served as CallLedger promises. *)
Ledger == INSTANCE CallLedger WITH
    made <- next_message_id, queue <- pending_messages, wire <- sent,
    answers <- resolutions, refused <- threw

KeepsLedger == Ledger!Spec
=============================================================================
