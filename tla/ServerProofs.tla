---------------------------- MODULE ServerProofs ----------------------------
(***************************************************************************)
(* The connections of a generic_server, whatever their number, the methods *)
(* its clients call and the calls it makes to them.                        *)
(***************************************************************************)
EXTENDS Server, TLAPS

(***************************************************************************)
(* Streams: what the handlers do to handles and flags                      *)
(***************************************************************************)
Deaths == {"no", "uncaught", "foreign", "factory", "deleted"}

StreamType ==
    /\ handle \in [Conn -> {"new", "up", "closing", "closed"}]
    /\ clients \in SUBSET Conn
    /\ is_open \in SUBSET Conn /\ is_connected \in SUBSET Conn
    /\ reading \in Conn \cup {None}
    /\ aborted \in Deaths

StreamInv == StreamType /\ FlagsMirrorHandles

(* A step that at most stops sockets and ends on_data().                   *)
Narrowed ==
    /\ StreamInv'
    /\ is_connected' \subseteq is_connected
    /\ Running' => Running
    /\ \A c \in Conn : handle'[c] = "new" <=> handle[c] = "new"

LEMMA StopNarrows ==
    ASSUME StreamInv, NEW C \in SUBSET Conn, StopSockets(C), clients' = clients,
           reading' \in {reading, None}, aborted' = aborted
    PROVE  Narrowed
BY DEF StreamInv, StreamType, FlagsMirrorHandles, StopSockets, Closed, Narrowed, Running

LEMMA StillNarrows ==
    ASSUME StreamInv, UNCHANGED <<handle, flagVars, reading, aborted>>, clients' = clients
    PROVE  Narrowed
BY DEF StreamInv, StreamType, FlagsMirrorHandles, flagVars, Narrowed, Running

LEMMA EscapeNarrows ==
    ASSUME StreamInv, Escape, clients' = clients
    PROVE  Narrowed /\ ~Running'
BY DEF StreamInv, StreamType, FlagsMirrorHandles, flagVars, Narrowed, Running, Escape, Deaths

(* The exception ends the on_data() that runs, and its connection with it. *)
LEMMA ThrownNarrows ==
    ASSUME StreamInv, Thrown, clients' = clients
    PROVE  Narrowed /\ (reading # None => reading \notin is_connected')
<1>1. CASE reading # None
  <2>1. reading \in Conn /\ StopSockets({reading}) /\ reading' = None /\ aborted' = aborted
    BY <1>1 DEF Thrown, StreamInv, StreamType
  <2>2. Narrowed
    BY <2>1, StopNarrows DEF StreamInv, StreamType
  <2> QED BY <2>1, <2>2 DEF StopSockets
<1>2. CASE reading = None
  BY <1>2 DEF Thrown, StreamInv, StreamType, FlagsMirrorHandles, flagVars, Narrowed, Running,
       Deaths
<1> QED BY <1>1, <1>2

(* A reply is written, or whoever asked for it is stopped.                 *)
LEMMA ReplyNarrows ==
    ASSUME StreamInv, NEW c \in Conn, NEW r \in Request, Reply(c, r), clients' = clients
    PROVE  /\ Narrowed
           /\ \/ c \in is_connected /\ replies' = [replies EXCEPT ![<<c, r>>] = @ + 1]
              \/ c \notin is_connected' /\ replies' = replies
<1>1. CASE Writable(c)
  BY <1>1, StillNarrows DEF Reply, Writable
<1>2. CASE ~Writable(c)
  BY <1>2, ThrownNarrows DEF Reply, Writable, Narrowed
<1> QED BY <1>1, <1>2

LEMMA InitStreams == Init => StreamInv
BY ServerAssumption DEF Init, StreamInv, StreamType, FlagsMirrorHandles, Deaths

(***************************************************************************)
(* What each action does to the streams.  Everything but a new connection  *)
(* narrows them, or closes one of them for good.                           *)
(***************************************************************************)
LEMMA FrameActionsNarrow ==
    ASSUME StreamInv, NEW c \in Conn
    PROVE  /\ \A accept \in BOOLEAN : OnHello(c, accept) => Narrowed
           /\ OnBadFrame(c) => Narrowed
           /\ OnUnknownMethod(c) => Narrowed
           /\ \A r \in Request : OnRequest(c, r) \/ AnswerLater(c, r) => Narrowed
           /\ \A k \in Call : OnResponse(c, k) \/ OnStrayResponse(c, k) => Narrowed
           /\ CallClient(c) \/ CallFromDeleted(c) => Narrowed
<1>1. ASSUME NEW accept \in BOOLEAN, OnHello(c, accept) PROVE Narrowed
  <2>1. clients' = clients /\ reading' = reading /\ aborted' = aborted
    BY <1>1 DEF OnHello
  <2>2. CASE accept
    BY <1>1, <2>1, <2>2, StillNarrows DEF OnHello
  <2>3. CASE ~accept
    <3>1. StopSockets({c})
      BY <1>1, <2>3 DEF OnHello
    <3> QED BY <2>1, <3>1, StopNarrows DEF StreamInv, StreamType
  <2> QED BY <2>2, <2>3
<1>2. ASSUME OnBadFrame(c) PROVE Narrowed
  BY <1>2, ThrownNarrows DEF OnBadFrame
<1>3. ASSUME OnUnknownMethod(c) PROVE Narrowed
  <2>1. CASE Writable(c)
    BY <1>3, <2>1, StillNarrows DEF OnUnknownMethod
  <2>2. CASE ~Writable(c)
    BY <1>3, <2>2, ThrownNarrows DEF OnUnknownMethod
  <2> QED BY <2>1, <2>2
<1>4. ASSUME NEW r \in Request, OnRequest(c, r) PROVE Narrowed
  <2>1. clients' = clients
    BY <1>4 DEF OnRequest
  <2> QED BY <1>4, <2>1, ReplyNarrows, ThrownNarrows, EscapeNarrows, StillNarrows DEF OnRequest
<1>5. ASSUME NEW r \in Request, AnswerLater(c, r) PROVE Narrowed
  BY <1>5, ReplyNarrows DEF AnswerLater
<1>6. ASSUME NEW k \in Call, OnResponse(c, k) PROVE Narrowed
  BY <1>6, ThrownNarrows, EscapeNarrows, StillNarrows DEF OnResponse
<1>7. ASSUME NEW k \in Call, OnStrayResponse(c, k) PROVE Narrowed
  BY <1>7, StillNarrows DEF OnStrayResponse, vars, connVars
<1>8. ASSUME CallClient(c) PROVE Narrowed
  <2>1. clients' = clients
    BY <1>8 DEF CallClient
  <2>2. CASE c \in established /\ Writable(c)
    BY <1>8, <2>1, <2>2, StillNarrows DEF CallClient
  <2>3. CASE ~(c \in established /\ Writable(c))
    BY <1>8, <2>1, <2>3, ThrownNarrows DEF CallClient
  <2> QED BY <2>2, <2>3
<1>9. ASSUME CallFromDeleted(c) PROVE Narrowed
  BY <1>9 DEF CallFromDeleted, Narrowed, connVars, flagVars, StreamInv, StreamType,
     FlagsMirrorHandles, Running, Deaths
<1> QED BY <1>1, <1>2, <1>3, <1>4, <1>5, <1>6, <1>7, <1>8, <1>9

LEMMA LoopActionsNarrow ==
    ASSUME StreamInv
    PROVE  /\ \A c \in Conn :
                 OnListenFails(c) \/ OnEndOrError(c) \/ OnClose(c) \/ StartReading(c)
                    => Narrowed
           /\ StopReading \/ OnListenerClose \/ Stop => Narrowed
<1> USE DEF StreamInv, StreamType, FlagsMirrorHandles, Running
<1>7. ASSUME NEW c \in Conn, OnListenFails(c) PROVE Narrowed
  BY <1>7 DEF OnListenFails, Narrowed, connVars, flagVars, Deaths
<1>1. ASSUME NEW c \in Conn, OnEndOrError(c) PROVE Narrowed
  BY <1>1 DEF OnEndOrError, Narrowed
<1>2. ASSUME NEW c \in Conn, OnClose(c) PROVE Narrowed
  BY <1>2 DEF OnClose, Narrowed, flagVars
<1>3. ASSUME NEW c \in Conn, StartReading(c) PROVE Narrowed
  BY <1>3 DEF StartReading, Narrowed, connVars, flagVars
<1>4. CASE StopReading
  BY <1>4 DEF StopReading, Narrowed, connVars, flagVars
<1>5. CASE OnListenerClose
  BY <1>5 DEF OnListenerClose, Narrowed, flagVars
<1>6. CASE Stop
  <2>1. StopSockets(clients) /\ clients' = clients /\ reading' = reading /\ aborted' = aborted
    BY <1>6 DEF Stop, StoppedClients
  <2> QED BY <2>1, StopNarrows
<1> QED BY <1>1, <1>2, <1>3, <1>4, <1>5, <1>6, <1>7

LEMMA NextStreams == StreamInv /\ [Next]_vars => StreamInv'
<1> SUFFICES ASSUME StreamInv, [Next]_vars PROVE StreamInv'
  OBVIOUS
<1>1. ASSUME NEW c \in Conn, OnListen(c) PROVE StreamInv'
  BY <1>1 DEF OnListen, StreamInv, StreamType, FlagsMirrorHandles
<1>2. CASE UNCHANGED vars
  BY <1>2 DEF vars, connVars, flagVars, StreamInv, StreamType, FlagsMirrorHandles
<1> QED
  BY <1>1, <1>2, FrameActionsNarrow, LoopActionsNarrow DEF Next, Narrowed

(* A server_client exists for exactly the handles that are not closed, and *)
(* the flags of the sockets say what their handles do.                     *)
THEOREM FlagsAgree == Spec => []FlagsMirrorHandles
<1>1. Spec => []StreamInv
  BY InitStreams, NextStreams, PTL DEF Spec
<1>2. StreamInv => FlagsMirrorHandles
  BY DEF StreamInv
<1> QED BY <1>1, <1>2, PTL

(***************************************************************************)
(* Requests                                                                *)
(***************************************************************************)

(* RequestsAccounted needs to know that a connection nobody made yet has   *)
(* no requests: OnListen makes it connected.  Requests come after hellos,  *)
(* and hellos on connections that were made.                               *)
RequestInv ==
    /\ replies \in [Conn \X Request -> 0 .. 1]
    /\ started \in SUBSET (Conn \X Request) /\ running \subseteq started
    /\ RequestsAccounted
    /\ \A p \in started : p[1] \in handshake_finished
    /\ handshake_finished \subseteq {c \in Conn : handle[c] # "new"}

LEMMA InitRequests == Init => RequestInv
BY DEF Init, RequestInv, RequestsAccounted

(* A step that leaves the requests alone and at most stops sockets.        *)
LEMMA QuietRequests ==
    ASSUME RequestInv, StreamInv, Narrowed, UNCHANGED <<started, running, replies>>,
           handshake_finished \subseteq handshake_finished',
           handshake_finished' \subseteq {c \in Conn : handle[c] # "new"}
    PROVE  RequestInv'
BY DEF RequestInv, RequestsAccounted, Narrowed

LEMMA RequestStarted ==
    ASSUME RequestInv, StreamInv, NEW c \in Conn, NEW r \in Request, OnRequest(c, r)
    PROVE  RequestInv'
<1> DEFINE p == <<c, r>>
<1>1. /\ p \in Conn \X Request /\ p \notin started /\ started' = started \cup {p}
      /\ c \in handshake_finished /\ handshake_finished' = handshake_finished
      /\ clients' = clients /\ reading = c /\ p[1] = c
  BY DEF OnRequest
<1>2. Narrowed
  BY FrameActionsNarrow
<1>3. replies[p] = 0 /\ p \notin running
  BY <1>1 DEF RequestInv, RequestsAccounted
<1>4. handshake_finished' \subseteq {d \in Conn : handle'[d] # "new"}
  BY <1>1, <1>2 DEF Narrowed, RequestInv
<1>5. \A q \in started' : q[1] \in handshake_finished'
  BY <1>1 DEF RequestInv
<1>6. CASE Reply(c, r) /\ UNCHANGED running
  <2>1. \/ c \in is_connected /\ replies' = [replies EXCEPT ![p] = @ + 1]
        \/ c \notin is_connected' /\ replies' = replies
    BY <1>1, <1>6, ReplyNarrows
  <2>2. replies' \in [Conn \X Request -> 0 .. 1]
    BY <1>1, <1>3, <2>1 DEF RequestInv
  <2>3. \A q \in Conn \X Request : q # p => replies'[q] = replies[q]
    BY <1>1, <2>1 DEF RequestInv
  <2>4. replies'[p] = 1 \/ (c \notin is_connected' /\ replies'[p] = 0)
    BY <1>1, <1>3, <2>1 DEF RequestInv
  <2>5. RequestsAccounted'
    BY <1>1, <1>2, <1>3, <1>6, <2>3, <2>4 DEF RequestInv, RequestsAccounted, Narrowed
  <2> QED BY <1>1, <1>4, <1>5, <1>6, <2>2, <2>5 DEF RequestInv
<1>7. CASE running' = running \cup {p} /\ replies' = replies
  BY <1>1, <1>2, <1>3, <1>4, <1>5, <1>7 DEF RequestInv, RequestsAccounted, Narrowed
<1>8. CASE Thrown /\ UNCHANGED <<running, replies>>
  <2>1. c \notin is_connected'
    BY <1>1, <1>8, ThrownNarrows, ServerAssumption
  <2> QED
    BY <1>1, <1>2, <1>3, <1>4, <1>5, <1>8, <2>1 DEF RequestInv, RequestsAccounted, Narrowed
<1>9. CASE Escape /\ UNCHANGED <<running, replies>>
  <2>1. ~Running'
    BY <1>1, <1>9, EscapeNarrows
  <2> QED
    BY <1>1, <1>2, <1>3, <1>4, <1>5, <1>9, <2>1 DEF RequestInv, RequestsAccounted, Narrowed
<1> QED BY <1>6, <1>7, <1>8, <1>9 DEF OnRequest

LEMMA RequestAnswered ==
    ASSUME RequestInv, StreamInv, NEW c \in Conn, NEW r \in Request, AnswerLater(c, r)
    PROVE  RequestInv'
<1> DEFINE p == <<c, r>>
<1>1. /\ p \in Conn \X Request /\ p \in running /\ running' = running \ {p}
      /\ started' = started /\ handshake_finished' = handshake_finished
      /\ clients' = clients /\ p[1] = c
  BY DEF AnswerLater, Answered
<1>2. Narrowed
  BY FrameActionsNarrow
<1>3. replies[p] = 0
  BY <1>1 DEF RequestInv, RequestsAccounted
<1>4. \/ c \in is_connected /\ replies' = [replies EXCEPT ![p] = @ + 1]
      \/ c \notin is_connected' /\ replies' = replies
  BY <1>1, ReplyNarrows DEF AnswerLater
<1>5. replies' \in [Conn \X Request -> 0 .. 1]
  BY <1>1, <1>3, <1>4 DEF RequestInv
<1>6. \A q \in Conn \X Request : q # p => replies'[q] = replies[q]
  BY <1>1, <1>4 DEF RequestInv
<1>7. replies'[p] = 1 \/ (c \notin is_connected' /\ replies'[p] = 0)
  BY <1>1, <1>3, <1>4 DEF RequestInv
<1>8. RequestsAccounted'
  BY <1>1, <1>2, <1>6, <1>7 DEF RequestInv, RequestsAccounted, Narrowed
<1> QED BY <1>1, <1>2, <1>5, <1>8 DEF RequestInv, Narrowed

(* The other steps.                                                        *)
LEMMA OtherSteps ==
    ASSUME StreamInv, [Next]_vars
    PROVE  \/ \E c \in Conn : OnListen(c)
           \/ \E c \in Conn, r \in Request : OnRequest(c, r) \/ AnswerLater(c, r)
           \/ \E c \in Conn, accept \in BOOLEAN : OnHello(c, accept)
           \/ Narrowed /\ UNCHANGED <<started, running, replies,
                                     handshake_finished, established>>
<1> USE DEF methodVars, connVars
<1>1. ASSUME NEW c \in Conn,
             OnListenFails(c) \/ OnEndOrError(c) \/ OnClose(c) \/ StartReading(c)
                \/ OnBadFrame(c) \/ OnUnknownMethod(c) \/ CallClient(c) \/ CallFromDeleted(c)
      PROVE  Narrowed /\ UNCHANGED <<started, running, replies,
                                    handshake_finished, established>>
  <2>1. Narrowed
    BY <1>1, FrameActionsNarrow, LoopActionsNarrow
  <2> QED
    BY <1>1, <2>1 DEF OnListenFails, OnEndOrError, OnClose, StartReading, OnBadFrame,
          OnUnknownMethod, CallClient, CallFromDeleted
<1>2. ASSUME NEW c \in Conn, NEW k \in Call, OnResponse(c, k) \/ OnStrayResponse(c, k)
      PROVE  Narrowed /\ UNCHANGED <<started, running, replies,
                                    handshake_finished, established>>
  <2>1. Narrowed
    BY <1>2, FrameActionsNarrow
  <2> QED BY <1>2, <2>1 DEF OnResponse, OnStrayResponse, vars
<1>3. ASSUME StopReading \/ OnListenerClose \/ Stop
      PROVE  Narrowed /\ UNCHANGED <<started, running, replies,
                                    handshake_finished, established>>
  <2>1. Narrowed
    BY <1>3, LoopActionsNarrow
  <2> QED BY <1>3, <2>1 DEF StopReading, OnListenerClose, Stop
<1>4. ASSUME UNCHANGED vars
      PROVE  Narrowed /\ UNCHANGED <<started, running, replies,
                                    handshake_finished, established>>
  BY <1>4, StillNarrows DEF vars
<1> QED BY <1>1, <1>2, <1>3, <1>4 DEF Next

LEMMA NextRequests == StreamInv /\ RequestInv /\ [Next]_vars => RequestInv'
<1> SUFFICES ASSUME StreamInv, RequestInv, [Next]_vars PROVE RequestInv'
  OBVIOUS
<1>1. ASSUME NEW c \in Conn, OnListen(c) PROVE RequestInv'
  <2>1. /\ handle[c] = "new" /\ is_connected' = is_connected \cup {c}
        /\ handle' = [handle EXCEPT ![c] = "up"]
        /\ UNCHANGED <<started, running, replies, handshake_finished>>
    BY <1>1 DEF OnListen, methodVars
  <2>2. \A p \in started : p[1] # c
    BY <2>1 DEF RequestInv
  <2>3. handshake_finished' \subseteq {d \in Conn : handle'[d] # "new"}
    BY <2>1 DEF RequestInv, StreamInv, StreamType
  <2> QED BY <1>1, <2>1, <2>2, <2>3 DEF RequestInv, RequestsAccounted, OnListen, Running
<1>2. ASSUME NEW c \in Conn, NEW accept \in BOOLEAN, OnHello(c, accept) PROVE RequestInv'
  <2>1. Narrowed
    BY <1>2, FrameActionsNarrow
  <2>2. handshake_finished' = handshake_finished \cup {c} /\ handle[c] # "new"
    BY <1>2, ServerAssumption DEF OnHello, StreamInv, StreamType, FlagsMirrorHandles
  <2> QED BY <1>2, <2>1, <2>2, QuietRequests DEF OnHello, methodVars, RequestInv
<1>3. CASE Narrowed /\ UNCHANGED <<started, running, replies, handshake_finished, established>>
  BY <1>3, QuietRequests DEF RequestInv
<1> QED BY <1>1, <1>2, <1>3, OtherSteps, RequestStarted, RequestAnswered

LEMMA AlwaysRequests == Spec => [](StreamInv /\ RequestInv)
BY InitStreams, NextStreams, InitRequests, NextRequests, PTL DEF Spec

(* A request is answered exactly once when its method has finished, unless *)
(* whoever asked is not connected any more.                                *)
THEOREM RequestsAnsweredOnce == Spec => []RequestsAccounted
<1>1. RequestInv => RequestsAccounted
  BY DEF RequestInv
<1> QED BY <1>1, AlwaysRequests, PTL

(***************************************************************************)
(* Who is served                                                           *)
(***************************************************************************)

(* A hello that is refused leaves the handshake finished and the client    *)
(* not established; that nothing is written to it after all rests on its   *)
(* socket, which is not connected any more.                                *)
ServedInv ==
    /\ OnlyEstablishedAreServed
    /\ handshake_finished \cap is_connected \subseteq established
    /\ established \subseteq handshake_finished
    /\ asked \in SUBSET (Conn \X Call)

LEMMA InitServed == Init => ServedInv
BY DEF Init, ServedInv, OnlyEstablishedAreServed

(* Calls are made to established clients only.                             *)
LEMMA CallsMade ==
    ASSUME [Next]_vars
    PROVE  \/ asked' = asked
           \/ \E c \in Conn : /\ CallClient(c) /\ c \in established /\ Writable(c)
                             /\ next_message_id[c] \in Call
                             /\ asked' = asked \cup {<<c, next_message_id[c]>>}
<1>1. ASSUME NEW c \in Conn, CallClient(c), asked' # asked
      PROVE  /\ c \in established /\ Writable(c)
             /\ next_message_id[c] \in Call
             /\ asked' = asked \cup {<<c, next_message_id[c]>>}
  BY <1>1 DEF CallClient
<1> QED
  BY <1>1 DEF Next, vars, callVars, OnListen, OnListenFails, OnEndOrError, OnClose, StartReading, OnBadFrame,
       OnUnknownMethod, OnHello, OnRequest, AnswerLater, OnResponse, OnStrayResponse,
       CallFromDeleted, StopReading, OnListenerClose, Stop

LEMMA NextServed == StreamInv /\ RequestInv /\ ServedInv /\ [Next]_vars => ServedInv'
<1> SUFFICES ASSUME StreamInv, RequestInv, ServedInv, [Next]_vars PROVE ServedInv'
  OBVIOUS
<1>1. ASSUME NEW c \in Conn, OnListen(c) PROVE ServedInv'
  <2>1. c \notin handshake_finished
    BY <1>1 DEF OnListen, RequestInv
  <2> QED BY <1>1, <2>1 DEF OnListen, callVars, ServedInv, OnlyEstablishedAreServed
<1>2. ASSUME NEW c \in Conn, NEW accept \in BOOLEAN, OnHello(c, accept) PROVE ServedInv'
  <2>1. handshake_finished' = handshake_finished \cup {c} /\ UNCHANGED <<replies, asked>>
    BY <1>2 DEF OnHello, callVars
  <2>2. CASE accept
    BY <1>2, <2>1, <2>2 DEF OnHello, flagVars, ServedInv, OnlyEstablishedAreServed
  <2>3. CASE ~accept
    BY <1>2, <2>1, <2>3 DEF OnHello, StopSockets, ServedInv, OnlyEstablishedAreServed
  <2> QED BY <2>2, <2>3
<1>3. ASSUME NEW c \in Conn, NEW r \in Request, OnRequest(c, r) \/ AnswerLater(c, r)
      PROVE  ServedInv'
  <2>1. UNCHANGED <<handshake_finished, established, asked>>
    BY <1>3 DEF OnRequest, AnswerLater, callVars
  <2>2. Narrowed
    BY <1>3, FrameActionsNarrow
  <2>3. c \in handshake_finished
    <3>1. CASE OnRequest(c, r)
      BY <3>1 DEF OnRequest
    <3>2. CASE AnswerLater(c, r)
      BY <3>2 DEF AnswerLater, RequestInv
    <3> QED BY <1>3, <3>1, <3>2
  <2>4. \/ replies' = replies
        \/ c \in is_connected /\ replies' = [replies EXCEPT ![<<c, r>>] = @ + 1]
    <3>1. clients' = clients
      BY <1>3 DEF OnRequest, AnswerLater
    <3> QED BY <1>3, <3>1, ReplyNarrows DEF OnRequest, AnswerLater
  <2>5. \A p \in Conn \X Request : replies'[p] > 0 => p[1] \in established
    BY <2>3, <2>4 DEF RequestInv, ServedInv, OnlyEstablishedAreServed
  <2> QED BY <2>1, <2>2, <2>5 DEF ServedInv, OnlyEstablishedAreServed, Narrowed
<1>4. CASE Narrowed /\ UNCHANGED <<started, running, replies, handshake_finished, established>>
  <2>1. \A p \in asked' : p \in Conn \X Call /\ p[1] \in established
    BY CallsMade DEF ServedInv, OnlyEstablishedAreServed
  <2> QED BY <1>4, <2>1 DEF ServedInv, OnlyEstablishedAreServed, Narrowed
<1> QED BY <1>1, <1>2, <1>3, <1>4, OtherSteps

LEMMA AlwaysServed == Spec => [](StreamInv /\ RequestInv /\ ServedInv)
BY InitServed, NextServed, InitStreams, NextStreams, InitRequests, NextRequests, PTL DEF Spec

(* A client whose hello was refused, or that sent none, gets neither a     *)
(* reply nor a call.                                                       *)
THEOREM RefusedGetNothing == Spec => []OnlyEstablishedAreServed
<1>1. ServedInv => OnlyEstablishedAreServed
  BY DEF ServedInv
<1> QED BY <1>1, AlwaysServed, PTL

(***************************************************************************)
(* Calls to clients                                                        *)
(***************************************************************************)
PeerInv ==
    /\ PeerCallsAccounted
    /\ next_message_id \in [Conn -> 0 .. MaxCalls]
    /\ answers \in [Conn \X Call -> Nat]
    /\ \A p \in asked : p[2] < next_message_id[p[1]]

LEMMA InitPeer == Init => PeerInv
BY ServerAssumption DEF Init, PeerInv, PeerCallsAccounted

LEMMA ClientAnswers ==
    ASSUME StreamInv, ServedInv, PeerInv, NEW c \in Conn, NEW k \in Call, OnResponse(c, k)
    PROVE  PeerInv'
<1> DEFINE p == <<c, k>>
<1>1. /\ p \in promises /\ promises' = promises \ {p}
      /\ answers' = [answers EXCEPT ![p] = @ + 1]
      /\ UNCHANGED <<clients, next_message_id, asked>> /\ p \in Conn \X Call
  BY DEF OnResponse, Extracted
<1>2. p \in asked /\ answers[p] = 0
  BY <1>1 DEF PeerInv, PeerCallsAccounted
<1>3. answers' \in [Conn \X Call -> Nat] /\ answers'[p] = 1
  BY <1>1, <1>2 DEF PeerInv
<1>4. \A q \in Conn \X Call : q # p => answers'[q] = answers[q]
  BY <1>1 DEF PeerInv
<1>5. promises' = {q \in asked' : answers'[q] = 0 /\ q[1] \in clients'}
  BY <1>1, <1>3, <1>4 DEF PeerInv, PeerCallsAccounted, ServedInv
<1>6. \A q \in Conn \X Call : answers'[q] > 0 => q \in asked' /\ answers'[q] = 1
  BY <1>1, <1>2, <1>3, <1>4 DEF PeerInv, PeerCallsAccounted
<1> QED BY <1>1, <1>3, <1>5, <1>6 DEF PeerInv, PeerCallsAccounted

LEMMA ClientCalled ==
    ASSUME StreamInv, ServedInv, PeerInv, NEW c \in Conn, CallClient(c)
    PROVE  PeerInv'
<1> DEFINE k == next_message_id[c]
           p == <<c, k>>
<1>1. /\ k \in Call /\ c \in clients /\ UNCHANGED <<clients, answers>>
      /\ next_message_id' = [next_message_id EXCEPT ![c] = k + 1]
      /\ \/ asked' = asked \cup {p} /\ promises' = promises \cup {p}
         \/ UNCHANGED <<asked, promises>>
  BY DEF CallClient
<1>2. p \in Conn \X Call /\ p \notin asked /\ p[1] = c /\ p[2] = k
  BY <1>1, ServerAssumption DEF PeerInv, Call
<1>3. answers[p] = 0
  BY <1>2 DEF PeerInv, PeerCallsAccounted
<1>4. next_message_id' \in [Conn -> 0 .. MaxCalls]
  BY <1>1, ServerAssumption DEF PeerInv, Call
<1>5. \A q \in asked' : q[2] < next_message_id'[q[1]]
  BY <1>1, <1>2, ServerAssumption DEF PeerInv, ServedInv, Call
<1>6. PeerCallsAccounted'
  BY <1>1, <1>2, <1>3 DEF PeerInv, PeerCallsAccounted, ServedInv
<1> QED BY <1>1, <1>4, <1>5, <1>6 DEF PeerInv

LEMMA NextPeer == StreamInv /\ RequestInv /\ ServedInv /\ PeerInv /\ [Next]_vars => PeerInv'
<1> SUFFICES ASSUME StreamInv, RequestInv, ServedInv, PeerInv, [Next]_vars PROVE PeerInv'
  OBVIOUS
<1>1. ASSUME NEW c \in Conn, OnListen(c) PROVE PeerInv'
  <2>1. \A p \in asked : p[1] # c
    BY <1>1 DEF OnListen, RequestInv, ServedInv, OnlyEstablishedAreServed
  <2>2. clients' = clients \cup {c} /\ UNCHANGED callVars
    BY <1>1 DEF OnListen
  <2> QED BY <2>1, <2>2 DEF callVars, PeerInv, PeerCallsAccounted
<1>2. ASSUME NEW c \in Conn, OnClose(c) PROVE PeerInv'
  BY <1>2 DEF OnClose, PromisesDropped, PeerInv, PeerCallsAccounted
<1>3. ASSUME UNCHANGED <<clients, next_message_id, asked, promises, answers>> PROVE PeerInv'
  BY <1>3 DEF PeerInv, PeerCallsAccounted
<1>4. \/ \E c \in Conn : OnListen(c) \/ OnClose(c) \/ CallClient(c)
      \/ \E c \in Conn, k \in Call : OnResponse(c, k)
      \/ UNCHANGED <<clients, next_message_id, asked, promises, answers>>
  BY DEF Next, vars, connVars, callVars, OnListenFails, OnEndOrError, StartReading, OnBadFrame,
     OnUnknownMethod, OnHello, OnRequest, AnswerLater, OnStrayResponse,
     CallFromDeleted, StopReading, OnListenerClose, Stop
<1> QED BY <1>1, <1>2, <1>3, <1>4, ClientAnswers, ClientCalled

LEMMA AlwaysPeer == Spec => [](StreamInv /\ RequestInv /\ ServedInv /\ PeerInv)
BY InitPeer, NextPeer, InitServed, NextServed, InitStreams, NextStreams,
   InitRequests, NextRequests, PTL DEF Spec

(* A call to a client is answered at most once, and its promise is kept    *)
(* until then or until the client is gone.                                 *)
THEOREM PeerCallsAnsweredOnce == Spec => []PeerCallsAccounted
<1>1. PeerInv => PeerCallsAccounted
  BY DEF PeerInv
<1> QED BY <1>1, AlwaysPeer, PTL

(***************************************************************************)
(* Types, which the parts above say but for the listener                   *)
(***************************************************************************)
ListenerType == listener \in {"on", "closing", "closed"}

LEMMA NextListener == ListenerType /\ [Next]_vars => ListenerType'
<1> SUFFICES ASSUME ListenerType, [Next]_vars PROVE ListenerType'
  OBVIOUS
<1>1. CASE OnListenerClose \/ Stop
  BY <1>1 DEF OnListenerClose, Stop, ListenerType
<1>2. CASE ~(OnListenerClose \/ Stop)
  <2>1. listener' = listener
    BY <1>2 DEF Next, vars, connVars, OnListen, OnListenFails, OnEndOrError, OnClose, StartReading, OnBadFrame,
       OnUnknownMethod, CallClient, OnHello, OnRequest, AnswerLater, OnResponse, OnStrayResponse,
       CallFromDeleted, StopReading
  <2> QED BY <2>1 DEF ListenerType
<1> QED BY <1>1, <1>2

(* Every variable of the server keeps its type, and no request gets two    *)
(* replies.                                                                *)
THEOREM ServerTypes == Spec => []TypeOK
<1>1. Init => ListenerType
  BY DEF Init, ListenerType
<1>2. ListenerType /\ StreamInv /\ RequestInv /\ ServedInv /\ PeerInv => TypeOK
  BY DEF TypeOK, ListenerType, StreamInv, StreamType, RequestInv, ServedInv, PeerInv,
     PeerCallsAccounted, Deaths
<1> QED BY <1>1, <1>2, NextListener, AlwaysPeer, PTL DEF Spec

(***************************************************************************)
(* Exceptions                                                              *)
(***************************************************************************)
SyncInv == running = {} /\ OwnHandlersNeverThrow

LEMMA CaughtWhileReading ==
    ASSUME NEW c \in Conn, reading = c,
           Thrown \/ Escape \/ (\E r \in Request : Reply(c, r)),
           OwnHandlersNeverThrow
    PROVE  OwnHandlersNeverThrow'
BY ServerAssumption DEF Thrown, Escape, Reply, OwnHandlersNeverThrow

LEMMA NextSync == ~Async /\ SyncInv /\ [Next]_vars => SyncInv'
<1> SUFFICES ASSUME ~Async, running = {}, OwnHandlersNeverThrow, [Next]_vars
             PROVE  running' = {} /\ OwnHandlersNeverThrow'
  BY DEF SyncInv
<1> DEFINE Safe == running' = {} /\ OwnHandlersNeverThrow'
<1>7. ASSUME UNCHANGED <<running, aborted>> PROVE Safe
  BY <1>7 DEF OwnHandlersNeverThrow
<1>1. ASSUME NEW c \in Conn, OnBadFrame(c) PROVE Safe
  BY <1>1, CaughtWhileReading DEF OnBadFrame, methodVars
<1>2. ASSUME NEW c \in Conn, OnUnknownMethod(c) PROVE Safe
  <2>1. CASE Writable(c)
    BY <1>2, <1>7, <2>1 DEF OnUnknownMethod, methodVars
  <2>2. CASE ~Writable(c)
    BY <1>2, <2>2, CaughtWhileReading DEF OnUnknownMethod, methodVars
  <2> QED BY <2>1, <2>2
<1>3. ASSUME NEW c \in Conn, CallClient(c) PROVE Safe
  <2>1. CASE c \in established /\ Writable(c)
    BY <1>3, <1>7, <2>1 DEF CallClient, methodVars
  <2>2. CASE ~(c \in established /\ Writable(c))
    BY <1>3, <2>2, CaughtWhileReading DEF CallClient, methodVars
  <2> QED BY <2>1, <2>2
<1>4. ASSUME NEW c \in Conn, NEW r \in Request, OnRequest(c, r) PROVE Safe
  BY <1>4, <1>7, CaughtWhileReading DEF OnRequest
<1>5. ASSUME NEW c \in Conn, NEW k \in Call, OnResponse(c, k) PROVE Safe
  BY <1>5, <1>7, CaughtWhileReading DEF OnResponse, methodVars
<1>6. ASSUME NEW c \in Conn, NEW r \in Request, AnswerLater(c, r) PROVE FALSE
  BY <1>6 DEF AnswerLater
<1>8. ASSUME NEW c \in Conn, CallFromDeleted(c) PROVE FALSE
  BY <1>8 DEF CallFromDeleted
<1>10. ASSUME NEW c \in Conn, OnListenFails(c) PROVE Safe
  BY <1>10 DEF OnListenFails, methodVars, OwnHandlersNeverThrow
<1>9. \/ \E c \in Conn : \/ OnListenFails(c) \/ OnBadFrame(c) \/ OnUnknownMethod(c)
                        \/ CallClient(c)
      \/ \E c \in Conn, r \in Request : OnRequest(c, r) \/ AnswerLater(c, r)
      \/ \E c \in Conn, k \in Call : OnResponse(c, k)
      \/ UNCHANGED <<running, aborted>>
  BY <1>8 DEF Next, vars, methodVars, OnListen, OnEndOrError, OnClose, StartReading, OnHello,
     OnStrayResponse, StopReading, OnListenerClose, Stop
<1> QED BY <1>1, <1>2, <1>3, <1>4, <1>5, <1>6, <1>7, <1>9, <1>10

(* With methods that answer before they return and call their client only  *)
(* then, whatever leaves the loop was thrown by the application: past      *)
(* on_data(), as no std::exception, or by the factory of its objects.      *)
THEOREM SyncHandlersNeverThrow ==
    ASSUME ~Async
    PROVE  Spec => []OwnHandlersNeverThrow
<1>1. Init => SyncInv
  BY DEF Init, SyncInv, OwnHandlersNeverThrow
<1>2. SyncInv /\ [Next]_vars => SyncInv'
  BY NextSync
<1>3. SyncInv => OwnHandlersNeverThrow
  BY DEF SyncInv
<1> QED BY <1>1, <1>2, <1>3, PTL DEF Spec
=============================================================================
