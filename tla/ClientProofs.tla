---------------------------- MODULE ClientProofs ----------------------------
(***************************************************************************)
(* The calls made on a generic_client, whatever happens to its             *)
(* connections, and then its connections and timers themselves, however    *)
(* many handles, timers and calls there are.                               *)
(***************************************************************************)
EXTENDS Client, TLAPS

(***************************************************************************)
(* Types                                                                   *)
(***************************************************************************)

(* The type invariant in three parts: an action disturbs at most one or    *)
(* two of them.                                                            *)
Delay == {0} \cup {2 ^ i : i \in 0 .. 6}

Deaths == {"no", "null", "unconnected", "freed", "foreign", "reply"}

ConnType ==
    /\ handle \in [Conn -> {"free", "connecting", "up", "closing"}]
    /\ sock \in Conn \cup {None}
    /\ is_open \in BOOLEAN /\ is_connected \in BOOLEAN
    /\ handshake_finished \in BOOLEAN
    /\ hellos \in Nat
    /\ asked \in SUBSET Call
    /\ owed \in SUBSET {"here", "gone"}
    /\ aborted \in Deaths

RetryType ==
    /\ is_active \in BOOLEAN
    /\ n_failures \in 0 .. FailureCap
    /\ timer \in Timer \cup {None}
    /\ armed \in SUBSET Timer
    /\ wait \in [Timer -> Delay]

CallType ==
    /\ next_message_id \in 0 .. MaxCalls
    /\ pending_messages \in Seq(Call)
    /\ promises \in SUBSET Call
    /\ sent \in Seq(Call)
    /\ resolutions \in [Call -> Nat]
    /\ threw \in SUBSET Call

LEMMA TypeParts == TypeOK <=> ConnType /\ RetryType /\ CallType
BY DEF TypeOK, ConnType, RetryType, CallType, Delay, Deaths

(* Whatever number of failures is counted, the delay is one of the eight.  *)
LEMMA BackoffType == \A n \in 0 .. FailureCap : Backoff(n) \in Delay
<1> SUFFICES ASSUME NEW n \in 0 .. FailureCap PROVE Backoff(n) \in Delay
  OBVIOUS
<1>1. Doublings(n) \in 0 .. 6
  BY DEF Doublings, Smaller, FailureCap
<1> QED BY <1>1 DEF Backoff, Delay

LEMMA RangeType ==
    ASSUME NEW S, NEW s \in Seq(S)
    PROVE  Range(s) \subseteq S
BY DEF Range

LEMMA RangeOfAppend ==
    ASSUME NEW S, NEW s \in Seq(S), NEW x \in S
    PROVE  Range(Append(s, x)) = Range(s) \cup {x}
<1>1. Append(s, x) \in Seq(S) /\ Len(Append(s, x)) = Len(s) + 1
  OBVIOUS
<1>2. \A i \in 1 .. Len(s) : Append(s, x)[i] = s[i]
  OBVIOUS
<1>3. Append(s, x)[Len(s) + 1] = x
  OBVIOUS
<1>4. DOMAIN s = 1 .. Len(s) /\ DOMAIN Append(s, x) = 1 .. Len(s) + 1
  BY <1>1
<1>5. Len(s) \in Nat
  OBVIOUS
<1> QED BY <1>2, <1>3, <1>4, <1>5 DEF Range

LEMMA RangeOfConcat ==
    ASSUME NEW S, NEW s \in Seq(S), NEW t \in Seq(S)
    PROVE  Range(s \o t) = Range(s) \cup Range(t)
<1>1. s \o t \in Seq(S) /\ Len(s \o t) = Len(s) + Len(t)
  OBVIOUS
<1>2. \A i \in 1 .. Len(s) : (s \o t)[i] = s[i]
  OBVIOUS
<1>3. \A i \in 1 .. Len(t) : (s \o t)[Len(s) + i] = t[i]
  OBVIOUS
<1>4. /\ DOMAIN s = 1 .. Len(s) /\ DOMAIN t = 1 .. Len(t)
      /\ DOMAIN (s \o t) = 1 .. (Len(s) + Len(t))
  BY <1>1
<1>5. Len(s) \in Nat /\ Len(t) \in Nat
  OBVIOUS
<1>6. Range(s \o t) \subseteq Range(s) \cup Range(t)
  <2> SUFFICES ASSUME NEW i \in 1 .. (Len(s) + Len(t))
               PROVE  (s \o t)[i] \in Range(s) \cup Range(t)
    BY <1>4 DEF Range
  <2>1. CASE i <= Len(s)
    BY <2>1, <1>2, <1>4, <1>5 DEF Range
  <2>2. CASE i > Len(s)
    <3>1. i - Len(s) \in 1 .. Len(t)
      BY <2>2, <1>5
    <3>2. (s \o t)[Len(s) + (i - Len(s))] = t[i - Len(s)]
      BY <3>1, <1>3
    <3>3. Len(s) + (i - Len(s)) = i
      BY <1>5
    <3> QED BY <3>1, <3>2, <3>3, <1>4 DEF Range
  <2> QED BY <2>1, <2>2, <1>5
<1>7. Range(s) \subseteq Range(s \o t)
  BY <1>2, <1>4, <1>5 DEF Range
<1>8. Range(t) \subseteq Range(s \o t)
  <2> SUFFICES ASSUME NEW i \in 1 .. Len(t) PROVE t[i] \in Range(s \o t)
    BY <1>4 DEF Range
  <2>1. Len(s) + i \in 1 .. (Len(s) + Len(t))
    BY <1>5
  <2> QED BY <2>1, <1>3, <1>4 DEF Range
<1> QED BY <1>6, <1>7, <1>8

(* socket::stop() leaves every handle with a state.                        *)
LEMMA StoppedHandlesType ==
    ASSUME ConnType
    PROVE  StoppedHandles \in [Conn -> {"free", "connecting", "up", "closing"}]
BY DEF ConnType, StoppedHandles

LEMMA DropSocketType ==
    ASSUME ConnType, DropSocket,
           handle' \in [Conn -> {"free", "connecting", "up", "closing"}],
           aborted' \in Deaths
    PROVE  ConnType'
BY DEF ConnType, DropSocket, Orphaned

LEMMA DialType ==
    ASSUME ConnType, NEW h \in Conn, Dial(h), UNCHANGED aborted
    PROVE  ConnType'
BY DEF ConnType, Dial, Orphaned

LEMMA ReconnectType ==
    ASSUME RetryType, NEW due \in BOOLEAN, Reconnect(due)
    PROVE  RetryType'
<1>1. n_failures' \in 0 .. FailureCap /\ is_active' \in BOOLEAN
  BY DEF RetryType, Reconnect, Smaller, FailureCap
<1>2. Backoff(n_failures') \in Delay
  BY <1>1, BackoffType
<1>3. CASE is_active
  <2>1. PICK t \in Timer \ armed :
            /\ armed' = armed \cup {t}
            /\ timer' = t
            /\ wait' = [wait EXCEPT ![t] = Backoff(n_failures')]
    BY <1>3 DEF Reconnect, Rearm
  <2>2. wait' \in [Timer -> Delay]
    BY <1>2, <2>1 DEF RetryType
  <2> QED BY <1>1, <2>1, <2>2 DEF RetryType
<1>4. CASE ~is_active
  BY <1>1, <1>4 DEF RetryType, Reconnect, Rearm
<1> QED BY <1>3, <1>4

LEMMA FlushType ==
    ASSUME CallType PROVE Range(pending_messages) \subseteq Call
BY RangeType DEF CallType

LEMMA ResolveType ==
    ASSUME CallType, NEW k \in Call, Resolve(k) PROVE CallType'
BY DEF Resolve, CallType, Extract

LEMMA LeaveType ==
    ASSUME ConnType, RetryType, Leave PROVE ConnType' /\ RetryType'
<1>1. ConnType'
  BY StoppedHandlesType, DropSocketType DEF Leave, Reconnect, Deaths
<1>2. CASE Reconnect(FALSE)
  BY <1>1, <1>2, ReconnectType
<1>3. CASE is_active' = FALSE /\ DropSocket /\ ForgetTimer /\ UNCHANGED n_failures
  BY <1>1, <1>3 DEF ForgetTimer, RetryType, Delay
<1> QED BY <1>2, <1>3 DEF Leave

LEMMA InitType == Init => TypeOK
<1> SUFFICES ASSUME Init PROVE ConnType /\ RetryType /\ CallType
  BY TypeParts
<1>1. ConnType
  BY ClientAssumption DEF Init, ConnType, Deaths
<1>2. RetryType
  BY ClientAssumption DEF Init, RetryType, FailureCap, Delay
<1>3. CallType
  BY ClientAssumption DEF Init, CallType, Call
<1> QED BY <1>1, <1>2, <1>3

LEMMA NextType == TypeOK /\ [Next]_vars => TypeOK'
<1> SUFFICES ASSUME ConnType, RetryType, CallType, [Next]_vars
             PROVE  ConnType' /\ RetryType' /\ CallType'
  BY DEF TypeOK, ConnType, RetryType, CallType, Delay, Deaths
<1>1. ASSUME NEW h \in Conn, OnConnect(h) PROVE ConnType' /\ RetryType' /\ CallType'
  <2>1. ConnType'
    BY <1>1 DEF OnConnect, ConnType, Deaths
  <2>2. RetryType' /\ CallType'
    BY <1>1 DEF OnConnect, RetryType, CallType, retryVars, callVars
  <2> QED BY <2>1, <2>2
<1>2. ASSUME NEW h \in Conn, OnClose(h) PROVE ConnType' /\ RetryType' /\ CallType'
  <2>1. handle' \in [Conn -> {"free", "connecting", "up", "closing"}]
    BY <1>2, StoppedHandlesType DEF OnClose
  <2>2. ConnType'
    BY <1>2, <2>1, DropSocketType DEF OnClose, Reconnect, ConnType
  <2>3. RetryType'
    BY <1>2, ReconnectType DEF OnClose
  <2>4. CallType'
    BY <1>2 DEF OnClose, CallType, callVars
  <2> QED BY <2>2, <2>3, <2>4
<1>3. ASSUME NEW t \in Timer, OnTimer(t) PROVE ConnType' /\ RetryType' /\ CallType'
  <2>1. ConnType'
    BY <1>3, DialType DEF OnTimer
  <2>2. RetryType'
    BY <1>3 DEF OnTimer, RetryType, Delay
  <2>3. CallType'
    BY <1>3 DEF OnTimer, CallType, callVars
  <2> QED BY <2>1, <2>2, <2>3
<1>4. CASE OnEnd \/ OnError
  <2>1. LoseConnection
    BY <1>4 DEF OnEnd, OnError
  <2>2. ConnType'
    BY <2>1 DEF LoseConnection, ConnType
  <2>3. RetryType' /\ CallType'
    BY <2>1 DEF LoseConnection, RetryType, CallType, retryVars, callVars
  <2> QED BY <2>2, <2>3
<1>5. CASE OnHandshake
  <2>1. Range(pending_messages) \subseteq Call
    BY FlushType
  <2>2. ConnType'
    BY <1>5, <2>1 DEF OnHandshake, ConnType
  <2>3. RetryType'
    BY <1>5 DEF OnHandshake, RetryType, retryVars
  <2>4. CallType'
    BY <1>5 DEF OnHandshake, CallType, AfterFlush
  <2> QED BY <2>2, <2>3, <2>4
<1>6. CASE OnHandshakeRefused
  <2>1. ConnType'
    BY <1>6, StoppedHandlesType, DropSocketType DEF OnHandshakeRefused, Reconnect, Deaths
  <2>2. RetryType'
    BY <1>6, ReconnectType DEF OnHandshakeRefused
  <2>3. CallType'
    BY <1>6 DEF OnHandshakeRefused, CallType, callVars
  <2> QED BY <2>1, <2>2, <2>3
<1>7. CASE OnBadData
  <2>1. ConnType'
    BY <1>7, StoppedHandlesType DEF OnBadData, StopSocket, ConnType
  <2>2. RetryType' /\ CallType'
    BY <1>7 DEF OnBadData, RetryType, CallType, retryVars, callVars
  <2> QED BY <2>1, <2>2
<1>8. ASSUME NEW k \in Call, OnResponse(k) PROVE ConnType' /\ RetryType' /\ CallType'
  <2>3. ConnType'
    <3>1. CASE StopSocket
      BY <3>1, StoppedHandlesType DEF StopSocket, ConnType
    <3>2. CASE Escape \/ UNCHANGED <<connVars, hellos, asked, owed, aborted>>
      BY <3>2 DEF Escape, connVars, ConnType, Deaths
    <3> QED BY <1>8, <3>1, <3>2 DEF OnResponse
  <2>4. RetryType'
    BY <1>8 DEF OnResponse, RetryType, retryVars
  <2>5. CallType'
    BY <1>8, ResolveType DEF OnResponse
  <2> QED BY <2>3, <2>4, <2>5
<1>9. CASE Invoke
  <2>1. next_message_id' \in 0 .. MaxCalls /\ next_message_id \in Call
    BY <1>9, ClientAssumption DEF Invoke, CallType, Call
  <2>2. ConnType'
    BY <1>9, <2>1 DEF Invoke, ConnType, connVars
  <2>3. RetryType'
    BY <1>9 DEF Invoke, RetryType, retryVars
  <2>4. CallType'
    <3>1. resolutions' = resolutions /\ next_message_id \in Call
      BY <1>9 DEF Invoke
    <3>2. /\ pending_messages' \in {pending_messages, Append(pending_messages, next_message_id)}
          /\ sent' \in {sent, Append(sent, next_message_id)}
          /\ promises' \in {promises, promises \cup {next_message_id}}
          /\ threw' \in {threw, threw \cup {next_message_id}}
      BY <1>9 DEF Invoke
    <3>3. pending_messages' \in Seq(Call) /\ sent' \in Seq(Call)
      <4>1. Append(pending_messages, next_message_id) \in Seq(Call)
        BY <3>1 DEF CallType
      <4>2. Append(sent, next_message_id) \in Seq(Call)
        BY <3>1 DEF CallType
      <4> QED BY <3>2, <4>1, <4>2 DEF CallType
    <3> QED BY <2>1, <3>1, <3>2, <3>3 DEF CallType
  <2> QED BY <2>2, <2>3, <2>4
<1>10. CASE Stop
  <2>1. ConnType'
    BY <1>10, StoppedHandlesType, DropSocketType DEF Stop, ConnType
  <2>2. RetryType'
    BY <1>10 DEF Stop, ForgetTimer, RetryType, Delay
  <2>3. CallType'
    BY <1>10 DEF Stop, CallType, callVars
  <2> QED BY <2>1, <2>2, <2>3
<1>11. CASE ReconnectByHand
  <2>1. ConnType'
    BY <1>11, StoppedHandlesType, DropSocketType DEF ReconnectByHand, Reconnect, ConnType
  <2>2. RetryType'
    BY <1>11, ReconnectType DEF ReconnectByHand
  <2>3. CallType'
    BY <1>11 DEF ReconnectByHand, CallType, callVars
  <2> QED BY <2>1, <2>2, <2>3
<1>12. CASE UNCHANGED vars
  BY <1>12 DEF vars, connVars, retryVars, callVars, ConnType, RetryType, CallType
<1>13. ASSUME NEW k \in Call, OnStrayResponse(k) PROVE UNCHANGED vars
  BY <1>13 DEF OnStrayResponse
<1>14. ASSUME NEW k \in Call, OnLastResponse(k) PROVE ConnType' /\ RetryType' /\ CallType'
  BY <1>14, LeaveType, ResolveType DEF OnLastResponse
<1>15. CASE OnLastRequest
  BY <1>15, LeaveType DEF OnLastRequest, CallType, callVars
<1>16. CASE OnRequest
  <2>1. ConnType'
    BY <1>16 DEF OnRequest, Escape, connVars, ConnType, Deaths
  <2> QED BY <1>16, <2>1 DEF OnRequest, RetryType, CallType, retryVars, callVars
<1>17. CASE AnswerLater
  <2>1. ConnType'
    BY <1>17 DEF AnswerLater, connVars, ConnType, Deaths
  <2> QED BY <1>17, <2>1 DEF AnswerLater, RetryType, CallType, retryVars, callVars
<1> QED
  BY <1>1, <1>2, <1>3, <1>4, <1>5, <1>6, <1>7, <1>8, <1>9, <1>10, <1>11, <1>12, <1>13,
     <1>14, <1>15, <1>16, <1>17 DEF Next

(* Every variable keeps its type, and no timer waits more than 64 seconds. *)
THEOREM ClientTypes == Spec => []TypeOK
BY InitType, NextType, PTL DEF Spec

(***************************************************************************)
(* Calls                                                                   *)
(***************************************************************************)

(* CallOrder and CallsAccounted say nothing of the flags that decide what  *)
(* invoke() does, nor of which calls a response can be for.  The two facts *)
(* that make them inductive: nothing waits behind a finished handshake, so *)
(* that a call written at once overtakes none, and what a connection was   *)
(* asked was written.                                                      *)
CallInv ==
    /\ TypeOK
    /\ CallOrder
    /\ CallsAccounted
    /\ handshake_finished => sock # None /\ pending_messages = <<>>
    /\ asked \subseteq Range(sent)

Increasing(s) == \A i, j \in 1 .. Len(s) : i < j => s[i] < s[j]

LEMMA ConcatEmpty ==
    ASSUME NEW S, NEW s \in Seq(S)
    PROVE  s \o <<>> = s
OBVIOUS

LEMMA ConcatAppend ==
    ASSUME NEW S, NEW s \in Seq(S), NEW t \in Seq(S), NEW x \in S
    PROVE  s \o Append(t, x) = Append(s \o t, x)
OBVIOUS

LEMMA RangeEmpty == Range(<<>>) = {}
BY DEF Range

(* A sequence of numbers below k stays increasing when k is appended.      *)
LEMMA IncreasingAppend ==
    ASSUME NEW S \in SUBSET Nat, NEW s \in Seq(S), NEW k \in S, Increasing(s),
           \A x \in Range(s) : x < k
    PROVE  Increasing(Append(s, k))
<1> SUFFICES ASSUME NEW i \in 1 .. Len(s) + 1, NEW j \in 1 .. Len(s) + 1, i < j
             PROVE  Append(s, k)[i] < Append(s, k)[j]
  BY DEF Increasing
<1>1. i \in 1 .. Len(s) /\ Append(s, k)[i] = s[i]
  OBVIOUS
<1>2. CASE j = Len(s) + 1
  <2>1. s[i] \in Range(s)
    BY <1>1 DEF Range
  <2> QED BY <1>1, <1>2, <2>1
<1>3. CASE j # Len(s) + 1
  <2>1. j \in 1 .. Len(s) /\ Append(s, k)[j] = s[j]
    BY <1>3
  <2> QED BY <1>1, <2>1 DEF Increasing
<1> QED BY <1>2, <1>3

LEMMA InitCalls == Init => CallInv
<1> SUFFICES ASSUME Init PROVE CallInv
  OBVIOUS
<1>1. TypeOK
  BY InitType
<1>2. sent = <<>> /\ pending_messages = <<>> /\ sent \o pending_messages = <<>>
  BY DEF Init
<1>3. CallOrder
  BY <1>2 DEF CallOrder
<1>4. CallsAccounted
  BY <1>2, RangeEmpty, ClientAssumption DEF Init, CallsAccounted, Call
<1> QED BY <1>1, <1>2, <1>3, <1>4 DEF CallInv, Init

(* Every other action leaves the calls alone, and may drop the socket, or  *)
(* replace it by one that has not shaken hands.                            *)
NoNewSocket ==
    /\ asked' \in {asked, {}}
    /\ handshake_finished' => handshake_finished /\ sock' = sock

Quiet == UNCHANGED callVars /\ NoNewSocket

LEMMA LeaveDrops == ASSUME Leave PROVE NoNewSocket
BY DEF Leave, Reconnect, DropSocket, NoNewSocket

LEMMA CallCases ==
    ASSUME Next
    PROVE  \/ Quiet \/ OnHandshake \/ Invoke
           \/ \E k \in Call : Resolve(k) /\ NoNewSocket
<1>1. ASSUME NEW h \in Conn, OnConnect(h) PROVE Quiet
  BY <1>1 DEF OnConnect, Quiet, NoNewSocket
<1>2. ASSUME NEW h \in Conn, OnClose(h) PROVE Quiet
  BY <1>2 DEF OnClose, Reconnect, DropSocket, Quiet, NoNewSocket
<1>3. ASSUME NEW t \in Timer, OnTimer(t) PROVE Quiet
  BY <1>3 DEF OnTimer, Dial, Quiet, NoNewSocket
<1>4. CASE OnEnd \/ OnError
  BY <1>4 DEF OnEnd, OnError, LoseConnection, Quiet, NoNewSocket
<1>5. CASE OnHandshakeRefused
  BY <1>5 DEF OnHandshakeRefused, Reconnect, DropSocket, Quiet, NoNewSocket
<1>6. CASE OnBadData
  BY <1>6 DEF OnBadData, StopSocket, Quiet, NoNewSocket
<1>7. ASSUME NEW k \in Call, OnStrayResponse(k) PROVE Quiet
  BY <1>7 DEF OnStrayResponse, Quiet, NoNewSocket, vars, connVars
<1>8. CASE Stop
  BY <1>8 DEF Stop, DropSocket, Quiet, NoNewSocket
<1>9. CASE ReconnectByHand
  BY <1>9 DEF ReconnectByHand, Reconnect, DropSocket, Quiet, NoNewSocket
<1>10. ASSUME NEW k \in Call, OnResponse(k) PROVE Resolve(k) /\ NoNewSocket
  BY <1>10 DEF OnResponse, StopSocket, Escape, connVars, NoNewSocket
<1>11. ASSUME NEW k \in Call, OnLastResponse(k) PROVE Resolve(k) /\ NoNewSocket
  BY <1>11, LeaveDrops DEF OnLastResponse
<1>12. CASE OnLastRequest
  BY <1>12, LeaveDrops DEF OnLastRequest, Quiet
<1>13. CASE OnRequest \/ AnswerLater
  BY <1>13 DEF OnRequest, AnswerLater, Escape, connVars, Quiet, NoNewSocket
<1> QED
  BY <1>1, <1>2, <1>3, <1>4, <1>5, <1>6, <1>7, <1>8, <1>9, <1>10, <1>11,
     <1>12, <1>13 DEF Next

LEMMA NextCalls == CallInv /\ [Next]_vars => CallInv'
<1> SUFFICES ASSUME CallInv, [Next]_vars PROVE CallInv'
  OBVIOUS
<1>t. TypeOK /\ TypeOK'
  BY NextType DEF CallInv
<1>s. /\ sent \in Seq(Call) /\ pending_messages \in Seq(Call)
      /\ sent \o pending_messages \in Seq(Call)
      /\ next_message_id \in Nat /\ Call \subseteq Nat
  BY <1>t DEF TypeOK, Call
<1>1. CASE Quiet
  <2>1. CallOrder'
    BY <1>1 DEF CallInv, CallOrder, Quiet, callVars
  <2>2. CallsAccounted'
    BY <1>1 DEF CallInv, CallsAccounted, Quiet, callVars
  <2> QED BY <1>t, <1>1, <2>1, <2>2 DEF CallInv, Quiet, NoNewSocket, callVars
<1>2. CASE OnHandshake
  <2>1. /\ sent' = sent \o pending_messages /\ pending_messages' = <<>>
        /\ sent' \o pending_messages' = sent \o pending_messages
    BY <1>2, <1>s, ConcatEmpty DEF OnHandshake, AfterFlush
  <2>2. CallOrder'
    BY <2>1 DEF CallInv, CallOrder
  <2>3. Range(sent') = Range(sent) \cup Range(pending_messages) /\ Range(pending_messages') = {}
    BY <1>s, <2>1, RangeOfConcat, RangeEmpty
  <2>4. CallsAccounted'
    BY <1>2, <2>3 DEF CallInv, CallsAccounted, OnHandshake
  <2>5. handshake_finished' => sock' # None /\ pending_messages' = <<>>
    BY <1>2, <2>1 DEF OnHandshake, Receiving
  <2>6. asked' \subseteq Range(sent')
    BY <1>2, <2>3 DEF CallInv, OnHandshake
  <2> QED BY <1>t, <2>2, <2>4, <2>5, <2>6 DEF CallInv
<1>3. ASSUME NEW k \in Call, Resolve(k), NoNewSocket PROVE CallInv'
  <2>1. UNCHANGED <<sent, pending_messages, next_message_id, threw>>
    BY <1>3 DEF Resolve
  <2>2. k \in Range(sent) /\ k \in promises
    BY <1>3 DEF Resolve, CallInv
  <2>3. resolutions[k] = 0
    BY <1>t, <2>2 DEF CallInv, CallsAccounted, TypeOK
  <2>4. CallOrder'
    BY <2>1 DEF CallInv, CallOrder
  <2>5. CallsAccounted'
    <3>1. resolutions' = [resolutions EXCEPT ![k] = 1] /\ promises' = promises \ {k}
      BY <1>3, <2>3 DEF Resolve, Extract
    <3>2. \A c \in Call : resolutions'[c] = IF c = k THEN 1 ELSE resolutions[c]
      BY <1>t, <3>1 DEF TypeOK
    <3>3. {c \in Call : resolutions'[c] > 0} = {c \in Call : resolutions[c] > 0} \cup {k}
      BY <3>2
    <3> QED BY <2>1, <2>2, <3>1, <3>2, <3>3 DEF CallInv, CallsAccounted
  <2>6. /\ handshake_finished' => sock' # None /\ pending_messages' = <<>>
        /\ asked' \subseteq Range(sent')
    BY <1>3, <2>1 DEF Resolve, NoNewSocket, CallInv
  <2> QED BY <1>t, <2>4, <2>5, <2>6 DEF CallInv
<1>4. CASE Invoke
  <2> DEFINE k == next_message_id
  <2>1. /\ k \in Call /\ k \in Nat /\ next_message_id' = k + 1
        /\ UNCHANGED <<connVars, resolutions>>
    BY <1>4, <1>s DEF Invoke
  <2>2. {c \in Call : c < k + 1} = {c \in Call : c < k} \cup {k}
    <3>1. \A c \in Call : c < k + 1 <=> c < k \/ c = k
      BY <2>1 DEF Call
    <3> HIDE DEF k
    <3> QED BY <2>1, <3>1
  <2>3. /\ Range(sent) \cup Range(pending_messages) \cup threw = {c \in Call : c < k}
        /\ k \notin Range(sent) /\ k \notin Range(pending_messages) /\ k \notin threw
    BY <1>s, <2>1 DEF CallInv, CallsAccounted
  <2>4. resolutions[k] = 0
    BY <1>t, <2>1, <2>3 DEF CallInv, CallsAccounted, TypeOK
  <2>5. Increasing(Append(sent \o pending_messages, k))
    <3>1. Increasing(sent \o pending_messages)
      BY DEF CallInv, CallOrder, Increasing
    <3>2. \A x \in Range(sent \o pending_messages) : x < k
      BY <1>s, <2>3, RangeOfConcat
    <3> QED BY <1>s, <2>1, <3>1, <3>2, IncreasingAppend
  <2>6. \/ /\ MustQueue
           /\ pending_messages' = Append(pending_messages, k)
           /\ promises' = promises \cup {k}
           /\ UNCHANGED <<asked, sent, threw>>
        \/ /\ ~MustQueue
           /\ asked' = asked \cup {k}
           /\ sent' = Append(sent, k)
           /\ promises' = promises \cup {k}
           /\ UNCHANGED <<pending_messages, threw>>
        \/ /\ threw' = threw \cup {k}
           /\ UNCHANGED <<asked, pending_messages, promises, sent>>
    BY <1>4 DEF Invoke
  <2>7. CASE /\ MustQueue
             /\ pending_messages' = Append(pending_messages, k)
             /\ promises' = promises \cup {k}
             /\ UNCHANGED <<asked, sent, threw>>
    <3>1. Range(pending_messages') = Range(pending_messages) \cup {k}
      BY <1>s, <2>1, <2>7, RangeOfAppend
    <3>2. CallsAccounted'
      BY <2>1, <2>2, <2>3, <2>4, <2>7, <3>1 DEF CallInv, CallsAccounted
    <3>3. sent' \o pending_messages' = Append(sent \o pending_messages, k)
      BY <1>s, <2>1, <2>7, ConcatAppend
    <3>4. CallOrder'
      BY <2>5, <3>3 DEF CallOrder, Increasing
    <3>5. ~handshake_finished'
      BY <2>1, <2>7 DEF MustQueue, connVars, CallInv
    <3> QED BY <1>t, <2>7, <3>2, <3>4, <3>5 DEF CallInv
  <2>8. CASE /\ ~MustQueue
             /\ asked' = asked \cup {k}
             /\ sent' = Append(sent, k)
             /\ promises' = promises \cup {k}
             /\ UNCHANGED <<pending_messages, threw>>
    <3>1. Range(sent') = Range(sent) \cup {k}
      BY <1>s, <2>1, <2>8, RangeOfAppend
    <3>2. CallsAccounted'
      BY <2>1, <2>2, <2>3, <2>4, <2>8, <3>1 DEF CallInv, CallsAccounted
    <3>3. pending_messages = <<>>
      BY <2>8 DEF MustQueue, CallInv
    <3>4. sent \o pending_messages = sent /\ sent' \o pending_messages' = Append(sent, k)
      BY <1>s, <1>t, <2>8, <3>3, ConcatEmpty DEF TypeOK
    <3>5. CallOrder'
      BY <2>5, <3>4 DEF CallOrder, Increasing
    <3> QED BY <1>t, <2>1, <2>8, <3>1, <3>2, <3>5 DEF CallInv, connVars
  <2>9. CASE /\ threw' = threw \cup {k}
             /\ UNCHANGED <<asked, pending_messages, promises, sent>>
    <3>1. CallsAccounted'
      BY <2>1, <2>2, <2>3, <2>4, <2>9 DEF CallInv, CallsAccounted
    <3>2. CallOrder'
      BY <2>9 DEF CallInv, CallOrder
    <3> QED BY <1>t, <2>1, <2>9, <3>1, <3>2 DEF CallInv, connVars
  <2> QED BY <2>6, <2>7, <2>8, <2>9
<1>5. CASE UNCHANGED vars
  <2>1. Quiet
    BY <1>5 DEF vars, connVars, Quiet, NoNewSocket
  <2> QED BY <2>1, <1>1
<1> QED BY <1>1, <1>2, <1>3, <1>4, <1>5, CallCases

LEMMA AlwaysCallInv == Spec => []CallInv
BY InitCalls, NextCalls, PTL DEF Spec

(* Calls are written in the order they were made, none of them twice, over *)
(* any number of connections and failures.                                 *)
THEOREM CallsInOrder == Spec => []CallOrder
<1>1. CallInv => CallOrder
  BY DEF CallInv
<1> QED BY <1>1, AlwaysCallInv, PTL

(* No call is lost by the client, and none is answered twice.              *)
THEOREM NoCallLost == Spec => []CallsAccounted
<1>1. CallInv => CallsAccounted
  BY DEF CallInv
<1> QED BY <1>1, AlwaysCallInv, PTL

(***************************************************************************)
(* Refinement of CallLedger                                                *)
(***************************************************************************)

LEMMA InitLedger == Init => Ledger!Init
BY DEF Init, Ledger!Init, Ledger!Calls, Call

(* Only the three actions that touch the calls are steps of the ledger:    *)
(* a finished handshake flushes, a response answers, invoke() makes a call.*)
LEMMA NextLedger == CallInv /\ [Next]_vars => [Ledger!Next]_(Ledger!ledger)
<1> SUFFICES ASSUME CallInv, [Next]_vars PROVE [Ledger!Next]_(Ledger!ledger)
  OBVIOUS
<1>1. CASE Quiet \/ UNCHANGED vars
  BY <1>1 DEF Quiet, vars, callVars, Ledger!ledger
<1>2. CASE OnHandshake
  <2>1. Ledger!Flush
    BY <1>2 DEF OnHandshake, AfterFlush, Ledger!Flush
  <2> QED BY <2>1 DEF Ledger!Next
<1>3. ASSUME NEW k \in Call, Resolve(k) PROVE Ledger!Next
  <2>1. k \in Range(sent) /\ k \in promises
    BY <1>3 DEF Resolve, CallInv
  <2>2. resolutions[k] = 0
    BY <2>1 DEF CallInv, CallsAccounted, TypeOK
  <2>3. resolutions' = [resolutions EXCEPT ![k] = 1]
    BY <1>3, <2>2 DEF Resolve
  <2>4. UNCHANGED <<next_message_id, pending_messages, sent, threw>>
    BY <1>3 DEF Resolve
  <2>5. Ledger!Answer(k)
    BY <2>1, <2>2, <2>3, <2>4 DEF Ledger!Answer, Ledger!Range, Range
  <2> QED BY <2>5 DEF Ledger!Next, Ledger!Calls, Call
<1>4. CASE Invoke
  <2>1. ~MustQueue => pending_messages = <<>>
    BY DEF MustQueue, CallInv
  <2>2. Ledger!Make
    BY <1>4, <2>1 DEF Invoke, Ledger!Make, Ledger!Calls, Call
  <2> QED BY <2>2 DEF Ledger!Next
<1> QED BY <1>1, <1>2, <1>3, <1>4, CallCases

(* A generic_client implements CallLedger: whatever happens to its         *)
(* connections, its calls are queued, written, answered or refused as the  *)
(* ledger allows.                                                          *)
THEOREM ClientKeepsLedger == Spec => KeepsLedger
BY InitLedger, NextLedger, AlwaysCallInv, PTL DEF Spec, KeepsLedger, Ledger!Spec

(***************************************************************************)
(* The connections and timers, however many of them there are: what the    *)
(* client's flags and its pointer say of them, and that one failure leads  *)
(* to one attempt as long as hellos are accepted.                          *)
(***************************************************************************)
LEMMA InitFlags == Init => FlagsMirrorHandle
BY ClientAssumption DEF Init, FlagsMirrorHandle

LEMMA NextFlags == TypeOK /\ FlagsMirrorHandle /\ [Next]_vars => FlagsMirrorHandle'
<1> SUFFICES ASSUME ConnType, FlagsMirrorHandle, [Next]_vars PROVE FlagsMirrorHandle'
  BY TypeParts
<1> USE DEF FlagsMirrorHandle
<1>1. ASSUME NEW h \in Conn, OnConnect(h) PROVE FlagsMirrorHandle'
  BY <1>1, ClientAssumption DEF OnConnect, ConnType, retryVars, callVars
<1>2. ASSUME DropSocket PROVE FlagsMirrorHandle'
  BY <1>2 DEF DropSocket
<1>3. ASSUME NEW t \in Timer, OnTimer(t) PROVE FlagsMirrorHandle'
  BY <1>3, ClientAssumption DEF OnTimer, Dial, ConnType
<1>4. CASE OnEnd \/ OnError
  BY <1>4 DEF OnEnd, OnError, LoseConnection, ConnType, callVars
<1>5. CASE OnHandshake
  BY <1>5 DEF OnHandshake, Receiving, AfterFlush
<1>6. ASSUME StopSocket, UNCHANGED pending_messages PROVE FlagsMirrorHandle'
  BY <1>6 DEF StopSocket, StoppedHandles, ConnType
<1>7. ASSUME UNCHANGED <<connVars, hellos>>, pending_messages = <<>> => pending_messages' = <<>>
      PROVE  FlagsMirrorHandle'
  BY <1>7 DEF connVars
<1>8. CASE Invoke
  <2>1. handshake_finished => pending_messages' = pending_messages
    BY <1>8 DEF Invoke, MustQueue
  <2> QED BY <1>8, <2>1 DEF Invoke, connVars
<1>9. ASSUME NEW k \in Call, OnResponse(k) PROVE FlagsMirrorHandle'
  BY <1>9, <1>6, <1>7 DEF OnResponse, Resolve, Escape
<1>10. CASE OnBadData
  BY <1>10, <1>6 DEF OnBadData, callVars
<1>11. CASE OnRequest \/ AnswerLater
  BY <1>11, <1>7 DEF OnRequest, AnswerLater, Escape, callVars
<1>12. \/ \E h \in Conn : OnConnect(h)
       \/ \E t \in Timer : OnTimer(t)
       \/ DropSocket \/ OnRequest \/ AnswerLater
       \/ OnEnd \/ OnError \/ OnHandshake \/ OnBadData \/ Invoke
       \/ \E k \in Call : OnResponse(k)
       \/ UNCHANGED vars
  BY DEF Next, OnClose, OnHandshakeRefused, Reconnect, Stop, ReconnectByHand, OnStrayResponse,
     OnLastResponse, OnLastRequest, Leave
<1> QED
  BY <1>1, <1>2, <1>3, <1>4, <1>5, <1>7, <1>8, <1>9, <1>10, <1>11, <1>12 DEF vars, callVars

(* The flags of *sock, from which invoke() and stop() decide what to do,   *)
(* agree with what the loop knows of its handle, whatever goes wrong.      *)
THEOREM FlagsAgree == Spec => []FlagsMirrorHandle
BY InitFlags, NextFlags, InitType, NextType, PTL DEF Spec

(***************************************************************************)
(* The timer                                                               *)
(***************************************************************************)

(* reconnect() counts a failure even if the client was stopped, and then   *)
(* starts no timer: there must be none whose delay would be out of date.   *)
TimerInv == TimerNotDangling /\ (~is_active => timer = None)

LEMMA ReconnectTimer ==
    ASSUME RetryType, TimerInv, NEW due \in BOOLEAN, Reconnect(due)
    PROVE  TimerInv'
<1>1. CASE is_active
  <2>1. PICK t \in Timer : /\ armed' = armed \cup {t} /\ timer' = t
                           /\ wait' = [wait EXCEPT ![t] = Backoff(n_failures')]
    BY <1>1 DEF Reconnect, Rearm
  <2>2. wait'[t] = Backoff(n_failures')
    BY <2>1 DEF RetryType
  <2>3. Backoff(n_failures)' = Backoff(n_failures')
    BY DEF Backoff, Doublings, Smaller
  <2> QED BY <1>1, <2>1, <2>2, <2>3 DEF TimerInv, TimerNotDangling, Reconnect
<1>2. CASE ~is_active
  BY <1>2 DEF Reconnect, Rearm, TimerInv, TimerNotDangling
<1> QED BY <1>1, <1>2

LEMMA NextTimer == TypeOK /\ TimerInv /\ [Next]_vars => TimerInv'
<1> SUFFICES ASSUME RetryType, TimerInv, [Next]_vars PROVE TimerInv'
  BY TypeParts
<1>1. ASSUME NEW t \in Timer, OnTimer(t) PROVE TimerInv'
  BY <1>1 DEF OnTimer, TimerInv, TimerNotDangling
<1>2. ASSUME ForgetTimer PROVE TimerInv'
  BY <1>2 DEF ForgetTimer, TimerInv, TimerNotDangling
<1>3. ASSUME UNCHANGED retryVars PROVE TimerInv'
  BY <1>3 DEF retryVars, TimerInv, TimerNotDangling, Backoff, Doublings, Smaller
<1>4. \/ \E due \in BOOLEAN : Reconnect(due)
      \/ \E t \in Timer : OnTimer(t)
      \/ ForgetTimer
      \/ UNCHANGED retryVars
  BY DEF Next, OnConnect, OnClose, OnEnd, OnError, LoseConnection, OnHandshake,
     OnHandshakeRefused, OnBadData, OnResponse, OnStrayResponse, Invoke, ReconnectByHand, Stop,
     OnLastResponse, OnLastRequest, OnRequest, AnswerLater, Leave, vars
<1> QED BY <1>1, <1>2, <1>3, <1>4, ReconnectTimer

(* The raw pointer to a timer never dangles, and the timer it designates   *)
(* waits as long as the failures counted so far call for.                  *)
THEOREM TimerIsArmed == Spec => []TimerNotDangling
<1>1. Init => TimerInv
  BY DEF Init, TimerInv, TimerNotDangling
<1>2. TimerInv => TimerNotDangling
  BY DEF TimerInv
<1> QED BY <1>1, <1>2, NextTimer, InitType, NextType, PTL DEF Spec

(***************************************************************************)
(* One failure, one attempt                                                *)
(***************************************************************************)
HealthyInv == TypeOK /\ FlagsMirrorHandle /\ SingleAttempt /\ OwnHandlersNeverThrow

LEMMA InitHealthy == Init => HealthyInv
<1>1. Init => SingleAttempt /\ OwnHandlersNeverThrow
  BY ClientAssumption DEF Init, SingleAttempt, OwnHandlersNeverThrow
<1> QED BY <1>1, InitType, InitFlags DEF HealthyInv

LEMMA NextHealthy ==
    ASSUME ~MayReject, ~MayReconnect, HealthyInv, [Next]_vars
    PROVE  HealthyInv'
<1>1. /\ ConnType /\ RetryType /\ FlagsMirrorHandle /\ SingleAttempt /\ OwnHandlersNeverThrow
      /\ TypeOK' /\ FlagsMirrorHandle'
  BY NextType, NextFlags, TypeParts DEF HealthyInv
<1> SUFFICES SingleAttempt' /\ OwnHandlersNeverThrow'
  BY <1>1 DEF HealthyInv
<1> USE <1>1, ClientAssumption DEF SingleAttempt, OwnHandlersNeverThrow, ConnType
<1>2. ASSUME NEW h \in Conn, OnConnect(h) PROVE SingleAttempt' /\ OwnHandlersNeverThrow'
  <2>1. h = sock
    BY <1>2 DEF OnConnect
  <2> QED BY <1>2, <2>1 DEF OnConnect, retryVars
<1>3. ASSUME NEW h \in Conn, OnClose(h) PROVE SingleAttempt' /\ OwnHandlersNeverThrow'
  <2>1. armed = {} /\ timer = None
    BY <1>3 DEF OnClose, RetryType
  <2>2. ASSUME NEW g \in Conn, g # h PROVE StoppedHandles[g] = "free"
    <3>1. handle[g] = "free"
      BY <1>3, <2>2 DEF OnClose
    <3>2. ~(g = sock /\ is_open)
      BY <3>1 DEF FlagsMirrorHandle
    <3> QED BY <3>1, <3>2 DEF StoppedHandles
  <2>3. \A g \in Conn : handle'[g] = "free"
    <3>1. handle' = [StoppedHandles EXCEPT ![h] = "free"] /\ DOMAIN StoppedHandles = Conn
      BY <1>3 DEF OnClose, StoppedHandles
    <3>2. StoppedHandles = [g \in Conn |-> StoppedHandles[g]]
      BY DEF StoppedHandles
    <3> QED BY <2>2, <3>1, <3>2
  <2>4. \/ armed' = {} /\ timer' = None
        \/ \E t \in Timer : armed' = {t} /\ timer' = t
    BY <1>3, <2>1 DEF OnClose, Reconnect, Rearm
  <2> QED BY <1>3, <2>3, <2>4 DEF OnClose
<1>4. ASSUME NEW t \in Timer, OnTimer(t) PROVE SingleAttempt' /\ OwnHandlersNeverThrow'
  <2>1. \A g \in Conn : handle[g] = "free"
    BY <1>4 DEF OnTimer
  <2>2. PICK h \in Conn : Dial(h)
    BY <1>4 DEF OnTimer
  <2>3. armed' = {} /\ timer' = None
    BY <1>4 DEF OnTimer, RetryType
  <2> QED BY <1>4, <2>1, <2>2, <2>3 DEF OnTimer, Dial
<1>5. CASE OnEnd \/ OnError
  BY <1>5 DEF OnEnd, OnError, LoseConnection, retryVars
<1>6. ASSUME StopSocket, UNCHANGED retryVars PROVE SingleAttempt' /\ OwnHandlersNeverThrow'
  BY <1>6 DEF StopSocket, StoppedHandles, retryVars, FlagsMirrorHandle
<1>7. CASE Stop
  <2>1. armed' = {} /\ timer' = None
    BY <1>7 DEF Stop, ForgetTimer, RetryType
  <2>2. \A g \in Conn : handle'[g] \in {"free", "closing"}
    BY <1>7 DEF Stop, StoppedHandles, FlagsMirrorHandle
  <2>3. \A g \in Conn : handle'[g] # "free" => handle[g] # "free"
    BY <1>7 DEF Stop, StoppedHandles, FlagsMirrorHandle
  <2> QED BY <1>7, <2>1, <2>2, <2>3 DEF Stop
<1>8. ASSUME UNCHANGED <<handle, sock, timer, armed>>,
             aborted' \in {aborted, "foreign", "reply"}
      PROVE  SingleAttempt' /\ OwnHandlersNeverThrow'
  BY <1>8
<1>9. ASSUME NEW k \in Call, OnResponse(k) PROVE SingleAttempt' /\ OwnHandlersNeverThrow'
  BY <1>9, <1>6, <1>8 DEF OnResponse, Escape, connVars, retryVars
<1>10. CASE OnBadData
  BY <1>10, <1>6 DEF OnBadData
<1>11. \/ \E h \in Conn : OnConnect(h) \/ OnClose(h)
       \/ \E t \in Timer : OnTimer(t)
       \/ OnEnd \/ OnError \/ OnBadData \/ Stop
       \/ \E k \in Call : OnResponse(k)
       \/ /\ UNCHANGED <<handle, sock, timer, armed>>
          /\ aborted' \in {aborted, "foreign", "reply"}
  BY DEF Next, OnHandshake, OnHandshakeRefused, OnStrayResponse, OnRequest, AnswerLater, Escape,
     Invoke, ReconnectByHand, OnLastResponse, OnLastRequest, Leave, vars, connVars, retryVars
<1> QED BY <1>2, <1>3, <1>4, <1>5, <1>7, <1>8, <1>9, <1>10, <1>11

LEMMA AlwaysHealthy ==
    ASSUME ~MayReject, ~MayReconnect
    PROVE  Spec => []HealthyInv
<1>1. HealthyInv /\ [Next]_vars => HealthyInv'
  BY NextHealthy
<1> QED BY <1>1, InitHealthy, PTL DEF Spec

(* While hellos are accepted and reconnect() is left to the client, it has *)
(* one handle or one timer, never more.                                    *)
THEOREM OneAttempt ==
    ASSUME ~MayReject, ~MayReconnect
    PROVE  Spec => []SingleAttempt
<1>1. HealthyInv => SingleAttempt
  BY DEF HealthyInv
<1> QED BY <1>1, AlwaysHealthy, PTL

(* Under the same conditions no event handler of the client throws into    *)
(* the loop on its own: whatever ends the process was thrown by the        *)
(* application, past on_data() or by an answer on a lost connection.       *)
THEOREM HealthyHandlersNeverThrow ==
    ASSUME ~MayReject, ~MayReconnect
    PROVE  Spec => []OwnHandlersNeverThrow
<1>1. HealthyInv => OwnHandlersNeverThrow
  BY DEF HealthyInv
<1> QED BY <1>1, AlwaysHealthy, PTL
=============================================================================
