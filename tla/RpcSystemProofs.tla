-------------------------- MODULE RpcSystemProofs ---------------------------
(***************************************************************************)
(* Proofs about RpcSystem, for every script of calls and every number of   *)
(* faults.                                                                 *)
(***************************************************************************)
EXTENDS RpcSystem, FiniteSetTheorems, TLAPS

(***************************************************************************)
(* Exceptions                                                              *)
(***************************************************************************)

(* Of the client's one handle only that of *sock connects, and what        *)
(* connects is open, so that stop() closes it.                             *)
ClientQuiet ==
    /\ aborted = "no"
    /\ DOMAIN handle = {H}
    /\ handle[H] = "connecting" => sock = H /\ is_open

ServerQuiet == s_running = {} /\ s_aborted = "no"

LEMMA ClientStepQuiet ==
    ASSUME ClientQuiet, ClientNext
    PROVE  ClientQuiet'
<1> USE DEF ClientQuiet
<1>1. CASE Connect
  BY <1>1, SystemAssumption DEF Connect, C!OnConnect, C!Running
<1>2. CASE C!LoseConnection
  BY <1>2 DEF C!LoseConnection
<1>3. CASE FailToConnect \/ LoseServer
  BY <1>2, <1>3 DEF FailToConnect, LoseServer, C!OnError, C!OnEnd
<1>4. CASE C!OnClose(H)
  BY <1>4 DEF C!OnClose, C!StoppedHandles
<1>5. CASE C!OnTimer(T)
  BY <1>5 DEF C!OnTimer, C!Dial
<1>6. CASE StopClient
  BY <1>6 DEF StopClient, C!Stop, C!StoppedHandles
<1>7. CASE UNCHANGED <<handle, sock, is_open, aborted>>
  BY <1>7
<1>8. CASE TakeHello
  BY <1>7, <1>8 DEF TakeHello, C!OnHandshake
<1>9. ASSUME NEW k \in Call, TakeAnswer(k) PROVE ClientQuiet'
  <2>1. CASE C!StopSocket
    BY <1>9, <2>1 DEF TakeAnswer, C!OnResponse, C!StopSocket, C!StoppedHandles, C!Resolve,
       C!Receiving
  <2>2. CASE UNCHANGED <<handle, sock, is_open, aborted>>
    BY <1>7, <1>9, <2>2 DEF TakeAnswer, C!OnResponse
  <2> QED BY <1>9, <2>1, <2>2 DEF TakeAnswer, C!OnResponse, C!Escape, C!connVars
<1>10. CASE C!Invoke
  BY <1>7, <1>10 DEF C!Invoke, C!connVars
<1>11. \/ Connect \/ FailToConnect \/ LoseServer \/ C!OnClose(H) \/ C!OnTimer(T)
       \/ TakeHello \/ StopClient \/ C!Invoke \/ \E k \in Call : TakeAnswer(k)
  BY DEF ClientNext, Redial, MainCalls, TakeCall, Invoke
<1> QED BY <1>1, <1>3, <1>4, <1>5, <1>6, <1>8, <1>9, <1>10, <1>11

LEMMA ServerStepQuiet ==
    ASSUME ServerQuiet, ServerNext
    PROVE  ServerQuiet'
<1> USE DEF ServerQuiet
<1>1. CASE UNCHANGED <<s_running, s_aborted>>
  BY <1>1
<1>2. CASE Close \/ Read \/ StopServer \/ CrashServer \/ RemoveFile \/ StartServer
  BY <1>1, <1>2 DEF Close, Read, StopServer, CrashServer, RemoveFile, StartServer, S!OnListenerClose,
     S!OnClose, S!StartReading, S!StopReading, S!Stop, S!methodVars, serverVars
<1>3. ASSUME NEW c \in Connection, Accept(c) \/ LoseClient(c) \/ Greet(c) PROVE ServerQuiet'
  BY <1>1, <1>3 DEF Accept, LoseClient, Greet, S!OnListen, S!OnEndOrError, S!OnHello,
     S!methodVars
<1>4. ASSUME NEW c \in Connection, s_reading = c, S!Thrown PROVE s_aborted' = "no"
  BY <1>4, SystemAssumption DEF S!Thrown
<1>5. ASSUME NEW c \in Connection, NEW k \in Call, CallBack(c, k) PROVE ServerQuiet'
  BY <1>4, <1>5 DEF CallBack, S!CallClient, S!methodVars
<1>6. ASSUME NEW c \in Connection, NEW k \in Call, Execute(c, k) PROVE ServerQuiet'
  BY <1>4, <1>6 DEF Execute, S!OnRequest, S!Escape, S!Reply
<1>7. ASSUME NEW c \in Connection, NEW n \in Callback, GoodBye(c, n) PROVE ServerQuiet'
  BY <1>4, <1>7 DEF GoodBye, S!OnResponse, S!Escape, S!methodVars
<1> QED BY <1>2, <1>3, <1>5, <1>6, <1>7 DEF ServerNext

LEMMA OneSideMoves ==
    /\ ClientNext => UNCHANGED serverVars
    /\ ServerNext => UNCHANGED clientVars
<1>1. ClientNext => UNCHANGED serverVars
  BY DEF ClientNext, Connect, FailToConnect, LoseServer, Redial, TakeHello, MainCalls,
     StopClient, TakeAnswer, TakeCall
<1>2. ServerNext => UNCHANGED clientVars
  BY DEF ServerNext, Close, Read, StopServer, CrashServer, RemoveFile, StartServer, Accept, LoseClient,
     Greet, CallBack, Execute, GoodBye
<1> QED BY <1>1, <1>2

(* Neither side lets an exception out of a callback, whichever connections *)
(* break and whichever side is stopped or killed.                          *)
THEOREM NobodyAborts == Spec => []NoAbort
<1>1. Init => ClientQuiet /\ ServerQuiet
  BY DEF Init, C!Init, S!Init, ClientQuiet, ServerQuiet
<1>2. ClientQuiet /\ ServerQuiet /\ [Next]_vars => (ClientQuiet /\ ServerQuiet)'
  <2> SUFFICES ASSUME ClientQuiet, ServerQuiet, [Next]_vars
               PROVE  (ClientQuiet /\ ServerQuiet)'
    OBVIOUS
  <2>1. CASE ClientNext
    BY <2>1, ClientStepQuiet, OneSideMoves DEF ServerQuiet, serverVars
  <2>2. CASE ServerNext
    BY <2>2, ServerStepQuiet, OneSideMoves DEF ClientQuiet, clientVars
  <2>3. CASE UNCHANGED vars
    BY <2>3 DEF ClientQuiet, ServerQuiet, vars, clientVars, serverVars
  <2> QED BY <2>1, <2>2, <2>3 DEF Next
<1>3. ClientQuiet /\ ServerQuiet => NoAbort
  BY DEF ClientQuiet, ServerQuiet, NoAbort
<1> QED BY <1>1, <1>2, <1>3, PTL DEF Spec

(***************************************************************************)
(* Messages and streams                                                    *)
(***************************************************************************)
Carries(s, k) == \E i \in 1 .. Len(s) : s[i] = CallOf(k)
Answers(s, k) == \E i \in 1 .. Len(s) : s[i] = AnswerTo(k)

(* The calls of a stream are in the order of their numbers, those in N. *)
Sorted(s, N) ==
    \A i, j \in 1 .. Len(s), k, l \in N :
        i < j /\ s[i] = CallOf(k) /\ s[j] = CallOf(l) => k < l

Increasing(q) == \A i, j \in 1 .. Len(q) : i < j => q[i] < q[j]

LEMMA CallsAreNumbers == Call \subseteq Nat /\ Callback \subseteq Nat
<1>1. Len(Script) \in Nat
  BY SystemAssumption
<1>2. IsFiniteSet({i \in 1 .. Len(Script) : Script[i] = Request})
  <2>1. IsFiniteSet(1 .. Len(Script))
    BY <1>1, FS_Interval
  <2>2. {i \in 1 .. Len(Script) : Script[i] = Request} \subseteq 1 .. Len(Script)
    OBVIOUS
  <2> QED BY <2>1, <2>2, FS_Subset
<1>3. Requests \in Nat
  BY <1>2, FS_CardinalityType DEF Requests
<1> QED BY <1>1, <1>3 DEF Call, Callback, C!Call, S!Call, MaxCalls

LEMMA Distinct ==
    ASSUME NEW j, NEW k
    PROVE  /\ CallOf(j) # Hello /\ AnswerTo(j) # Hello /\ CallOf(j) # AnswerTo(k)
           /\ CallOf(j) = CallOf(k) => j = k
           /\ AnswerTo(j) = AnswerTo(k) => j = k
BY DEF CallOf, AnswerTo, Hello

LEMMA MessageType ==
    ASSUME NEW k \in Numbers
    PROVE  CallOf(k) \in Message /\ AnswerTo(k) \in Message /\ Hello \in Message
BY DEF Message

LEMMA TailOfStream ==
    ASSUME NEW s \in Seq(Message), s # <<>>, NEW N
    PROVE  /\ Tail(s) \in Seq(Message)
           /\ \A k : Carries(Tail(s), k) => Carries(s, k)
           /\ \A k : Answers(Tail(s), k) => Answers(s, k)
           /\ Sorted(s, N) => Sorted(Tail(s), N)
<1>1. /\ Tail(s) \in Seq(Message) /\ Len(Tail(s)) = Len(s) - 1 /\ Len(s) \in Nat \ {0}
      /\ \A i \in 1 .. Len(s) - 1 : Tail(s)[i] = s[i + 1]
  OBVIOUS
<1>2. \A k : Carries(Tail(s), k) => Carries(s, k)
  <2> SUFFICES ASSUME NEW k, NEW i \in 1 .. Len(Tail(s)), Tail(s)[i] = CallOf(k)
               PROVE  Carries(s, k)
    BY DEF Carries
  <2>1. i + 1 \in 1 .. Len(s) /\ s[i + 1] = CallOf(k)
    BY <1>1
  <2> QED BY <2>1 DEF Carries
<1>3. \A k : Answers(Tail(s), k) => Answers(s, k)
  <2> SUFFICES ASSUME NEW k, NEW i \in 1 .. Len(Tail(s)), Tail(s)[i] = AnswerTo(k)
               PROVE  Answers(s, k)
    BY DEF Answers
  <2>1. i + 1 \in 1 .. Len(s) /\ s[i + 1] = AnswerTo(k)
    BY <1>1
  <2> QED BY <2>1 DEF Answers
<1>4. ASSUME Sorted(s, N) PROVE Sorted(Tail(s), N)
  <2> SUFFICES ASSUME NEW i \in 1 .. Len(Tail(s)), NEW j \in 1 .. Len(Tail(s)), i < j,
                      NEW k \in N, NEW l \in N,
                      Tail(s)[i] = CallOf(k), Tail(s)[j] = CallOf(l)
               PROVE  k < l
    BY DEF Sorted
  <2>1. /\ i + 1 \in 1 .. Len(s) /\ j + 1 \in 1 .. Len(s) /\ i + 1 < j + 1
        /\ s[i + 1] = CallOf(k) /\ s[j + 1] = CallOf(l)
    BY <1>1
  <2> QED BY <1>4, <2>1 DEF Sorted
<1> QED BY <1>1, <1>2, <1>3, <1>4

(* The call at the head comes before all others. *)
LEMMA HeadOfStream ==
    ASSUME NEW s \in Seq(Message), s # <<>>, NEW N, NEW k \in N, Head(s) = CallOf(k)
    PROVE  /\ Carries(s, k)
           /\ Sorted(s, N) => \A l \in N : Carries(Tail(s), l) => k < l
<1>1. /\ Len(Tail(s)) = Len(s) - 1 /\ Len(s) \in Nat \ {0} /\ s[1] = CallOf(k)
      /\ \A i \in 1 .. Len(s) - 1 : Tail(s)[i] = s[i + 1]
  OBVIOUS
<1>2. Carries(s, k)
  BY <1>1 DEF Carries
<1>3. ASSUME Sorted(s, N), NEW l \in N, Carries(Tail(s), l) PROVE k < l
  <2>1. PICK i \in 1 .. Len(Tail(s)) : Tail(s)[i] = CallOf(l)
    BY <1>3 DEF Carries
  <2>2. 1 \in 1 .. Len(s) /\ i + 1 \in 1 .. Len(s) /\ 1 < i + 1 /\ s[i + 1] = CallOf(l)
    BY <1>1, <2>1
  <2> QED BY <1>1, <1>3, <2>2 DEF Sorted
<1> QED BY <1>2, <1>3

LEMMA AppendToStream ==
    ASSUME NEW s \in Seq(Message), NEW m \in Message, NEW N
    PROVE  /\ Append(s, m) \in Seq(Message)
           /\ \A k : Carries(Append(s, m), k) <=> Carries(s, k) \/ m = CallOf(k)
           /\ \A k : Answers(Append(s, m), k) <=> Answers(s, k) \/ m = AnswerTo(k)
           /\ Sorted(s, N) /\ (\A k, l \in N : Carries(s, k) /\ m = CallOf(l) => k < l)
                => Sorted(Append(s, m), N)
<1> DEFINE t == Append(s, m)
<1>1. /\ t \in Seq(Message) /\ Len(t) = Len(s) + 1 /\ Len(s) \in Nat
      /\ t[Len(s) + 1] = m /\ \A i \in 1 .. Len(s) : t[i] = s[i]
  OBVIOUS
<1>2. \A i \in 1 .. Len(t) : (i \in 1 .. Len(s) /\ t[i] = s[i]) \/ (i = Len(s) + 1 /\ t[i] = m)
  BY <1>1
<1>3. 1 .. Len(s) \subseteq 1 .. Len(t) /\ Len(s) + 1 \in 1 .. Len(t)
  BY <1>1
<1> HIDE DEF t
<1>4. \A k : Carries(t, k) <=> Carries(s, k) \/ m = CallOf(k)
  BY <1>1, <1>2, <1>3 DEF Carries
<1>5. \A k : Answers(t, k) <=> Answers(s, k) \/ m = AnswerTo(k)
  BY <1>1, <1>2, <1>3 DEF Answers
<1>6. ASSUME Sorted(s, N), \A k, l \in N : Carries(s, k) /\ m = CallOf(l) => k < l
      PROVE  Sorted(t, N)
  <2> SUFFICES ASSUME NEW i \in 1 .. Len(t), NEW j \in 1 .. Len(t), i < j,
                      NEW k \in N, NEW l \in N, t[i] = CallOf(k), t[j] = CallOf(l)
               PROVE  k < l
    BY DEF Sorted
  <2>1. i \in 1 .. Len(s) /\ s[i] = CallOf(k)
    BY <1>1, <1>2
  <2>2. CASE j \in 1 .. Len(s) /\ s[j] = CallOf(l)
    BY <1>6, <2>1, <2>2 DEF Sorted
  <2>3. CASE m = CallOf(l)
    BY <1>6, <2>1, <2>3 DEF Carries
  <2> QED BY <1>2, <2>2, <2>3
<1> QED BY <1>1, <1>4, <1>5, <1>6 DEF t

LEMMA FlushToStream ==
    ASSUME NEW s \in Seq(Message), NEW q \in Seq(Call)
    PROVE  /\ s \o Flushed(q) \in Seq(Message)
           /\ \A k : Carries(s \o Flushed(q), k) <=> Carries(s, k) \/ k \in Range(q)
           /\ \A k : Answers(s \o Flushed(q), k) => Answers(s, k)
           /\ Sorted(s, Call) /\ Increasing(q)
              /\ (\A k \in Call, p \in Range(q) : Carries(s, k) => k < p)
                => Sorted(s \o Flushed(q), Call)
<1> DEFINE f == Flushed(q)
           t == s \o f
<1>1. Len(q) \in Nat /\ Len(f) = Len(q) /\ \A i \in 1 .. Len(q) : q[i] \in Call /\ f[i] = CallOf(q[i])
  BY DEF Flushed
<1>2. f \in Seq(Message)
  <2>1. \A i \in 1 .. Len(q) : CallOf(q[i]) \in Message
    BY <1>1, MessageType DEF Numbers
  <2> QED BY <1>1, <2>1 DEF Flushed
<1> HIDE DEF f
<1>3. /\ t \in Seq(Message) /\ Len(t) = Len(s) + Len(q) /\ Len(s) \in Nat
      /\ \A i \in 1 .. Len(s) : t[i] = s[i]
      /\ \A i \in 1 .. Len(q) : t[Len(s) + i] = CallOf(q[i])
  BY <1>1, <1>2
<1>4. \A i \in 1 .. Len(t) : \/ i \in 1 .. Len(s) /\ t[i] = s[i]
                             \/ \E j \in 1 .. Len(q) : i = Len(s) + j /\ t[i] = CallOf(q[j])
  <2> SUFFICES ASSUME NEW i \in 1 .. Len(t), i \notin 1 .. Len(s)
               PROVE  \E j \in 1 .. Len(q) : i = Len(s) + j /\ t[i] = CallOf(q[j])
    BY <1>3
  <2>1. i - Len(s) \in 1 .. Len(q) /\ i = Len(s) + (i - Len(s))
    BY <1>1, <1>3
  <2> QED BY <1>3, <2>1
<1>5. /\ 1 .. Len(s) \subseteq 1 .. Len(t)
      /\ \A i \in 1 .. Len(q) : Len(s) + i \in 1 .. Len(t)
  BY <1>1, <1>3
<1> HIDE DEF t
<1>6. Range(q) = {q[i] : i \in 1 .. Len(q)}
  BY DEF Range
<1>7. ASSUME NEW k PROVE Carries(t, k) <=> Carries(s, k) \/ k \in Range(q)
  <2>1. ASSUME Carries(t, k) PROVE Carries(s, k) \/ k \in Range(q)
    <3>1. PICK i \in 1 .. Len(t) : t[i] = CallOf(k)
      BY <2>1 DEF Carries
    <3>2. CASE i \in 1 .. Len(s) /\ t[i] = s[i]
      BY <3>1, <3>2 DEF Carries
    <3>3. CASE \E j \in 1 .. Len(q) : i = Len(s) + j /\ t[i] = CallOf(q[j])
      BY <1>6, <3>1, <3>3, Distinct
    <3> QED BY <1>4, <3>2, <3>3
  <2>2. ASSUME Carries(s, k) PROVE Carries(t, k)
    BY <1>3, <1>5, <2>2 DEF Carries
  <2>3. ASSUME k \in Range(q) PROVE Carries(t, k)
    <3>1. PICK i \in 1 .. Len(q) : q[i] = k
      BY <1>6, <2>3
    <3> QED BY <1>3, <1>5, <3>1 DEF Carries
  <2> QED BY <2>1, <2>2, <2>3
<1>8. ASSUME Sorted(s, Call), Increasing(q), \A k \in Call, p \in Range(q) : Carries(s, k) => k < p
      PROVE  Sorted(t, Call)
  <2> SUFFICES ASSUME NEW i \in 1 .. Len(t), NEW j \in 1 .. Len(t), i < j,
                      NEW k \in Call, NEW l \in Call, t[i] = CallOf(k), t[j] = CallOf(l)
               PROVE  k < l
    BY DEF Sorted
  <2>1. CASE j \in 1 .. Len(s)
    <3>1. i \in 1 .. Len(s)
      BY <1>3, <2>1
    <3> QED BY <1>3, <1>8, <2>1, <3>1 DEF Sorted
  <2>2. ASSUME NEW b \in 1 .. Len(q), j = Len(s) + b, t[j] = CallOf(q[b]) PROVE k < l
    <3>1. l = q[b] /\ l \in Range(q)
      BY <1>6, <2>2, Distinct
    <3>2. CASE i \in 1 .. Len(s)
      BY <1>3, <1>8, <3>1, <3>2 DEF Carries
    <3>3. ASSUME NEW a \in 1 .. Len(q), i = Len(s) + a, t[i] = CallOf(q[a]) PROVE k < l
      <4>1. k = q[a]
        BY <3>3, Distinct
      <4>2. a < b
        BY <1>3, <2>2, <3>3
      <4> QED BY <1>8, <3>1, <4>1, <4>2 DEF Increasing
    <3> QED BY <1>4, <3>2, <3>3
  <2> QED BY <1>4, <2>1, <2>2
<1>9. ASSUME NEW k, Answers(t, k) PROVE Answers(s, k)
  <2>1. PICK i \in 1 .. Len(t) : t[i] = AnswerTo(k)
    BY <1>9 DEF Answers
  <2>2. i \in 1 .. Len(s) /\ t[i] = s[i]
    BY <1>4, <2>1, Distinct
  <2> QED BY <2>1, <2>2 DEF Answers
<1> QED BY <1>3, <1>7, <1>8, <1>9 DEF t, f

(* A message is taken from one stream. *)
LEMMA TakeFromOne ==
    ASSUME NEW f \in [Connection -> Seq(Message)], NEW c \in Connection, f[c] # <<>>,
           NEW g, g = Taken(f, c), NEW N
    PROVE  /\ g \in [Connection -> Seq(Message)]
           /\ \A d \in Connection : \A k : Carries(g[d], k) => Carries(f[d], k)
           /\ \A d \in Connection : \A k : Answers(g[d], k) => Answers(f[d], k)
           /\ \A d \in Connection : Sorted(f[d], N) => Sorted(g[d], N)
<1>1. f[c] \in Seq(Message) /\ g = [f EXCEPT ![c] = Tail(f[c])]
  BY DEF Taken
<1>2. /\ Tail(f[c]) \in Seq(Message)
      /\ \A k : Carries(Tail(f[c]), k) => Carries(f[c], k)
      /\ \A k : Answers(Tail(f[c]), k) => Answers(f[c], k)
      /\ Sorted(f[c], N) => Sorted(Tail(f[c]), N)
  BY <1>1, TailOfStream
<1>3. /\ g \in [Connection -> Seq(Message)] /\ g[c] = Tail(f[c])
      /\ \A d \in Connection : d # c => g[d] = f[d]
  BY <1>1, <1>2
<1> QED BY <1>2, <1>3

(* A message is put on one stream. *)
LEMMA PutOnOne ==
    ASSUME NEW f \in [Connection -> Seq(Message)], NEW c \in Connection, NEW m \in Message
    PROVE  /\ Put(f, c, m) \in [Connection -> Seq(Message)]
           /\ \A d \in Connection : Put(f, c, m)[d] = IF d = c THEN Append(f[c], m) ELSE f[d]
<1>1. f[c] \in Seq(Message) /\ Append(f[c], m) \in Seq(Message)
  OBVIOUS
<1> QED BY <1>1 DEF Put

LEMMA PutMessage ==
    ASSUME NEW f \in [Connection -> Seq(Message)], NEW c \in Connection, NEW m \in Message
    PROVE  /\ \A d \in Connection : \A k :
                  Carries(Put(f, c, m)[d], k) <=> Carries(f[d], k) \/ (d = c /\ m = CallOf(k))
           /\ \A d \in Connection : \A k :
                  Answers(Put(f, c, m)[d], k) <=> Answers(f[d], k) \/ (d = c /\ m = AnswerTo(k))
<1>1. f[c] \in Seq(Message)
  OBVIOUS
<1>2. /\ \A k : Carries(Append(f[c], m), k) <=> Carries(f[c], k) \/ m = CallOf(k)
      /\ \A k : Answers(Append(f[c], m), k) <=> Answers(f[c], k) \/ m = AnswerTo(k)
  BY <1>1, AppendToStream
<1> QED BY <1>2, PutOnOne

LEMMA PutInOrder ==
    ASSUME NEW f \in [Connection -> Seq(Message)], NEW c \in Connection, NEW m \in Message, NEW N
    PROVE  /\ \A k, l \in N : Carries(f[c], k) /\ m = CallOf(l) => k < l
           /\ \A d \in Connection : Sorted(f[d], N)
           => \A d \in Connection : Sorted(Put(f, c, m)[d], N)
<1>1. f[c] \in Seq(Message)
  OBVIOUS
<1>2. Sorted(f[c], N) /\ (\A k, l \in N : Carries(f[c], k) /\ m = CallOf(l) => k < l)
        => Sorted(Append(f[c], m), N)
  BY <1>1, AppendToStream
<1>3. \A d \in Connection : Put(f, c, m)[d] = IF d = c THEN Append(f[c], m) ELSE f[d]
  BY PutOnOne
<1> QED BY <1>2, <1>3

(***************************************************************************)
(* The order of calls                                                      *)
(***************************************************************************)
Done(k) == \E i \in 1 .. Len(executed) : executed[i][2] = k
Carried(k) == \E c \in Connection : Carries(up[c], k)

(* A number is on its way to the server, executed or waiting only once it  *)
(* was given out, and what waits comes after all others.                   *)
NumbersInv ==
    /\ \A k \in Call : Carried(k) \/ Done(k) => k < next_message_id
    /\ \A p \in Range(pending_messages) : p < next_message_id
    /\ \A k \in Call, p \in Range(pending_messages) : Carried(k) \/ Done(k) => k < p
    /\ Increasing(pending_messages)
    /\ handshake_finished => pending_messages = <<>> /\ sock # None

(* A call is on one connection, once. *)
StreamsInv ==
    /\ \A c \in Connection : Sorted(up[c], Call)
    /\ \A c, d \in Connection, k \in Call :
           Carries(up[c], k) /\ Carries(up[d], k) => c = d

(* What was executed is not on its way any more, and came first. *)
ExecutionInv ==
    /\ \A k \in Call : Done(k) => ~Carried(k)
    /\ \A i \in 1 .. Len(executed), k \in Call :
           Carries(up[executed[i][1]], k) => executed[i][2] < k
    /\ \A i, j \in 1 .. Len(executed) : executed[i][2] = executed[j][2] => i = j
    /\ ExecutedInOrder

OrderInv == NumbersInv /\ StreamsInv /\ ExecutionInv

(* The socket stays the one it was if its handshake is over. *)
NoNewSocket == handshake_finished' => handshake_finished /\ sock' = sock

(* No stream to the server gets another call. *)
Shrinks == \A c \in Connection : /\ Sorted(up'[c], Call)
                                 /\ \A k \in Call : Carries(up'[c], k) => Carries(up[c], k)

LEMMA SameShrinks == StreamsInv /\ up' = up => Shrinks
BY DEF StreamsInv, Shrinks

LEMMA TakenShrinks ==
    ASSUME TypeOK, StreamsInv, NEW c \in Connection, up[c] # <<>>, up' = Taken(up, c)
    PROVE  up' \in [Connection -> Seq(Message)] /\ Shrinks
<1>1. up \in [Connection -> Seq(Message)]
  BY DEF TypeOK
<1> QED BY <1>1, TakeFromOne DEF StreamsInv, Shrinks

LEMMA ShrinkKeepsOrder ==
    ASSUME TypeOK, OrderInv, Shrinks, NoNewSocket,
           UNCHANGED <<pending_messages, executed>>,
           next_message_id' \in Nat, next_message_id' >= next_message_id
    PROVE  OrderInv'
<1>1. \A k \in Call : Carried(k)' => Carried(k)
  BY DEF Shrinks, Carried
<1>2. \A k \in Call : Done(k)' <=> Done(k)
  BY DEF Done
<1>3. \A k \in Call : k \in Nat
  BY CallsAreNumbers
<1>4. \A p \in Range(pending_messages) : p \in Call
  BY DEF TypeOK, Range
<1>5. NumbersInv'
  <2>1. \A k \in Call : Carried(k)' \/ Done(k)' => k < next_message_id'
    BY <1>1, <1>2, <1>3 DEF OrderInv, NumbersInv, TypeOK
  <2>2. \A p \in Range(pending_messages)' : p < next_message_id'
    BY <1>3, <1>4 DEF OrderInv, NumbersInv, TypeOK
  <2>3. \A k \in Call, p \in Range(pending_messages)' : Carried(k)' \/ Done(k)' => k < p
    BY <1>1, <1>2 DEF OrderInv, NumbersInv
  <2>4. Increasing(pending_messages)'
    BY DEF OrderInv, NumbersInv
  <2>5. (handshake_finished => pending_messages = <<>> /\ sock # None)'
    BY DEF OrderInv, NumbersInv, NoNewSocket
  <2> QED BY <2>1, <2>2, <2>3, <2>4, <2>5 DEF NumbersInv
<1>6. StreamsInv'
  BY DEF OrderInv, StreamsInv, Shrinks
<1>7. ExecutionInv'
  <2>1. \A k \in Call : Done(k)' => ~Carried(k)'
    BY <1>1, <1>2 DEF OrderInv, ExecutionInv
  <2>2. \A i \in 1 .. Len(executed), k \in Call :
            Carries(up'[executed[i][1]], k) => executed[i][2] < k
    <3> SUFFICES ASSUME NEW i \in 1 .. Len(executed), NEW k \in Call,
                        Carries(up'[executed[i][1]], k)
                 PROVE  executed[i][2] < k
      OBVIOUS
    <3>1. executed[i][1] \in Connection
      BY DEF TypeOK
    <3> QED BY <3>1 DEF OrderInv, ExecutionInv, Shrinks
  <2> QED BY <2>1, <2>2 DEF OrderInv, ExecutionInv, ExecutedInOrder
<1> QED BY <1>5, <1>6, <1>7 DEF OrderInv

(* New calls that come after all others are written on one connection. *)
LEMMA GrowthKeepsOrder ==
    ASSUME TypeOK, StreamsInv, ExecutionInv, NEW c \in Connection, NEW N \in SUBSET Call,
           \A k \in Call, n \in N : Carried(k) \/ Done(k) => k < n,
           Sorted(up'[c], Call),
           \A k \in Call : Carries(up'[c], k) <=> Carries(up[c], k) \/ k \in N,
           \A d \in Connection \ {c} : up'[d] = up[d],
           executed' = executed
    PROVE  StreamsInv' /\ ExecutionInv'
<1>1. \A k \in Call : k \in Nat
  BY CallsAreNumbers
<1>2. \A n \in N : ~Carried(n) /\ ~Done(n)
  BY <1>1
<1>3. \A d \in Connection, k \in Call :
          Carries(up'[d], k) => Carries(up[d], k) \/ (d = c /\ k \in N)
  OBVIOUS
<1>4. \A k \in Call : Done(k)' <=> Done(k)
  BY DEF Done
<1>5. \A i \in 1 .. Len(executed) :
          executed[i][1] \in Connection /\ executed[i][2] \in Call /\ Done(executed[i][2])
  <2> SUFFICES ASSUME NEW i \in 1 .. Len(executed)
               PROVE  /\ executed[i][1] \in Connection /\ executed[i][2] \in Call
                      /\ Done(executed[i][2])
    OBVIOUS
  <2>1. executed \in Seq(Connection \X Call)
    BY DEF TypeOK
  <2>2. executed[i] \in Connection \X Call
    BY <2>1
  <2> QED BY <2>2 DEF Done
<1>6. StreamsInv'
  <2>1. \A d \in Connection : Sorted(up'[d], Call)
    BY DEF StreamsInv
  <2>2. ASSUME NEW d \in Connection, NEW e \in Connection, NEW k \in Call,
               Carries(up'[d], k), Carries(up'[e], k)
        PROVE  d = e
    <3>1. CASE k \in N
      <4>1. ~Carries(up[d], k) /\ ~Carries(up[e], k)
        BY <1>2, <3>1 DEF Carried
      <4> QED BY <1>3, <2>2, <4>1
    <3>2. CASE k \notin N
      BY <1>3, <2>2, <3>2 DEF StreamsInv
    <3> QED BY <3>1, <3>2
  <2> QED BY <2>1, <2>2 DEF StreamsInv
<1>7. ExecutionInv'
  <2>1. ASSUME NEW k \in Call, Done(k)' PROVE ~Carried(k)'
    <3>1. Done(k) /\ ~Carried(k) /\ k \notin N
      BY <1>2, <1>4, <2>1 DEF ExecutionInv
    <3> QED BY <1>3, <3>1 DEF Carried
  <2>2. ASSUME NEW i \in 1 .. Len(executed), NEW k \in Call, Carries(up'[executed[i][1]], k)
        PROVE  executed[i][2] < k
    <3>1. CASE k \in N
      BY <1>5, <3>1
    <3>2. CASE Carries(up[executed[i][1]], k)
      BY <3>2 DEF ExecutionInv
    <3> QED BY <1>3, <1>5, <2>2, <3>1, <3>2
  <2> QED BY <2>1, <2>2 DEF ExecutionInv, ExecutedInOrder
<1> QED BY <1>6, <1>7

(* The calls that waited are written, in order, when the handshake is over.*)
LEMMA FlushKeepsOrder ==
    ASSUME TypeOK, OrderInv, TakeHello
    PROVE  up' \in [Connection -> Seq(Message)] /\ OrderInv'
<1> DEFINE q == pending_messages
<1>1. /\ link \in Connection /\ up' = [up EXCEPT ![link] = up[link] \o Flushed(q)]
      /\ pending_messages' = <<>> /\ sock # None
      /\ UNCHANGED <<next_message_id, executed, sock>>
  BY DEF TakeHello, Arrives, C!OnHandshake, C!AfterFlush, C!Receiving, appVars
<1>2. up[link] \in Seq(Message) /\ q \in Seq(Call)
  BY <1>1 DEF TypeOK
<1>3. /\ up[link] \o Flushed(q) \in Seq(Message) /\ Sorted(up[link] \o Flushed(q), Call)
      /\ \A k : Carries(up[link] \o Flushed(q), k) <=> Carries(up[link], k) \/ k \in Range(q)
  <2>1. \A k \in Call, p \in Range(q) : Carries(up[link], k) => k < p
    BY <1>1 DEF OrderInv, NumbersInv, Carried
  <2>2. Sorted(up[link], Call) /\ Increasing(q)
    BY <1>1 DEF OrderInv, NumbersInv, StreamsInv
  <2> QED BY <1>2, <2>1, <2>2, FlushToStream
<1>4. /\ up' \in [Connection -> Seq(Message)]
      /\ up'[link] = up[link] \o Flushed(q)
      /\ \A d \in Connection \ {link} : up'[d] = up[d]
  BY <1>1, <1>3 DEF TypeOK
<1>5. Range(q) \in SUBSET Call
  BY <1>2 DEF Range
<1>6. \A k \in Call, p \in Range(q) : Carried(k) \/ Done(k) => k < p
  BY DEF OrderInv, NumbersInv
<1> HIDE DEF q
<1>7. StreamsInv' /\ ExecutionInv'
  BY <1>1, <1>3, <1>4, <1>5, <1>6, GrowthKeepsOrder DEF OrderInv
<1>8. NumbersInv'
  <2>1. Range(<<>>) = {} /\ Increasing(<<>>)
    BY DEF Range, Increasing
  <2>2. \A k \in Call : Carried(k)' => Carried(k) \/ k \in Range(q)
    BY <1>3, <1>4 DEF Carried
  <2>3. \A k \in Call : Done(k)' <=> Done(k)
    BY <1>1 DEF Done
  <2>4. \A k \in Call : Carried(k)' \/ Done(k)' => k < next_message_id'
    BY <1>1, <2>2, <2>3 DEF OrderInv, NumbersInv, q
  <2> QED BY <1>1, <2>1, <2>4 DEF NumbersInv
<1> QED BY <1>4, <1>7, <1>8 DEF OrderInv

(* invoke() queues, writes or throws. *)
LEMMA InvokeKeepsOrder ==
    ASSUME TypeOK, OrderInv, NEW method, NEW for, Invoke(method, for), executed' = executed
    PROVE  up' \in [Connection -> Seq(Message)] /\ OrderInv'
<1> DEFINE k == next_message_id
<1>1. /\ k \in Call /\ k \in Nat /\ next_message_id' = k + 1
      /\ UNCHANGED <<sock, handshake_finished>>
  BY DEF Invoke, C!Invoke, C!connVars, C!Call, Call, TypeOK
<1>2. \A j \in Call : (Carried(j) \/ Done(j) => j < k) /\ j \in Nat
  BY CallsAreNumbers DEF OrderInv, NumbersInv
<1>3. \A j \in Call : Done(j)' <=> Done(j)
  BY DEF Done
<1> HIDE DEF k
<1>4. CASE up' = up /\ pending_messages' = pending_messages
  <2>1. Shrinks
    BY <1>4, SameShrinks DEF OrderInv
  <2> QED BY <1>1, <1>4, <2>1, ShrinkKeepsOrder DEF TypeOK, NoNewSocket, k
<1>5. CASE up' = up /\ pending_messages' = Append(pending_messages, k) /\ C!MustQueue
  <2>1. ~handshake_finished
    BY <1>5 DEF C!MustQueue, OrderInv, NumbersInv
  <2> DEFINE q == pending_messages
             r == Append(q, k)
  <2>2. q \in Seq(Call) /\ \A p \in Range(q) : p < k /\ p \in Call
    BY DEF TypeOK, OrderInv, NumbersInv, Range, k
  <2>3. /\ Len(r) = Len(q) + 1 /\ Len(q) \in Nat /\ r[Len(q) + 1] = k
        /\ \A i \in 1 .. Len(q) : r[i] = q[i] /\ q[i] \in Range(q)
    BY <1>1, <2>2 DEF Range
  <2>4. \A p \in Range(r) : p \in Range(q) \/ p = k
    <3> SUFFICES ASSUME NEW i \in 1 .. Len(r) PROVE r[i] \in Range(q) \/ r[i] = k
      BY DEF Range
    <3> QED BY <2>3
  <2>5. Increasing(q)
    BY DEF OrderInv, NumbersInv
  <2> HIDE DEF q, r
  <2>6. Increasing(r)
    <3> SUFFICES ASSUME NEW i \in 1 .. Len(r), NEW j \in 1 .. Len(r), i < j
                 PROVE  r[i] < r[j]
      BY DEF Increasing
    <3>1. i \in 1 .. Len(q) /\ r[i] = q[i] /\ q[i] < k
      BY <2>2, <2>3
    <3>2. CASE j \in 1 .. Len(q)
      BY <2>3, <2>5, <3>1, <3>2 DEF Increasing
    <3>3. CASE j = Len(q) + 1
      BY <2>3, <3>1, <3>3
    <3> QED BY <2>3, <3>2, <3>3
  <2>7. \A j \in Call : Carried(j)' <=> Carried(j)
    BY <1>5 DEF Carried
  <2>8. NumbersInv'
    <3>1. \A j \in Call : Carried(j)' \/ Done(j)' => j < next_message_id'
      BY <1>1, <1>2, <1>3, <2>7
    <3>2. \A p \in Range(r) : p < next_message_id'
      <4> SUFFICES ASSUME NEW p \in Range(r) PROVE p < next_message_id'
        OBVIOUS
      <4>1. CASE p \in Range(q)
        <5>1. p \in Nat /\ p < k
          BY <1>2, <2>2, <4>1
        <5> QED BY <1>1, <5>1
      <4> QED BY <1>1, <2>4, <4>1
    <3>3. \A j \in Call, p \in Range(r) : Carried(j)' \/ Done(j)' => j < p
      BY <1>2, <1>3, <2>4, <2>7 DEF OrderInv, NumbersInv, q
    <3>4. pending_messages' = r
      BY <1>5 DEF r, q
    <3> QED BY <1>1, <2>1, <2>6, <3>1, <3>2, <3>3, <3>4 DEF NumbersInv
  <2>9. StreamsInv' /\ ExecutionInv'
    BY <1>3, <1>5, <2>7 DEF OrderInv, StreamsInv, ExecutionInv, ExecutedInOrder
  <2> QED BY <1>5, <2>8, <2>9 DEF OrderInv, TypeOK
<1>6. CASE /\ link \in Connection /\ up' = Put(up, link, CallOf(k))
           /\ pending_messages' = pending_messages /\ ~C!MustQueue
  <2>1. link \in Connection /\ pending_messages = <<>>
    BY <1>6 DEF C!MustQueue, OrderInv, NumbersInv
  <2>2. up[link] \in Seq(Message) /\ CallOf(k) \in Message
    BY <1>1, <2>1, MessageType DEF TypeOK, Numbers
  <2> DEFINE t == Append(up[link], CallOf(k))
  <2>3. /\ t \in Seq(Message)
        /\ \A j : Carries(t, j) <=> Carries(up[link], j) \/ j = k
    <3>1. \A j : CallOf(k) = CallOf(j) <=> j = k
      BY Distinct
    <3>2. /\ t \in Seq(Message)
          /\ \A j : Carries(t, j) <=> Carries(up[link], j) \/ CallOf(k) = CallOf(j)
      BY <2>2, AppendToStream
    <3> QED BY <3>1, <3>2
  <2>4. Sorted(t, Call)
    <3>1. \A i, j \in Call : Carries(up[link], i) /\ CallOf(k) = CallOf(j) => i < j
      BY <1>2, <2>1, Distinct DEF Carried
    <3>2. Sorted(up[link], Call)
      BY <2>1 DEF OrderInv, StreamsInv
    <3> QED BY <2>2, <3>1, <3>2, AppendToStream
  <2>5. /\ up' \in [Connection -> Seq(Message)] /\ up'[link] = t
        /\ \A d \in Connection \ {link} : up'[d] = up[d]
    <3>1. up \in [Connection -> Seq(Message)]
      BY DEF TypeOK
    <3>2. /\ Put(up, link, CallOf(k)) \in [Connection -> Seq(Message)]
          /\ \A d \in Connection :
                 Put(up, link, CallOf(k))[d] = IF d = link THEN t ELSE up[d]
      BY <2>1, <2>2, <3>1, PutOnOne
    <3> QED BY <1>6, <2>1, <3>2
  <2> HIDE DEF t
  <2>6. StreamsInv' /\ ExecutionInv'
    <3>1. {k} \in SUBSET Call /\ \A j \in Call, n \in {k} : Carried(j) \/ Done(j) => j < n
      BY <1>1, <1>2
    <3>2. \A j \in Call : Carries(up'[link], j) <=> Carries(up[link], j) \/ j \in {k}
      BY <2>3, <2>5
    <3> QED BY <2>1, <2>4, <2>5, <3>1, <3>2, GrowthKeepsOrder DEF OrderInv
  <2>7. NumbersInv'
    <3>1. Range(<<>>) = {} /\ Increasing(<<>>)
      BY DEF Range, Increasing
    <3>2. \A j \in Call : Carried(j)' => Carried(j) \/ j = k
      BY <2>3, <2>5 DEF Carried
    <3>3. \A j \in Call : Carried(j)' \/ Done(j)' => j < next_message_id'
      BY <1>1, <1>2, <1>3, <3>2
    <3> QED BY <1>1, <1>6, <2>1, <3>1, <3>3 DEF NumbersInv, OrderInv
  <2> QED BY <2>5, <2>6, <2>7 DEF OrderInv
<1>7. \/ up' = up /\ pending_messages' = pending_messages
      \/ up' = up /\ pending_messages' = Append(pending_messages, k) /\ C!MustQueue
      \/ /\ link \in Connection /\ up' = Put(up, link, CallOf(k))
         /\ pending_messages' = pending_messages /\ ~C!MustQueue
  <2>1. link \notin Connection => Put(up, link, CallOf(k)) = up
    BY DEF TypeOK, Put
  <2> QED BY <2>1 DEF Invoke, C!Invoke, k
<1> QED BY <1>4, <1>5, <1>6, <1>7

(* The server executes the call at the head of a stream. *)
LEMMA ExecutionKeepsOrder ==
    ASSUME TypeOK, OrderInv, NEW c \in Connection, NEW k \in Call, Execute(c, k)
    PROVE  /\ up' \in [Connection -> Seq(Message)] /\ executed' \in Seq(Connection \X Call)
           /\ OrderInv' /\ ~Done(k)
           /\ \A j \in Call : Done(j)' <=> Done(j) \/ j = k
<1>1. /\ up[c] # <<>> /\ Head(up[c]) = CallOf(k) /\ up' = Taken(up, c)
      /\ executed' = Append(executed, <<c, k>>)
      /\ UNCHANGED <<pending_messages, next_message_id, sock, handshake_finished>>
  BY DEF Execute, Arrives, clientVars
<1>2. /\ up' \in [Connection -> Seq(Message)] /\ Shrinks
      /\ up' = [up EXCEPT ![c] = Tail(up[c])]
  BY <1>1, TakenShrinks DEF OrderInv, Taken
<1>3. Carries(up[c], k) /\ \A l \in Call : Carries(Tail(up[c]), l) => k < l
  <2>1. up[c] \in Seq(Message) /\ Sorted(up[c], Call)
    BY DEF TypeOK, OrderInv, StreamsInv
  <2> QED BY <1>1, <2>1, HeadOfStream
<1>4. Carried(k) /\ ~Done(k)
  BY <1>3 DEF Carried, OrderInv, ExecutionInv
<1>5. k \in Nat
  BY CallsAreNumbers
<1>6. /\ executed' \in Seq(Connection \X Call)
      /\ Len(executed') = Len(executed) + 1 /\ Len(executed) \in Nat
      /\ executed'[Len(executed) + 1] = <<c, k>>
      /\ \A i \in 1 .. Len(executed) : executed'[i] = executed[i]
  BY <1>1 DEF TypeOK
<1>7. \A j \in Call : Done(j)' <=> Done(j) \/ j = k
  <2>1. \A i \in 1 .. Len(executed') :
            \/ i \in 1 .. Len(executed) /\ executed'[i] = executed[i]
            \/ i = Len(executed) + 1 /\ executed'[i] = <<c, k>>
    BY <1>6
  <2>2. 1 .. Len(executed) \subseteq 1 .. Len(executed') /\ Len(executed) + 1 \in 1 .. Len(executed')
    BY <1>6
  <2> QED BY <1>6, <2>1, <2>2 DEF Done
<1>8. \A j \in Call : Carried(j)' => Carried(j)
  BY <1>2 DEF Shrinks, Carried
<1>9. ~Carried(k)'
  <2> SUFFICES ASSUME NEW d \in Connection, Carries(up'[d], k) PROVE FALSE
    BY DEF Carried
  <2>1. d = c
    BY <1>2, <1>3 DEF Shrinks, OrderInv, StreamsInv
  <2>2. Carries(Tail(up[c]), k)
    BY <1>2, <2>1 DEF TypeOK
  <2> QED BY <1>3, <1>5, <2>2
<1>10. NumbersInv'
  BY <1>1, <1>4, <1>7, <1>8 DEF OrderInv, NumbersInv
<1>11. StreamsInv'
  BY <1>2 DEF OrderInv, StreamsInv, Shrinks
<1>12. ExecutionInv'
  <2>0. \A i \in 1 .. Len(executed) :
            /\ executed[i] \in Connection \X Call /\ Done(executed[i][2])
            /\ executed[i][1] = c => executed[i][2] < k
    <3> SUFFICES ASSUME NEW i \in 1 .. Len(executed)
                 PROVE  /\ executed[i] \in Connection \X Call /\ Done(executed[i][2])
                        /\ executed[i][1] = c => executed[i][2] < k
      OBVIOUS
    <3>1. executed[i] \in Connection \X Call
      BY DEF TypeOK
    <3>2. Done(executed[i][2])
      BY DEF Done
    <3> QED BY <1>3, <3>1, <3>2 DEF OrderInv, ExecutionInv
  <2>1. \A j \in Call : Done(j)' => ~Carried(j)'
    BY <1>7, <1>8, <1>9 DEF OrderInv, ExecutionInv
  <2>2. ASSUME NEW i \in 1 .. Len(executed'), NEW j \in Call, Carries(up'[executed'[i][1]], j)
        PROVE  executed'[i][2] < j
    <3>1. CASE i \in 1 .. Len(executed)
      <4>1. executed'[i] = executed[i] /\ executed[i][1] \in Connection
        BY <1>6, <2>0, <3>1
      <4>2. Carries(up[executed[i][1]], j)
        BY <1>2, <2>2, <4>1 DEF Shrinks
      <4> QED BY <3>1, <4>1, <4>2 DEF OrderInv, ExecutionInv
    <3>2. CASE i = Len(executed) + 1
      <4>1. Carries(Tail(up[c]), j)
        BY <1>2, <1>6, <2>2, <3>2 DEF TypeOK
      <4> QED BY <1>3, <1>6, <3>2, <4>1
    <3> QED BY <1>6, <3>1, <3>2
  <2>3. ASSUME NEW i \in 1 .. Len(executed'), NEW j \in 1 .. Len(executed'), i < j
        PROVE  /\ executed'[i][2] # executed'[j][2]
               /\ executed'[i][1] = executed'[j][1] => executed'[i][2] < executed'[j][2]
    <3>1. i \in 1 .. Len(executed) /\ executed'[i] = executed[i]
      BY <1>6, <2>3
    <3>2. CASE j \in 1 .. Len(executed)
      <4>1. executed'[j] = executed[j]
        BY <1>6, <3>2
      <4> QED BY <2>3, <3>1, <3>2, <4>1 DEF OrderInv, ExecutionInv, ExecutedInOrder
    <3>3. CASE j = Len(executed) + 1
      BY <1>4, <1>6, <2>0, <3>1, <3>3
    <3> QED BY <1>6, <3>2, <3>3
  <2>4. \A i, j \in 1 .. Len(executed') : executed'[i][2] = executed'[j][2] => i = j
    <3> SUFFICES ASSUME NEW i \in 1 .. Len(executed'), NEW j \in 1 .. Len(executed'),
                        executed'[i][2] = executed'[j][2], i # j
                 PROVE  FALSE
      OBVIOUS
    <3>1. i < j \/ j < i
      BY <1>6
    <3> QED BY <2>3, <3>1
  <2> QED BY <2>1, <2>2, <2>3, <2>4 DEF ExecutionInv, ExecutedInOrder
<1> QED BY <1>2, <1>4, <1>6, <1>7, <1>10, <1>11, <1>12 DEF OrderInv

(***************************************************************************)
(* Answers                                                                 *)
(***************************************************************************)

(* Only what was executed is answered, and a promise in the map was not.   *)
AnswerInv ==
    /\ \A c \in Connection, k \in Call : Answers(down[c], k) => Done(k)
    /\ \A k \in Call : k \in promises \/ k >= next_message_id => resolutions[k] = 0

SystemInv == TypeOK /\ OrderInv /\ AnswerInv

(* No stream to the client gets another answer. *)
NoNewAnswer == \A c \in Connection, k \in Call : Answers(down'[c], k) => Answers(down[c], k)

LEMMA TakenDown ==
    ASSUME TypeOK, NEW c \in Connection, down[c] # <<>>, down' = Taken(down, c)
    PROVE  down' \in [Connection -> Seq(Message)] /\ NoNewAnswer
<1>1. down \in [Connection -> Seq(Message)]
  BY DEF TypeOK
<1> QED BY <1>1, TakeFromOne DEF NoNewAnswer

LEMMA AppendedDown ==
    ASSUME TypeOK, NEW c \in Connection, NEW m \in Message,
           down' = Put(down, c, m)
    PROVE  /\ down' \in [Connection -> Seq(Message)]
           /\ \A d \in Connection, k \in Call :
                  Answers(down'[d], k) => Answers(down[d], k) \/ m = AnswerTo(k)
<1>1. down \in [Connection -> Seq(Message)]
  BY DEF TypeOK
<1> QED BY <1>1, PutOnOne, PutMessage

(* An answer to the server is no call. *)
LEMMA AnsweredUp ==
    ASSUME TypeOK, StreamsInv, NEW c \in Connection, NEW n \in Numbers,
           up' = Put(up, c, AnswerTo(n))
    PROVE  up' \in [Connection -> Seq(Message)] /\ Shrinks
<1> DEFINE m == AnswerTo(n)
<1>1. up \in [Connection -> Seq(Message)] /\ m \in Message
  BY MessageType DEF TypeOK
<1>2. \A k : m # CallOf(k)
  BY Distinct
<1>3. \A d \in Connection : Sorted(up[d], Call)
  BY DEF StreamsInv
<1>4. up' = Put(up, c, m)
  OBVIOUS
<1> HIDE DEF m
<1>5. Put(up, c, m) \in [Connection -> Seq(Message)]
  BY <1>1, PutOnOne
<1>6. \A d \in Connection : \A k : Carries(Put(up, c, m)[d], k) => Carries(up[d], k)
  <2>1. \A d \in Connection : \A k :
            Carries(Put(up, c, m)[d], k) <=> Carries(up[d], k) \/ (d = c /\ m = CallOf(k))
    BY <1>1, PutMessage
  <2> QED BY <1>2, <2>1
<1>7. \A d \in Connection : Sorted(Put(up, c, m)[d], Call)
  BY <1>1, <1>2, <1>3, PutInOrder
<1> QED BY <1>4, <1>5, <1>6, <1>7 DEF Shrinks

(* A new connection starts with the hello. *)
LEMMA GreetedUp ==
    ASSUME TypeOK, StreamsInv, Connect
    PROVE  up' \in [Connection -> Seq(Message)] /\ Shrinks
<1>1. up' = [up EXCEPT ![link'] = <<Hello>>]
  BY DEF Connect
<1>2. /\ <<Hello>> \in Seq(Message) /\ Len(<<Hello>>) = 1 /\ <<Hello>>[1] = Hello
  BY DEF Message
<1>3. Sorted(<<Hello>>, Call) /\ \A k : ~Carries(<<Hello>>, k)
  <2>1. \A k : ~Carries(<<Hello>>, k)
    BY <1>2, Distinct DEF Carries
  <2>2. Sorted(<<Hello>>, Call)
    BY <1>2 DEF Sorted
  <2> QED BY <2>1, <2>2
<1>4. up' \in [Connection -> Seq(Message)]
  BY <1>1, <1>2 DEF TypeOK
<1>5. \A d \in Connection : up'[d] = up[d] \/ up'[d] = <<Hello>>
  BY <1>1 DEF TypeOK
<1>6. ASSUME NEW d \in Connection
      PROVE  Sorted(up'[d], Call) /\ \A k \in Call : Carries(up'[d], k) => Carries(up[d], k)
  <2>1. CASE up'[d] = up[d]
    BY <2>1 DEF StreamsInv
  <2>2. CASE up'[d] = <<Hello>>
    BY <1>3, <2>2
  <2> QED BY <1>5, <2>1, <2>2
<1> QED BY <1>4, <1>6 DEF Shrinks

(***************************************************************************)
(* Every step                                                              *)
(***************************************************************************)

(* Most steps leave the calls and the messages alone. *)
Idle == /\ UNCHANGED <<up, down, pending_messages, next_message_id, promises,
                       resolutions, executed, calls>>
        /\ NoNewSocket
        /\ UNCHANGED <<s_asked, s_answers, s_next_message_id>>
        /\ s_promises' \subseteq s_promises

ClientTurns == FailToConnect \/ LoseServer \/ Redial \/ StopClient
ServerTurns == \/ Close \/ Read \/ StopServer \/ CrashServer \/ RemoveFile \/ StartServer
               \/ \E c \in Connection : Accept(c) \/ LoseClient(c)

LEMMA IdleSteps ==
    ASSUME ClientTurns \/ ServerTurns \/ UNCHANGED vars
    PROVE  Idle
<1> USE DEF Idle, NoNewSocket
<1>1. CASE UNCHANGED vars
  BY <1>1 DEF vars, clientVars, serverVars, netVars, appVars
<1>2. CASE FailToConnect \/ LoseServer
  BY <1>2 DEF FailToConnect, LoseServer, C!OnError, C!OnEnd, C!LoseConnection, C!callVars, serverVars,
     appVars
<1>3. CASE Redial
  <2>1. CASE C!OnClose(H)
    BY <1>3, <2>1 DEF Redial, C!OnClose, C!Reconnect, C!DropSocket, C!callVars,
       serverVars, netVars, appVars
  <2>2. CASE C!OnTimer(T)
    BY <1>3, <2>2 DEF Redial, C!OnTimer, C!Dial, C!callVars,
       serverVars, netVars, appVars
  <2> QED BY <1>3, <2>1, <2>2 DEF Redial
<1>4. CASE StopClient
  BY <1>4 DEF StopClient, C!Stop, C!DropSocket, C!callVars, serverVars, appVars
<1>5. CASE Close \/ Read
  BY <1>5 DEF Close, Read, S!OnListenerClose, S!OnClose, S!PromisesDropped, S!StartReading,
     S!StopReading, S!callVars, clientVars, netVars, appVars
<1>6. CASE StopServer \/ CrashServer \/ RemoveFile \/ StartServer
  BY <1>6 DEF StopServer, CrashServer, RemoveFile, StartServer, S!Stop, S!callVars, clientVars,
     serverVars, netVars, appVars
<1>7. ASSUME NEW c \in Connection, Accept(c) \/ LoseClient(c) PROVE Idle
  BY <1>7 DEF Accept, LoseClient, S!OnListen, S!OnEndOrError, S!callVars, clientVars, netVars,
     appVars
<1> QED BY <1>1, <1>2, <1>3, <1>4, <1>5, <1>6, <1>7 DEF ClientTurns, ServerTurns

LEMMA StepCases ==
    ASSUME [Next]_vars
    PROVE  \/ Idle \/ Connect \/ TakeHello \/ MainCalls
           \/ \E k \in Call : TakeAnswer(k)
           \/ \E n \in Callback : TakeCall(n)
           \/ \E c \in Connection : Greet(c)
           \/ \E c \in Connection, k \in Call : CallBack(c, k) \/ Execute(c, k)
           \/ \E c \in Connection, n \in Callback : GoodBye(c, n)
<1>1. CASE ClientTurns \/ ServerTurns \/ UNCHANGED vars
  BY <1>1, IdleSteps
<1>2. CASE ~(ClientTurns \/ ServerTurns \/ UNCHANGED vars)
  BY <1>2 DEF Next, ClientNext, ServerNext, ClientTurns, ServerTurns
<1> QED BY <1>1, <1>2

LEMMA NewCallType ==
    ASSUME TypeOK, NEW method \in {Say, Request, Echo},
           NEW for \in {<<>>} \cup (Connection \X Callback), Invoke(method, for)
    PROVE  /\ calls' \in Seq(CallRecord) /\ Len(calls') = next_message_id'
           /\ pending_messages' \in Seq(Call) /\ next_message_id' \in Nat
           /\ next_message_id' = next_message_id + 1 /\ next_message_id \in Call
           /\ UNCHANGED resolutions
           /\ promises' \subseteq promises \cup {next_message_id}
<1>1. [method |-> method, for |-> for] \in CallRecord
  BY DEF CallRecord
<1>2. calls' = Append(calls, [method |-> method, for |-> for])
  BY DEF Invoke
<1>3. calls' \in Seq(CallRecord) /\ Len(calls') = Len(calls) + 1
  BY <1>1, <1>2 DEF TypeOK
<1>4. /\ next_message_id \in Call /\ next_message_id' = next_message_id + 1
      /\ pending_messages' \in {pending_messages, Append(pending_messages, next_message_id)}
      /\ promises' \subseteq promises \cup {next_message_id}
      /\ UNCHANGED resolutions
  BY DEF Invoke, C!Invoke, Call
<1>5. next_message_id \in Nat /\ Len(calls) = next_message_id /\ pending_messages \in Seq(Call)
  BY DEF TypeOK
<1>6. Append(pending_messages, next_message_id) \in Seq(Call)
  BY <1>4, <1>5
<1>7. pending_messages' \in Seq(Call) /\ next_message_id' \in Nat
  BY <1>4, <1>5, <1>6
<1> QED BY <1>3, <1>4, <1>5, <1>7

LEMMA MainInvokes ==
    ASSUME TypeOK, MainCalls
    PROVE  \E method \in {Say, Request, Echo} :
               Invoke(method, <<>>) /\ UNCHANGED <<down, executed>>
<1> DEFINE own == {i \in 1 .. Len(calls) : calls[i].method # Echo}
           n == Cardinality(own)
<1>1. n \in Nat
  <2>1. Len(calls) \in Nat
    BY DEF TypeOK
  <2>2. IsFiniteSet(1 .. Len(calls))
    BY <2>1, FS_Interval
  <2>3. own \subseteq 1 .. Len(calls)
    OBVIOUS
  <2> QED BY <2>2, <2>3, FS_Subset, FS_CardinalityType
<1>2. n < Len(Script) /\ Invoke(Script[n + 1], <<>>) /\ UNCHANGED <<down, executed>>
  BY DEF MainCalls
<1> HIDE DEF n
<1>3. n + 1 \in 1 .. Len(Script)
  BY <1>1, <1>2, SystemAssumption
<1>4. Script[n + 1] \in {Say, Request, Echo}
  BY <1>3, SystemAssumption
<1> QED BY <1>2, <1>4

LEMMA InvokeKeepsInv ==
    ASSUME SystemInv, NEW method \in {Say, Request, Echo},
           NEW for \in {<<>>} \cup (Connection \X Callback), Invoke(method, for),
           executed' = executed, down' \in [Connection -> Seq(Message)], NoNewAnswer
    PROVE  SystemInv'
<1>1. up' \in [Connection -> Seq(Message)] /\ OrderInv'
  BY InvokeKeepsOrder DEF SystemInv
<1>2. TypeOK'
  BY <1>1, NewCallType DEF SystemInv, TypeOK
<1>3. AnswerInv'
  <2>1. \A k \in Call : Done(k)' <=> Done(k)
    BY DEF Done
  <2>2. \A c \in Connection, k \in Call : Answers(down'[c], k) => Done(k)'
    BY <2>1 DEF SystemInv, AnswerInv, NoNewAnswer
  <2>3. next_message_id \in Nat /\ \A k \in Call : k \in Nat
    BY CallsAreNumbers DEF SystemInv, TypeOK
  <2>4. ASSUME NEW k \in Call, k \in promises' \/ k >= next_message_id' PROVE resolutions'[k] = 0
    <3>1. k \in promises \/ k >= next_message_id
      BY <2>3, <2>4, NewCallType DEF SystemInv
    <3> QED BY <3>1, NewCallType DEF SystemInv, AnswerInv
  <2> QED BY <2>2, <2>4 DEF AnswerInv
<1> QED BY <1>1, <1>2, <1>3 DEF SystemInv

(* What an answer finds: the call was executed, and its promise was there. *)
LEMMA AnswerArrives ==
    ASSUME SystemInv, NEW k \in Call, TakeAnswer(k)
    PROVE  /\ Done(k) /\ k \in promises /\ resolutions[k] = 0
           /\ resolutions' = [resolutions EXCEPT ![k] = 1]
           /\ promises' = promises \ {k}
           /\ link \in Connection /\ down[link] # <<>> /\ down' = Taken(down, link)
<1>1. /\ link \in Connection /\ down[link] # <<>> /\ Head(down[link]) = AnswerTo(k)
      /\ down' = Taken(down, link) /\ C!Resolve(k)
  BY DEF TakeAnswer, Arrives, C!OnResponse
<1>2. Answers(down[link], k)
  <2>1. down[link] \in Seq(Message) /\ 1 \in 1 .. Len(down[link]) /\ down[link][1] = AnswerTo(k)
    BY <1>1 DEF SystemInv, TypeOK
  <2> QED BY <2>1 DEF Answers
<1>3. Done(k)
  BY <1>1, <1>2 DEF SystemInv, AnswerInv
<1>4. /\ k \in promises /\ promises' = promises \ {k}
      /\ resolutions' = [resolutions EXCEPT ![k] = resolutions[k] + 1]
  BY <1>1 DEF C!Resolve, C!Extract
<1>5. resolutions[k] = 0
  BY <1>4 DEF SystemInv, AnswerInv
<1> QED BY <1>1, <1>3, <1>4, <1>5

LEMMA AnswerKeepsInv ==
    ASSUME SystemInv, NEW k \in Call, TakeAnswer(k)
    PROVE  SystemInv'
<1>1. /\ UNCHANGED <<pending_messages, next_message_id, executed, calls>>
      /\ NoNewSocket
  <2>1. CASE C!StopSocket
    BY <2>1 DEF TakeAnswer, C!OnResponse, C!Resolve, C!StopSocket, appVars, NoNewSocket
  <2>2. CASE UNCHANGED <<sock, handshake_finished>>
    BY <2>2 DEF TakeAnswer, C!OnResponse, C!Resolve, appVars, NoNewSocket
  <2> QED BY <2>1, <2>2 DEF TakeAnswer, C!OnResponse, C!Escape, C!connVars
<1>2. down' \in [Connection -> Seq(Message)] /\ NoNewAnswer
  BY AnswerArrives, TakenDown DEF SystemInv
<1>3. k < next_message_id
  BY AnswerArrives DEF SystemInv, OrderInv, NumbersInv
<1>4. calls[k + 1].for \in {<<>>} \cup (Connection \X Callback)
  <2>1. k + 1 \in 1 .. Len(calls)
    BY <1>3, CallsAreNumbers DEF SystemInv, TypeOK
  <2>2. calls[k + 1] \in CallRecord
    BY <2>1 DEF SystemInv, TypeOK
  <2> QED BY <2>2 DEF CallRecord
<1>5. up' \in [Connection -> Seq(Message)] /\ Shrinks
  <2>1. CASE up' = up
    BY <2>1, SameShrinks DEF SystemInv, OrderInv, TypeOK
  <2>2. CASE /\ calls[k + 1].for # <<>>
             /\ up' = Put(up, link, AnswerTo(ReplyNumber(k)))
    <3>1. ReplyNumber(k) \in Numbers
      BY <1>4, <2>2 DEF ReplyNumber, Numbers
    <3> QED BY <2>2, <3>1, AnswerArrives, AnsweredUp DEF SystemInv, OrderInv
  <2> QED BY <2>1, <2>2 DEF TakeAnswer
<1>6. OrderInv'
  BY <1>1, <1>5, ShrinkKeepsOrder DEF SystemInv, TypeOK
<1>7. TypeOK'
  <2>1. resolutions' \in [Call -> Nat]
    <3>1. resolutions' = [resolutions EXCEPT ![k] = 1]
      BY AnswerArrives
    <3> QED BY <3>1 DEF SystemInv, TypeOK
  <2> QED BY <1>1, <1>2, <1>5, <2>1 DEF SystemInv, TypeOK
<1>8. AnswerInv'
  <2>1. \A j \in Call : Done(j)' <=> Done(j)
    BY <1>1 DEF Done
  <2>2. \A c \in Connection, j \in Call : Answers(down'[c], j) => Done(j)'
    BY <1>2, <2>1 DEF SystemInv, AnswerInv, NoNewAnswer
  <2>3. ASSUME NEW j \in Call, j \in promises' \/ j >= next_message_id' PROVE resolutions'[j] = 0
    <3>1. j # k /\ (j \in promises \/ j >= next_message_id)
      BY <1>1, <1>3, <2>3, AnswerArrives, CallsAreNumbers DEF SystemInv, TypeOK
    <3> QED BY <3>1, AnswerArrives DEF SystemInv, AnswerInv, TypeOK
  <2> QED BY <2>2, <2>3 DEF AnswerInv
<1> QED BY <1>6, <1>7, <1>8 DEF SystemInv

(* Steps that give the application nothing new. *)
LEMMA PassingKeepsInv ==
    ASSUME SystemInv, NoNewSocket,
           UNCHANGED <<pending_messages, next_message_id, promises, resolutions, executed, calls>>,
           up' \in [Connection -> Seq(Message)], Shrinks,
           down' \in [Connection -> Seq(Message)], NoNewAnswer
    PROVE  SystemInv'
<1>1. TypeOK'
  BY DEF SystemInv, TypeOK
<1>2. OrderInv'
  BY ShrinkKeepsOrder DEF SystemInv, TypeOK
<1>3. \A k \in Call : Done(k)' <=> Done(k)
  BY DEF Done
<1>4. AnswerInv'
  BY <1>3 DEF SystemInv, AnswerInv, NoNewAnswer
<1> QED BY <1>1, <1>2, <1>4 DEF SystemInv

LEMMA ExecutionKeepsInv ==
    ASSUME SystemInv, NEW c \in Connection, NEW k \in Call, Execute(c, k)
    PROVE  SystemInv'
<1>1. /\ up' \in [Connection -> Seq(Message)] /\ executed' \in Seq(Connection \X Call) /\ OrderInv'
      /\ \A j \in Call : Done(j)' <=> Done(j) \/ j = k
  BY ExecutionKeepsOrder DEF SystemInv
<1>2. /\ UNCHANGED <<pending_messages, next_message_id, promises, resolutions, calls>>
      /\ down' = Put(down, c, AnswerTo(k))
  BY DEF Execute, clientVars
<1>3. AnswerTo(k) \in Message
  BY MessageType DEF Numbers
<1>4. /\ down' \in [Connection -> Seq(Message)]
      /\ \A d \in Connection, j \in Call :
             Answers(down'[d], j) => Answers(down[d], j) \/ AnswerTo(k) = AnswerTo(j)
  BY <1>2, <1>3, AppendedDown DEF SystemInv
<1>5. TypeOK'
  BY <1>1, <1>2, <1>4 DEF SystemInv, TypeOK
<1>6. AnswerInv'
  <2>1. ASSUME NEW d \in Connection, NEW j \in Call, Answers(down'[d], j) PROVE Done(j)'
    BY <1>1, <1>4, <2>1, Distinct DEF SystemInv, AnswerInv
  <2> QED BY <1>2, <2>1 DEF SystemInv, AnswerInv
<1> QED BY <1>1, <1>5, <1>6 DEF SystemInv

LEMMA FlushKeepsInv ==
    ASSUME SystemInv, TakeHello
    PROVE  SystemInv'
<1>1. up' \in [Connection -> Seq(Message)] /\ OrderInv'
  BY FlushKeepsOrder DEF SystemInv
<1>2. /\ UNCHANGED <<next_message_id, promises, resolutions, executed, calls>>
      /\ pending_messages' = <<>> /\ link \in Connection
      /\ down[link] # <<>> /\ down' = Taken(down, link)
  BY DEF TakeHello, Arrives, C!OnHandshake, C!AfterFlush, appVars
<1>3. down' \in [Connection -> Seq(Message)] /\ NoNewAnswer
  BY <1>2, TakenDown DEF SystemInv
<1>4. TypeOK'
  BY <1>1, <1>2, <1>3 DEF SystemInv, TypeOK
<1>5. \A k \in Call : Done(k)' <=> Done(k)
  BY <1>2 DEF Done
<1>6. AnswerInv'
  BY <1>2, <1>3, <1>5 DEF SystemInv, AnswerInv, NoNewAnswer
<1> QED BY <1>1, <1>4, <1>6 DEF SystemInv

LEMMA NextKeepsInv == SystemInv /\ [Next]_vars => SystemInv'
<1> SUFFICES ASSUME SystemInv, [Next]_vars PROVE SystemInv'
  OBVIOUS
<1>u. up' = up => up' \in [Connection -> Seq(Message)] /\ Shrinks
  BY SameShrinks DEF SystemInv, OrderInv, TypeOK
<1>d. down' = down => down' \in [Connection -> Seq(Message)] /\ NoNewAnswer
  BY DEF SystemInv, TypeOK, NoNewAnswer
<1>s. UNCHANGED <<sock, handshake_finished>> => NoNewSocket
  BY DEF NoNewSocket
<1>1. CASE Idle
  BY <1>1, <1>u, <1>d, PassingKeepsInv DEF Idle
<1>2. CASE Connect
  <2>1. /\ UNCHANGED <<pending_messages, next_message_id, promises, resolutions, executed, calls>>
        /\ UNCHANGED <<sock, handshake_finished, down>>
    BY <1>2 DEF Connect, C!OnConnect, C!callVars, appVars
  <2> QED BY <1>2, <1>d, <1>s, <2>1, GreetedUp, PassingKeepsInv DEF SystemInv, OrderInv
<1>3. CASE TakeHello
  BY <1>3, FlushKeepsInv
<1>4. CASE MainCalls
  <2>1. PICK method \in {Say, Request, Echo} :
            Invoke(method, <<>>) /\ UNCHANGED <<down, executed>>
    BY <1>4, MainInvokes DEF SystemInv
  <2> QED BY <1>d, <2>1, InvokeKeepsInv
<1>5. ASSUME NEW k \in Call, TakeAnswer(k) PROVE SystemInv'
  BY <1>5, AnswerKeepsInv
<1>6. ASSUME NEW n \in Callback, TakeCall(n) PROVE SystemInv'
  <2>1. /\ link \in Connection /\ down[link] # <<>> /\ down' = Taken(down, link)
        /\ Invoke(Echo, <<link, n>>) /\ executed' = executed
    BY <1>6 DEF TakeCall, Arrives
  <2>2. down' \in [Connection -> Seq(Message)] /\ NoNewAnswer
    BY <2>1, TakenDown DEF SystemInv
  <2> QED BY <2>1, <2>2, InvokeKeepsInv
<1>7. ASSUME NEW c \in Connection, Greet(c) PROVE SystemInv'
  <2>1. /\ up[c] # <<>> /\ up' = Taken(up, c) /\ down' = Put(down, c, Hello)
        /\ UNCHANGED <<pending_messages, next_message_id, promises, resolutions, executed, calls>>
        /\ UNCHANGED <<sock, handshake_finished>>
    BY <1>7 DEF Greet, Arrives, clientVars, appVars
  <2>2. Hello \in Message /\ \A k : Hello # AnswerTo(k)
    BY Distinct DEF Message
  <2>3. down' \in [Connection -> Seq(Message)] /\ NoNewAnswer
    BY <2>1, <2>2, AppendedDown DEF SystemInv, NoNewAnswer
  <2>4. up' \in [Connection -> Seq(Message)] /\ Shrinks
    BY <2>1, TakenShrinks DEF SystemInv, OrderInv
  <2> QED BY <1>s, <2>1, <2>3, <2>4, PassingKeepsInv
<1>8. ASSUME NEW c \in Connection, NEW k \in Call, CallBack(c, k) PROVE SystemInv'
  <2> DEFINE n == s_next_message_id[c]
  <2>1. /\ n \in Callback /\ down' = Put(down, c, CallOf(n))
        /\ UNCHANGED <<pending_messages, next_message_id, promises, resolutions, executed, calls>>
        /\ UNCHANGED <<sock, handshake_finished, up>>
    BY <1>8 DEF CallBack, S!CallClient, Callback, clientVars
  <2> HIDE DEF n
  <2>2. CallOf(n) \in Message /\ \A j : CallOf(n) # AnswerTo(j)
    BY <2>1, MessageType, Distinct DEF Numbers
  <2>3. down' \in [Connection -> Seq(Message)] /\ NoNewAnswer
    BY <2>1, <2>2, AppendedDown DEF SystemInv, NoNewAnswer
  <2> QED BY <1>u, <1>s, <2>1, <2>3, PassingKeepsInv
<1>9. ASSUME NEW c \in Connection, NEW k \in Call, Execute(c, k) PROVE SystemInv'
  BY <1>9, ExecutionKeepsInv
<1>10. ASSUME NEW c \in Connection, NEW n \in Callback, GoodBye(c, n) PROVE SystemInv'
  <2>1. /\ up[c] # <<>> /\ up' = Taken(up, c) /\ down' = down
        /\ UNCHANGED <<pending_messages, next_message_id, promises, resolutions, executed, calls>>
        /\ UNCHANGED <<sock, handshake_finished>>
    BY <1>10 DEF GoodBye, Arrives, clientVars, appVars
  <2>2. up' \in [Connection -> Seq(Message)] /\ Shrinks
    BY <2>1, TakenShrinks DEF SystemInv, OrderInv
  <2> QED BY <1>d, <1>s, <2>1, <2>2, PassingKeepsInv
<1> QED BY <1>1, <1>2, <1>3, <1>4, <1>5, <1>6, <1>7, <1>8, <1>9, <1>10, StepCases

LEMMA InitInv == Init => SystemInv
<1> SUFFICES ASSUME Init PROVE SystemInv
  OBVIOUS
<1>1. /\ up = [c \in Connection |-> <<>>] /\ down = [c \in Connection |-> <<>>]
      /\ calls = <<>> /\ executed = <<>> /\ pending_messages = <<>> /\ next_message_id = 0
      /\ promises = {} /\ resolutions = [k \in Call |-> 0] /\ ~handshake_finished
  BY DEF Init, C!Init, Call
<1>2. TypeOK
  BY <1>1 DEF TypeOK
<1>3. \A k : ~Carries(<<>>, k) /\ ~Answers(<<>>, k) /\ ~Done(k)
  BY <1>1 DEF Carries, Answers, Done
<1>4. Sorted(<<>>, Call) /\ Increasing(<<>>) /\ Range(<<>>) = {}
  BY DEF Sorted, Increasing, Range
<1>5. \A k : ~Carried(k)
  BY <1>1, <1>3 DEF Carried
<1>6. NumbersInv
  BY <1>1, <1>3, <1>4, <1>5 DEF NumbersInv
<1>7. StreamsInv
  BY <1>1, <1>3, <1>4 DEF StreamsInv
<1>8. ExecutionInv
  BY <1>1, <1>3 DEF ExecutionInv, ExecutedInOrder
<1>9. AnswerInv
  BY <1>1, <1>3 DEF AnswerInv
<1> QED BY <1>2, <1>6, <1>7, <1>8, <1>9 DEF SystemInv, OrderInv

(* What travels, what waits and what was executed keeps its type. *)
THEOREM SystemTypes == Spec => []TypeOK
<1>1. SystemInv => TypeOK
  BY DEF SystemInv
<1> QED BY <1>1, InitInv, NextKeepsInv, PTL DEF Spec

(* The server executes what came over one connection in the order in which *)
(* the calls were made, whatever breaks and whoever restarts.              *)
THEOREM CallsExecutedInOrder == Spec => []ExecutedInOrder
<1>1. SystemInv => ExecutedInOrder
  BY DEF SystemInv, OrderInv, ExecutionInv
<1> QED BY <1>1, InitInv, NextKeepsInv, PTL DEF Spec

(***************************************************************************)
(* Remote calls                                                            *)
(***************************************************************************)
Executions(k) == Cardinality({i \in 1 .. Len(executed) : executed[i][2] = k})

CountsOnce == \A k \in Call : Executions(k) = IF Done(k) THEN 1 ELSE 0

LEMMA ExecutedOnce == SystemInv => CountsOnce
<1> SUFFICES ASSUME SystemInv, NEW k \in Call
             PROVE  Executions(k) = IF Done(k) THEN 1 ELSE 0
  BY DEF CountsOnce
<1> DEFINE P == {i \in 1 .. Len(executed) : executed[i][2] = k}
<1>1. CASE Done(k)
  <2>1. PICK i \in 1 .. Len(executed) : executed[i][2] = k
    BY <1>1 DEF Done
  <2>2. P = {i}
    BY <2>1 DEF SystemInv, OrderInv, ExecutionInv
  <2> QED BY <1>1, <2>2, FS_Singleton DEF Executions
<1>2. CASE ~Done(k)
  <2>1. P = {}
    BY <1>2 DEF Done
  <2> QED BY <1>2, <2>1, FS_EmptySet DEF Executions
<1> QED BY <1>1, <1>2

LEMMA StillExecutedOnce == SystemInv' => CountsOnce'
BY ExecutedOnce, PTL

(* The numbers below that of the next call are those that were given out.  *)
LEMMA InvokeMakes ==
    ASSUME SystemInv, NEW method \in {Say, Request, Echo},
           NEW for \in {<<>>} \cup (Connection \X Callback), Invoke(method, for),
           UNCHANGED executed
    PROVE  \E k \in Call : Forward!Make(k)
<1> DEFINE k == next_message_id
<1>1. k \in Call /\ k \in Nat /\ next_message_id' = k + 1 /\ UNCHANGED resolutions
  BY NewCallType DEF SystemInv, TypeOK
<1>2. k \notin 0 .. k - 1 /\ 0 .. (k + 1) - 1 = (0 .. k - 1) \cup {k}
  BY <1>1
<1>3. Forward!Make(k)
  BY <1>1, <1>2 DEF Forward!Make
<1> QED BY <1>1, <1>3

LEMMA NextForward == SystemInv /\ [Next]_vars => [Forward!Next]_(Forward!vars)
<1> SUFFICES ASSUME SystemInv, [Next]_vars PROVE [Forward!Next]_(Forward!vars)
  OBVIOUS
<1>1. ASSUME UNCHANGED <<next_message_id, resolutions, executed>>
      PROVE  UNCHANGED Forward!vars
  BY <1>1 DEF Forward!vars
<1>2. CASE Idle
  BY <1>1, <1>2 DEF Idle
<1>3. CASE Connect
  BY <1>1, <1>3 DEF Connect, C!OnConnect, C!callVars, appVars
<1>4. CASE TakeHello
  BY <1>1, <1>4 DEF TakeHello, C!OnHandshake, appVars
<1>5. ASSUME NEW k \in Call, TakeAnswer(k) PROVE Forward!Answer(k)
  <2>1. UNCHANGED <<next_message_id, executed>>
    BY <1>5 DEF TakeAnswer, C!OnResponse, C!Resolve, appVars
  <2>2. Executions(k) = 1 /\ resolutions[k] = 0
    BY <1>5, AnswerArrives, ExecutedOnce DEF CountsOnce
  <2>3. resolutions' = [resolutions EXCEPT ![k] = 1]
    BY <1>5, AnswerArrives
  <2> QED BY <2>1, <2>2, <2>3 DEF Forward!Answer, Executions
<1>6. ASSUME NEW c \in Connection, NEW k \in Call, Execute(c, k) PROVE Forward!Execute(k)
  <2>1. UNCHANGED <<next_message_id, resolutions>>
    BY <1>6 DEF Execute, clientVars
  <2>2. SystemInv' /\ ~Done(k) /\ Carried(k) /\ \A j \in Call : Done(j)' <=> Done(j) \/ j = k
    <3>1. up[c] \in Seq(Message) /\ up[c] # <<>> /\ Head(up[c]) = CallOf(k)
      BY <1>6 DEF Execute, Arrives, SystemInv, TypeOK
    <3>2. Carried(k)
      BY <3>1, HeadOfStream DEF Carried
    <3> QED BY <1>6, <3>2, ExecutionKeepsInv, ExecutionKeepsOrder DEF SystemInv
  <2>3. k \in 0 .. next_message_id - 1
    BY <2>2, CallsAreNumbers DEF SystemInv, TypeOK, OrderInv, NumbersInv
  <2>4. \A j \in Call : Executions(j) = IF Done(j) THEN 1 ELSE 0
    BY ExecutedOnce DEF CountsOnce
  <2>5. \A j \in Call : Executions(j)' = IF Done(j)' THEN 1 ELSE 0
    BY <2>2, StillExecutedOnce DEF CountsOnce
  <2>6. [j \in Call |-> Executions(j)'] = [[j \in Call |-> Executions(j)] EXCEPT ![k] = 1]
    BY <2>2, <2>4, <2>5
  <2>7. Executions(k) = 0
    BY <2>2, <2>4
  <2> QED BY <2>1, <2>3, <2>6, <2>7 DEF Forward!Execute, Executions
<1>7. ASSUME MainCalls PROVE \E k \in Call : Forward!Make(k)
  BY <1>7, MainInvokes, InvokeMakes DEF SystemInv
<1>8. ASSUME NEW n \in Callback, TakeCall(n) PROVE \E k \in Call : Forward!Make(k)
  <2>1. /\ link \in Connection /\ Invoke(Echo, <<link, n>>) /\ UNCHANGED executed
    BY <1>8 DEF TakeCall, Arrives
  <2> QED BY <2>1, InvokeMakes
<1>9. ASSUME NEW c \in Connection, Greet(c) PROVE UNCHANGED Forward!vars
  BY <1>1, <1>9 DEF Greet, clientVars, appVars
<1>10. ASSUME NEW c \in Connection, NEW k \in Call, CallBack(c, k) PROVE UNCHANGED Forward!vars
  BY <1>1, <1>10 DEF CallBack, clientVars
<1>11. ASSUME NEW c \in Connection, NEW n \in Callback, GoodBye(c, n) PROVE UNCHANGED Forward!vars
  BY <1>1, <1>11 DEF GoodBye, clientVars, appVars
<1>12. (\E k \in Call : Forward!Make(k) \/ Forward!Execute(k) \/ Forward!Answer(k)) => Forward!Next
  BY DEF Forward!Next
<1> QED BY <1>1, <1>2, <1>3, <1>4, <1>5, <1>6, <1>7, <1>8, <1>9, <1>10, <1>11, <1>12, StepCases

LEMMA InitForward == Init => Forward!Init
<1> SUFFICES ASSUME Init PROVE Forward!Init
  OBVIOUS
<1>1. next_message_id = 0 /\ resolutions = [k \in Call |-> 0] /\ executed = <<>>
  BY DEF Init, C!Init, Call
<1>2. \A k \in Call : {i \in 1 .. Len(executed) : executed[i][2] = k} = {}
  BY <1>1
<1>3. 0 .. next_message_id - 1 = {}
  BY <1>1
<1> QED BY <1>1, <1>2, <1>3, FS_EmptySet DEF Forward!Init

(* Every call is executed at most once and answered at most once, and only *)
(* after it was executed: over any number of connections, whatever is lost *)
(* with them, and however often the server is stopped, killed and started. *)
THEOREM CallsExecutedAtMostOnce == Spec => ForwardCalls
BY InitInv, NextKeepsInv, InitForward, NextForward, PTL DEF Spec, ForwardCalls, Forward!Spec

(***************************************************************************)
(* Calls of the server                                                     *)
(***************************************************************************)
Pair == Connection \X Callback
Served(p) == \E i \in 1 .. Len(calls) : calls[i].for = p

(* What is on its way to the client was asked and has not arrived yet.     *)
DownInv ==
    /\ s_asked \subseteq Pair /\ s_next_message_id \in [Connection -> Nat]
    /\ \A c \in Connection : Sorted(down[c], Callback)
    /\ \A c \in Connection, n \in Callback :
           /\ Carries(down[c], n) => <<c, n>> \in s_asked /\ ~Served(<<c, n>>)
           /\ <<c, n>> \in s_asked => n < s_next_message_id[c]

(* A method of the client is called once for what was asked. *)
ServedInv ==
    /\ \A p \in Pair : Served(p) => p \in s_asked
    /\ \A i, j \in 1 .. Len(calls) :
           calls[i].for \in Pair /\ calls[i].for = calls[j].for => i = j

(* Only what the client was called for is answered, and a promise in the   *)
(* map was not.                                                            *)
ReplyInv ==
    /\ s_answers \in [Pair -> Nat]
    /\ \A c \in Connection, n \in Callback : Answers(up[c], n) => Served(<<c, n>>)
    /\ \A p \in Pair : p \in s_promises \/ p \notin s_asked => s_answers[p] = 0

BackwardInv == DownInv /\ ServedInv /\ ReplyInv

NoNewCallback ==
    \A c \in Connection : /\ Sorted(down'[c], Callback)
                          /\ \A n \in Callback : Carries(down'[c], n) => Carries(down[c], n)

(* Nobody gets an answer but for a call that arrived. *)
OnlyServedReply ==
    \A c \in Connection, n \in Callback :
        Answers(up'[c], n) => Answers(up[c], n) \/ Served(<<c, n>>)

LEMMA BackwardPasses ==
    ASSUME BackwardInv, NoNewCallback, OnlyServedReply,
           UNCHANGED <<calls, s_asked, s_answers, s_next_message_id>>,
           s_promises' \subseteq s_promises
    PROVE  BackwardInv'
<1>1. \A p : Served(p)' <=> Served(p)
  BY DEF Served
<1>2. DownInv'
  BY <1>1 DEF BackwardInv, DownInv, NoNewCallback
<1>3. ServedInv'
  BY <1>1 DEF BackwardInv, ServedInv
<1>4. ReplyInv'
  BY <1>1 DEF BackwardInv, ReplyInv, OnlyServedReply
<1> QED BY <1>2, <1>3, <1>4 DEF BackwardInv

LEMMA TakenCallback ==
    ASSUME TypeOK, DownInv, NEW c \in Connection, down[c] # <<>>, down' = Taken(down, c)
    PROVE  NoNewCallback
<1>1. down \in [Connection -> Seq(Message)] /\ \A d \in Connection : Sorted(down[d], Callback)
  BY DEF TypeOK, DownInv
<1> QED BY <1>1, TakeFromOne DEF NoNewCallback

LEMMA OtherDown ==
    ASSUME TypeOK, DownInv, NEW c \in Connection, NEW m \in Message, \A n : m # CallOf(n),
           down' = Put(down, c, m)
    PROVE  NoNewCallback
<1>1. down \in [Connection -> Seq(Message)] /\ \A d \in Connection : Sorted(down[d], Callback)
  BY DEF TypeOK, DownInv
<1>2. \A d \in Connection : \A n :
          Carries(Put(down, c, m)[d], n) <=> Carries(down[d], n) \/ (d = c /\ m = CallOf(n))
  BY <1>1, PutMessage
<1>3. \A d \in Connection : Sorted(Put(down, c, m)[d], Callback)
  BY <1>1, PutInOrder
<1> QED BY <1>2, <1>3 DEF NoNewCallback

LEMMA TakenReply ==
    ASSUME TypeOK, NEW c \in Connection, up[c] # <<>>, up' = Taken(up, c)
    PROVE  OnlyServedReply
<1>1. up \in [Connection -> Seq(Message)]
  BY DEF TypeOK
<1> QED BY <1>1, TakeFromOne DEF OnlyServedReply

(* Calls are no answers. *)
LEMMA InvokeReply ==
    ASSUME TypeOK, NEW method, NEW for, Invoke(method, for)
    PROVE  OnlyServedReply
<1> DEFINE m == CallOf(next_message_id)
<1>1. up' = up \/ up' = Put(up, link, m)
  BY DEF Invoke
<1>2. /\ up \in [Connection -> Seq(Message)] /\ m \in Message /\ \A n : m # AnswerTo(n)
  BY MessageType, Distinct DEF TypeOK, Invoke, C!Invoke, Call, Numbers
<1> HIDE DEF m
<1>3. CASE up' = up
  BY <1>3 DEF OnlyServedReply
<1>4. CASE link \notin Connection
  <2>1. Put(up, link, m) = up
    BY <1>2, <1>4 DEF Put
  <2> QED BY <1>1, <1>3, <2>1
<1>5. CASE link \in Connection /\ up' = Put(up, link, m)
  <2>1. \A d \in Connection : \A n :
            Answers(Put(up, link, m)[d], n) <=> Answers(up[d], n) \/ (d = link /\ m = AnswerTo(n))
    BY <1>2, <1>5, PutMessage
  <2> QED BY <1>2, <1>5, <2>1 DEF OnlyServedReply
<1> QED BY <1>1, <1>3, <1>4, <1>5

LEMMA FlushReply ==
    ASSUME TypeOK, TakeHello
    PROVE  OnlyServedReply
<1> DEFINE t == up[link] \o Flushed(pending_messages)
<1>1. /\ link \in Connection /\ up' = [up EXCEPT ![link] = t]
      /\ up[link] \in Seq(Message) /\ pending_messages \in Seq(Call)
  BY DEF TakeHello, Arrives, TypeOK
<1>2. \A k : Answers(t, k) => Answers(up[link], k)
  BY <1>1, FlushToStream
<1> HIDE DEF t
<1>3. \A d \in Connection : up'[d] = IF d = link THEN t ELSE up[d]
  BY <1>1 DEF TypeOK
<1> QED BY <1>2, <1>3 DEF OnlyServedReply

LEMMA GreetReply ==
    ASSUME TypeOK, Connect
    PROVE  OnlyServedReply
<1>1. \A d \in Connection : up'[d] = up[d] \/ up'[d] = <<Hello>>
  BY DEF TypeOK, Connect
<1>2. \A k : ~Answers(<<Hello>>, k)
  <2>1. Len(<<Hello>>) = 1 /\ <<Hello>>[1] = Hello
    OBVIOUS
  <2> QED BY <2>1, Distinct DEF Answers
<1> QED BY <1>1, <1>2 DEF OnlyServedReply

(* A call made for a callback serves it; the other calls serve none. *)
LEMMA InvokeServes ==
    ASSUME TypeOK, NEW method \in {Say, Request, Echo}, NEW for \in {<<>>} \cup Pair,
           Invoke(method, for)
    PROVE  /\ \A p : Served(p)' <=> Served(p) \/ p = for
           /\ ServedInv /\ (for \in Pair => for \in s_asked /\ ~Served(for))
              /\ s_asked' = s_asked => ServedInv'
<1> DEFINE r == [method |-> method, for |-> for]
<1>1. calls' = Append(calls, r) /\ r \in CallRecord /\ r.for = for
  BY DEF Invoke, CallRecord, Pair
<1> HIDE DEF r
<1>2. /\ Len(calls') = Len(calls) + 1 /\ Len(calls) \in Nat /\ calls'[Len(calls) + 1] = r
      /\ \A i \in 1 .. Len(calls) : calls'[i] = calls[i]
  BY <1>1 DEF TypeOK
<1>3. \A i \in 1 .. Len(calls') : \/ i \in 1 .. Len(calls) /\ calls'[i].for = calls[i].for
                                  \/ i = Len(calls) + 1 /\ calls'[i].for = for
  BY <1>1, <1>2
<1>4. 1 .. Len(calls) \subseteq 1 .. Len(calls') /\ Len(calls) + 1 \in 1 .. Len(calls')
  BY <1>2
<1>5. \A p : Served(p)' <=> Served(p) \/ p = for
  BY <1>1, <1>2, <1>3, <1>4 DEF Served
<1>6. ASSUME ServedInv, for \in Pair => for \in s_asked /\ ~Served(for), s_asked' = s_asked
      PROVE  ServedInv'
  <2>1. \A p \in Pair : Served(p)' => p \in s_asked'
    BY <1>5, <1>6 DEF ServedInv
  <2>2. ASSUME NEW i \in 1 .. Len(calls'), NEW j \in 1 .. Len(calls'),
               calls'[i].for \in Pair, calls'[i].for = calls'[j].for
        PROVE  i = j
    <3>1. ASSUME NEW a \in 1 .. Len(calls), calls[a].for = for, for \in Pair PROVE FALSE
      BY <1>6, <3>1 DEF Served
    <3>2. CASE i \in 1 .. Len(calls) /\ j \in 1 .. Len(calls)
      BY <1>2, <1>6, <2>2, <3>2 DEF ServedInv
    <3>3. CASE i = Len(calls) + 1 /\ j = Len(calls) + 1
      BY <3>3
    <3> QED BY <1>3, <2>2, <3>1, <3>2, <3>3
  <2> QED BY <2>1, <2>2 DEF ServedInv
<1> QED BY <1>5, <1>6

LEMMA BackwardInvoke ==
    ASSUME TypeOK, BackwardInv, NEW method \in {Say, Request, Echo},
           NEW for \in {<<>>} \cup Pair, Invoke(method, for), NoNewCallback,
           for \in Pair => for \in s_asked /\ ~Served(for),
           \A c \in Connection, n \in Callback : for = <<c, n>> => ~Carries(down'[c], n),
           UNCHANGED <<s_asked, s_answers, s_next_message_id, s_promises>>
    PROVE  BackwardInv'
<1>1. (\A p : Served(p)' <=> Served(p) \/ p = for) /\ ServedInv'
  BY InvokeServes DEF BackwardInv
<1>2. DownInv'
  <2>1. \A c \in Connection, n \in Callback :
            Carries(down'[c], n) => <<c, n>> \in s_asked' /\ ~Served(<<c, n>>)'
    BY <1>1 DEF BackwardInv, DownInv, NoNewCallback
  <2> QED BY <2>1 DEF BackwardInv, DownInv, NoNewCallback
<1>3. ReplyInv'
  <2>1. \A c \in Connection, n \in Callback : Answers(up'[c], n) => Served(<<c, n>>)'
    BY <1>1, InvokeReply DEF BackwardInv, ReplyInv, OnlyServedReply
  <2> QED BY <2>1 DEF BackwardInv, ReplyInv
<1> QED BY <1>1, <1>2, <1>3 DEF BackwardInv

(* What the client takes is the call at the head of its connection. *)
LEMMA CallArrives ==
    ASSUME TypeOK, DownInv, NEW n \in Callback, TakeCall(n)
    PROVE  /\ <<link, n>> \in Pair /\ <<link, n>> \in s_asked /\ ~Served(<<link, n>>)
           /\ ~Carries(down'[link], n) /\ NoNewCallback
           /\ Invoke(Echo, <<link, n>>) /\ UNCHANGED serverVars
<1>1. /\ link \in Connection /\ down[link] # <<>> /\ Head(down[link]) = CallOf(n)
      /\ down' = Taken(down, link) /\ Invoke(Echo, <<link, n>>) /\ UNCHANGED serverVars
  BY DEF TakeCall, Arrives
<1>2. down[link] \in Seq(Message) /\ Sorted(down[link], Callback)
  BY <1>1 DEF TypeOK, DownInv
<1>3. Carries(down[link], n) /\ \A l \in Callback : Carries(Tail(down[link]), l) => n < l
  BY <1>1, <1>2, HeadOfStream
<1>4. down'[link] = Tail(down[link])
  BY <1>1 DEF Taken, TypeOK
<1>5. n \in Nat
  BY CallsAreNumbers
<1>6. ~Carries(down'[link], n)
  BY <1>3, <1>4, <1>5
<1>7. NoNewCallback
  BY <1>1, TakenCallback
<1> QED BY <1>1, <1>3, <1>6, <1>7 DEF DownInv, Pair

(* The server asks under a number that it has not used on the connection.  *)
LEMMA CallBackAsks ==
    ASSUME NEW c \in Connection, NEW k \in Call, CallBack(c, k)
    PROVE  LET n == s_next_message_id[c] IN
           /\ n \in Callback /\ down' = Put(down, c, CallOf(n))
           /\ s_next_message_id' = [s_next_message_id EXCEPT ![c] = n + 1]
           /\ s_asked' = s_asked \cup {<<c, n>>} /\ s_promises' = s_promises \cup {<<c, n>>}
           /\ UNCHANGED <<up, calls, s_answers>>
BY DEF CallBack, S!CallClient, Callback

LEMMA BackwardAsks ==
    ASSUME TypeOK, BackwardInv, NEW c \in Connection, NEW k \in Call, CallBack(c, k)
    PROVE  BackwardInv' /\ <<c, s_next_message_id[c]>> \notin s_asked
<1> DEFINE n == s_next_message_id[c]
<1>1. /\ n \in Callback /\ n \in Nat /\ down' = Put(down, c, CallOf(n))
      /\ s_next_message_id' = [s_next_message_id EXCEPT ![c] = n + 1]
      /\ s_asked' = s_asked \cup {<<c, n>>} /\ s_promises' = s_promises \cup {<<c, n>>}
      /\ UNCHANGED <<up, calls, s_answers>>
  BY CallBackAsks, CallsAreNumbers
<1>2. \A p : Served(p)' <=> Served(p)
  BY <1>1 DEF Served
<1> HIDE DEF n
<1>3. \A d \in Connection, l \in Callback : <<d, l>> \in s_asked /\ d = c => l < n
  BY DEF BackwardInv, DownInv, n
<1>4. <<c, n>> \notin s_asked /\ ~Served(<<c, n>>) /\ <<c, n>> \in Pair
  <2>1. <<c, n>> \in Pair
    BY <1>1 DEF Pair
  <2>2. <<c, n>> \notin s_asked
    BY <1>1, <1>3
  <2> QED BY <2>1, <2>2 DEF BackwardInv, ServedInv
<1>5. down \in [Connection -> Seq(Message)] /\ CallOf(n) \in Message
  BY <1>1, MessageType DEF TypeOK, Numbers
<1>6. \A d \in Connection : \A l :
          Carries(down'[d], l) <=> Carries(down[d], l) \/ (d = c /\ CallOf(n) = CallOf(l))
  BY <1>1, <1>5, PutMessage
<1>7. \A d \in Connection : Sorted(down'[d], Callback)
  <2>1. \A i, l \in Callback : Carries(down[c], i) /\ CallOf(n) = CallOf(l) => i < l
    BY <1>3, Distinct DEF BackwardInv, DownInv
  <2>2. \A d \in Connection : Sorted(down[d], Callback)
    BY DEF BackwardInv, DownInv
  <2> QED BY <1>1, <1>5, <2>1, <2>2, PutInOrder
<1>8. DownInv'
  <2>1. s_asked' \subseteq Pair
    BY <1>1, <1>4 DEF BackwardInv, DownInv
  <2>2. s_next_message_id' \in [Connection -> Nat]
    BY <1>1 DEF BackwardInv, DownInv
  <2>3. ASSUME NEW d \in Connection, NEW l \in Callback, Carries(down'[d], l)
        PROVE  <<d, l>> \in s_asked' /\ ~Served(<<d, l>>)'
    <3>1. CASE Carries(down[d], l)
      BY <1>1, <1>2, <3>1 DEF BackwardInv, DownInv
    <3>2. CASE d = c /\ l = n
      BY <1>1, <1>2, <1>4, <3>2
    <3> QED BY <1>6, <2>3, <3>1, <3>2, Distinct
  <2>4. ASSUME NEW d \in Connection, NEW l \in Callback, <<d, l>> \in s_asked'
        PROVE  l < s_next_message_id'[d]
    <3>1. l \in Nat /\ s_next_message_id \in [Connection -> Nat]
      BY CallsAreNumbers DEF BackwardInv, DownInv
    <3>2. CASE d = c
      <4>1. l < n \/ l = n
        BY <1>1, <1>3, <2>4, <3>2
      <4>2. s_next_message_id'[d] = n + 1
        BY <1>1, <3>1, <3>2
      <4> QED BY <1>1, <3>1, <4>1, <4>2
    <3>3. CASE d # c
      <4>1. <<d, l>> \in s_asked /\ s_next_message_id'[d] = s_next_message_id[d]
        BY <1>1, <2>4, <3>1, <3>3
      <4> QED BY <4>1 DEF BackwardInv, DownInv
    <3> QED BY <3>2, <3>3
  <2> QED BY <1>7, <2>1, <2>2, <2>3, <2>4 DEF DownInv
<1>9. ServedInv'
  BY <1>1, <1>2 DEF BackwardInv, ServedInv
<1>10. ReplyInv'
  <2>1. \A p \in Pair : p \in s_promises' \/ p \notin s_asked' => s_answers'[p] = 0
    BY <1>1, <1>4 DEF BackwardInv, ReplyInv
  <2>2. \A d \in Connection, l \in Callback : Answers(up'[d], l) => Served(<<d, l>>)'
    BY <1>1, <1>2 DEF BackwardInv, ReplyInv
  <2> QED BY <1>1, <2>1, <2>2 DEF BackwardInv, ReplyInv
<1> QED BY <1>4, <1>8, <1>9, <1>10 DEF BackwardInv, n

(* What a reply finds at the server: a call that was served, and a promise.*)
LEMMA ReplyArrives ==
    ASSUME TypeOK, BackwardInv, NEW c \in Connection, NEW n \in Callback, GoodBye(c, n)
    PROVE  /\ <<c, n>> \in Pair /\ Served(<<c, n>>) /\ s_answers[<<c, n>>] = 0
           /\ s_answers' = [s_answers EXCEPT ![<<c, n>>] = 1]
           /\ s_promises' = s_promises \ {<<c, n>>} /\ <<c, n>> \in s_promises
           /\ up[c] # <<>> /\ up' = Taken(up, c)
           /\ UNCHANGED <<down, calls, s_asked, s_next_message_id>>
<1>1. /\ up[c] # <<>> /\ Head(up[c]) = AnswerTo(n) /\ up' = Taken(up, c)
      /\ UNCHANGED <<down, calls, s_asked, s_next_message_id>>
      /\ <<c, n>> \in s_promises /\ s_promises' = s_promises \ {<<c, n>>}
      /\ s_answers' = [s_answers EXCEPT ![<<c, n>>] = s_answers[<<c, n>>] + 1]
  BY DEF GoodBye, Arrives, S!OnResponse, S!Extracted, appVars
<1>2. Answers(up[c], n)
  <2>1. up[c] \in Seq(Message) /\ 1 \in 1 .. Len(up[c]) /\ up[c][1] = AnswerTo(n)
    BY <1>1 DEF TypeOK
  <2> QED BY <2>1 DEF Answers
<1>3. <<c, n>> \in Pair
  BY DEF Pair
<1>4. Served(<<c, n>>) /\ s_answers[<<c, n>>] = 0
  BY <1>1, <1>2, <1>3 DEF BackwardInv, ReplyInv
<1> QED BY <1>1, <1>3, <1>4

LEMMA BackwardReplies ==
    ASSUME TypeOK, BackwardInv, NEW c \in Connection, NEW n \in Callback, GoodBye(c, n)
    PROVE  BackwardInv'
<1> DEFINE p == <<c, n>>
<1>1. /\ p \in Pair /\ s_answers' = [s_answers EXCEPT ![p] = 1] /\ p \in s_promises
      /\ s_promises' = s_promises \ {p}
      /\ UNCHANGED <<down, calls, s_asked, s_next_message_id>>
  BY ReplyArrives
<1> HIDE DEF p
<1>2. \A q : Served(q)' <=> Served(q)
  BY <1>1 DEF Served
<1>3. Answers(up[c], n) /\ <<c, n>> \in s_asked
  <2>1. up[c] # <<>> /\ Head(up[c]) = AnswerTo(n)
    BY DEF GoodBye, Arrives
  <2>2. up[c] \in Seq(Message) /\ 1 \in 1 .. Len(up[c]) /\ up[c][1] = AnswerTo(n)
    BY <2>1 DEF TypeOK
  <2>3. Answers(up[c], n)
    BY <2>2 DEF Answers
  <2> QED BY <2>3 DEF BackwardInv, ReplyInv, ServedInv, Pair
<1>4. OnlyServedReply
  BY ReplyArrives, TakenReply
<1>5. ReplyInv'
  <2>1. s_answers' \in [Pair -> Nat]
    BY <1>1 DEF BackwardInv, ReplyInv
  <2>2. \A d \in Connection, l \in Callback : Answers(up'[d], l) => Served(<<d, l>>)'
    BY <1>2, <1>4 DEF BackwardInv, ReplyInv, OnlyServedReply
  <2>3. \A q \in Pair : q \in s_promises' \/ q \notin s_asked' => s_answers'[q] = 0
    BY <1>1, <1>3 DEF BackwardInv, ReplyInv, p
  <2> QED BY <2>1, <2>2, <2>3 DEF ReplyInv
<1>6. DownInv'
  BY <1>1, <1>2 DEF BackwardInv, DownInv
<1>7. ServedInv'
  BY <1>1, <1>2 DEF BackwardInv, ServedInv
<1> QED BY <1>5, <1>6, <1>7 DEF BackwardInv

(* The client replies only to a call it was made by. *)
LEMMA AnswerReplies ==
    ASSUME SystemInv, NEW k \in Call, TakeAnswer(k)
    PROVE  OnlyServedReply /\ UNCHANGED <<calls, serverVars>>
<1> DEFINE for == calls[k + 1].for
           m == AnswerTo(ReplyNumber(k))
<1>1. UNCHANGED <<calls, serverVars>> /\ link \in Connection
  BY DEF TakeAnswer, Arrives, appVars
<1>2. CASE up' = up
  BY <1>1, <1>2 DEF OnlyServedReply
<1>3. CASE for # <<>> /\ for[1] = link /\ up' = Put(up, link, m)
  <2>1. k < next_message_id
    BY AnswerArrives DEF SystemInv, OrderInv, NumbersInv
  <2>2. k + 1 \in 1 .. Len(calls)
    BY <2>1, CallsAreNumbers DEF SystemInv, TypeOK
  <2>3. for \in {<<>>} \cup (Connection \X Callback)
    <3>1. calls[k + 1] \in CallRecord
      BY <2>2 DEF SystemInv, TypeOK
    <3> QED BY <3>1 DEF CallRecord
  <2>4. for = <<link, for[2]>> /\ for[2] \in Callback
    BY <1>3, <2>3
  <2>5. Served(<<link, for[2]>>)
    BY <2>2, <2>4 DEF Served
  <2>6. m = AnswerTo(for[2])
    BY DEF ReplyNumber
  <2> HIDE DEF for, m
  <2>7. up \in [Connection -> Seq(Message)] /\ m \in Message
    BY <2>4, <2>6, MessageType DEF SystemInv, TypeOK, Numbers
  <2>8. \A d \in Connection : \A n :
            Answers(Put(up, link, m)[d], n) <=> Answers(up[d], n) \/ (d = link /\ m = AnswerTo(n))
    BY <1>1, <2>7, PutMessage
  <2>9. \A n : m = AnswerTo(n) => n = for[2]
    BY <2>6, Distinct
  <2> SUFFICES ASSUME NEW d \in Connection, NEW n \in Callback,
                      Answers(up'[d], n), ~Answers(up[d], n)
               PROVE  Served(<<d, n>>)
    BY <1>1 DEF OnlyServedReply
  <2>10. d = link /\ m = AnswerTo(n)
    BY <1>3, <2>8
  <2> QED BY <2>5, <2>9, <2>10
<1>4. up' = up \/ (for # <<>> /\ for[1] = link /\ up' = Put(up, link, m))
  BY DEF TakeAnswer
<1> QED BY <1>1, <1>2, <1>3, <1>4

LEMMA NextBackwardInv == SystemInv /\ BackwardInv /\ [Next]_vars => BackwardInv'
<1> SUFFICES ASSUME SystemInv, BackwardInv, [Next]_vars PROVE BackwardInv'
  OBVIOUS
<1>t. TypeOK /\ DownInv
  BY DEF SystemInv, BackwardInv
<1>u. up' = up => OnlyServedReply
  BY DEF OnlyServedReply
<1>d. down' = down => NoNewCallback
  BY DEF BackwardInv, DownInv, NoNewCallback
<1>s. UNCHANGED serverVars => /\ UNCHANGED <<s_asked, s_answers, s_next_message_id>>
                              /\ s_promises' = s_promises
  BY DEF serverVars
<1>1. CASE Idle
  BY <1>1, <1>u, <1>d, BackwardPasses DEF Idle
<1>2. CASE Connect
  <2>1. UNCHANGED <<serverVars, down, calls>>
    BY <1>2 DEF Connect, appVars
  <2> QED BY <1>2, <1>t, <1>d, <1>s, <2>1, GreetReply, BackwardPasses
<1>3. CASE TakeHello
  <2>1. /\ UNCHANGED <<serverVars, calls>>
        /\ link \in Connection /\ down[link] # <<>> /\ down' = Taken(down, link)
    BY <1>3 DEF TakeHello, Arrives, appVars
  <2> QED BY <1>3, <1>t, <1>s, <2>1, FlushReply, TakenCallback, BackwardPasses
<1>4. CASE MainCalls
  <2>1. PICK method \in {Say, Request, Echo} :
            Invoke(method, <<>>) /\ UNCHANGED <<down, executed>>
    BY <1>4, <1>t, MainInvokes
  <2>2. UNCHANGED serverVars
    BY <1>4 DEF MainCalls
  <2>3. <<>> \notin Pair /\ \A c, n : <<>> # <<c, n>>
    BY DEF Pair
  <2> QED BY <1>d, <1>s, <1>t, <2>1, <2>2, <2>3, BackwardInvoke
<1>5. ASSUME NEW k \in Call, TakeAnswer(k) PROVE BackwardInv'
  <2>1. OnlyServedReply /\ UNCHANGED <<calls, serverVars>>
    BY <1>5, AnswerReplies
  <2>2. NoNewCallback
    BY <1>5, <1>t, AnswerArrives, TakenCallback
  <2> QED BY <1>s, <2>1, <2>2, BackwardPasses
<1>6. ASSUME NEW n \in Callback, TakeCall(n) PROVE BackwardInv'
  <2> DEFINE p == <<link, n>>
  <2>1. /\ p \in Pair /\ p \in s_asked /\ ~Served(p) /\ ~Carries(down'[link], n)
        /\ NoNewCallback /\ Invoke(Echo, p) /\ UNCHANGED serverVars
    BY <1>6, <1>t, CallArrives
  <2>2. \A c \in Connection, l \in Callback : p = <<c, l>> => ~Carries(down'[c], l)
    BY <2>1
  <2> HIDE DEF p
  <2> QED BY <1>t, <1>s, <2>1, <2>2, BackwardInvoke
<1>7. ASSUME NEW c \in Connection, Greet(c) PROVE BackwardInv'
  <2>1. /\ up[c] # <<>> /\ up' = Taken(up, c) /\ down' = Put(down, c, Hello)
        /\ UNCHANGED <<calls, s_asked, s_answers, s_next_message_id, s_promises>>
    BY <1>7 DEF Greet, Arrives, S!OnHello, S!callVars, appVars
  <2>2. Hello \in Message /\ \A n : Hello # CallOf(n)
    BY Distinct DEF Message
  <2>3. NoNewCallback /\ OnlyServedReply
    BY <1>t, <2>1, <2>2, OtherDown, TakenReply
  <2> QED BY <2>1, <2>3, BackwardPasses
<1>8. ASSUME NEW c \in Connection, NEW k \in Call, CallBack(c, k) PROVE BackwardInv'
  BY <1>8, <1>t, BackwardAsks
<1>9. ASSUME NEW c \in Connection, NEW k \in Call, Execute(c, k) PROVE BackwardInv'
  <2>1. /\ up[c] # <<>> /\ up' = Taken(up, c) /\ down' = Put(down, c, AnswerTo(k))
        /\ UNCHANGED <<calls, s_asked, s_answers, s_next_message_id, s_promises>>
    BY <1>9 DEF Execute, Arrives, S!OnRequest, S!callVars
  <2>2. AnswerTo(k) \in Message /\ \A n : AnswerTo(k) # CallOf(n)
    BY MessageType, Distinct DEF Numbers
  <2>3. NoNewCallback /\ OnlyServedReply
    BY <1>t, <2>1, <2>2, OtherDown, TakenReply
  <2> QED BY <2>1, <2>3, BackwardPasses
<1>10. ASSUME NEW c \in Connection, NEW n \in Callback, GoodBye(c, n) PROVE BackwardInv'
  BY <1>10, <1>t, BackwardReplies
<1> QED BY <1>1, <1>2, <1>3, <1>4, <1>5, <1>6, <1>7, <1>8, <1>9, <1>10, StepCases

LEMMA InitBackwardInv == Init => BackwardInv
<1> SUFFICES ASSUME Init PROVE BackwardInv
  OBVIOUS
<1>1. /\ up = [c \in Connection |-> <<>>] /\ down = [c \in Connection |-> <<>>] /\ calls = <<>>
      /\ s_asked = {} /\ s_promises = {} /\ s_next_message_id = [c \in Connection |-> 0]
      /\ s_answers = [p \in Pair |-> 0]
  BY DEF Init, S!Init, Pair, Callback
<1>2. (\A k : ~Carries(<<>>, k) /\ ~Answers(<<>>, k)) /\ Sorted(<<>>, Callback)
  BY DEF Carries, Answers, Sorted
<1>3. \A p : ~Served(p)
  BY <1>1 DEF Served
<1>4. DownInv
  BY <1>1, <1>2 DEF DownInv
<1>5. ServedInv
  BY <1>1, <1>3 DEF ServedInv
<1>6. ReplyInv
  BY <1>1, <1>2 DEF ReplyInv
<1> QED BY <1>4, <1>5, <1>6 DEF BackwardInv

(***************************************************************************)
(* Remote calls of the server                                              *)
(***************************************************************************)
ServedCounts ==
    \A p \in Pair :
        Cardinality({i \in 1 .. Len(calls) : calls[i].for = p}) = IF Served(p) THEN 1 ELSE 0

LEMMA ServedOnce == BackwardInv => ServedCounts
<1> SUFFICES ASSUME BackwardInv, NEW p \in Pair
             PROVE  Cardinality({i \in 1 .. Len(calls) : calls[i].for = p})
                        = IF Served(p) THEN 1 ELSE 0
  BY DEF ServedCounts
<1> DEFINE P == {i \in 1 .. Len(calls) : calls[i].for = p}
<1>1. CASE Served(p)
  <2>1. PICK i \in 1 .. Len(calls) : calls[i].for = p
    BY <1>1 DEF Served
  <2>2. P = {i}
    BY <2>1 DEF BackwardInv, ServedInv
  <2> QED BY <1>1, <2>2, FS_Singleton
<1>2. CASE ~Served(p)
  <2>1. P = {}
    BY <1>2 DEF Served
  <2> QED BY <1>2, <2>1, FS_EmptySet
<1> QED BY <1>1, <1>2

LEMMA StillServedOnce == BackwardInv' => ServedCounts'
BY ServedOnce, PTL

LEMMA NextBackward ==
    SystemInv /\ BackwardInv /\ BackwardInv' /\ [Next]_vars => [Backward!Next]_(Backward!vars)
<1> SUFFICES ASSUME SystemInv, BackwardInv, BackwardInv', [Next]_vars
             PROVE  [Backward!Next]_(Backward!vars)
  OBVIOUS
<1>t. TypeOK /\ DownInv /\ ServedCounts /\ ServedCounts'
  BY ServedOnce, StillServedOnce DEF SystemInv, BackwardInv
<1> DEFINE Count(p) == Cardinality({i \in 1 .. Len(calls) : calls[i].for = p})
<1>s. (\A p : Served(p)' <=> Served(p)) /\ UNCHANGED <<s_asked, s_answers>>
        => UNCHANGED Backward!vars
  <2> SUFFICES ASSUME \A p : Served(p)' <=> Served(p), UNCHANGED <<s_asked, s_answers>>
               PROVE  UNCHANGED Backward!vars
    OBVIOUS
  <2>1. \A p \in Pair : Count(p)' = Count(p)
    BY <1>t DEF ServedCounts
  <2> QED BY <2>1 DEF Backward!vars, Pair
<1>c. UNCHANGED <<calls, s_asked, s_answers>> => UNCHANGED Backward!vars
  BY <1>s DEF Served
<1>1. CASE Idle
  BY <1>1, <1>c DEF Idle
<1>2. CASE Connect
  BY <1>2, <1>c DEF Connect, serverVars, appVars
<1>3. CASE TakeHello
  BY <1>3, <1>c DEF TakeHello, serverVars, appVars
<1>4. CASE MainCalls
  <2>1. PICK method \in {Say, Request, Echo} :
            Invoke(method, <<>>) /\ UNCHANGED <<down, executed>>
    BY <1>4, <1>t, MainInvokes
  <2>2. UNCHANGED <<s_asked, s_answers>>
    BY <1>4 DEF MainCalls, serverVars
  <2>3. \A p \in Pair : Served(p)' <=> Served(p)
    BY <1>t, <2>1, InvokeServes DEF Pair
  <2>4. \A p \in Pair : Count(p)' = Count(p)
    BY <1>t, <2>3 DEF ServedCounts
  <2> QED BY <2>2, <2>4 DEF Backward!vars, Pair
<1>5. ASSUME NEW k \in Call, TakeAnswer(k) PROVE UNCHANGED Backward!vars
  BY <1>5, <1>c, AnswerReplies DEF serverVars
<1>6. ASSUME NEW n \in Callback, TakeCall(n) PROVE \E p \in Pair : Backward!Execute(p)
  <2> DEFINE p == <<link, n>>
  <2>1. /\ p \in Pair /\ p \in s_asked /\ ~Served(p) /\ Invoke(Echo, p) /\ UNCHANGED serverVars
    BY <1>6, <1>t, CallArrives
  <2> HIDE DEF p
  <2>2. \A q : Served(q)' <=> Served(q) \/ q = p
    BY <1>t, <2>1, InvokeServes
  <2>3. Count(p) = 0 /\ [q \in Pair |-> Count(q)'] = [[q \in Pair |-> Count(q)] EXCEPT ![p] = 1]
    BY <1>t, <2>1, <2>2 DEF ServedCounts
  <2>4. Backward!Execute(p)
    BY <2>1, <2>3 DEF Backward!Execute, Pair, serverVars
  <2> QED BY <2>1, <2>4
<1>7. ASSUME NEW c \in Connection, Greet(c) PROVE UNCHANGED Backward!vars
  BY <1>7, <1>c DEF Greet, S!OnHello, S!callVars, appVars
<1>8. ASSUME NEW c \in Connection, NEW k \in Call, CallBack(c, k)
      PROVE  \E p \in Pair : Backward!Make(p)
  <2> DEFINE p == <<c, s_next_message_id[c]>>
  <2>1. /\ s_asked' = s_asked \cup {p} /\ UNCHANGED <<calls, s_answers>> /\ p \in Pair
        /\ p \notin s_asked
    BY <1>8, <1>t, CallBackAsks, BackwardAsks DEF Pair
  <2>2. Backward!Make(p)
    BY <2>1 DEF Backward!Make
  <2> QED BY <2>1, <2>2
<1>9. ASSUME NEW c \in Connection, NEW k \in Call, Execute(c, k) PROVE UNCHANGED Backward!vars
  BY <1>9, <1>c DEF Execute, S!OnRequest, S!callVars
<1>10. ASSUME NEW c \in Connection, NEW n \in Callback, GoodBye(c, n)
       PROVE  \E p \in Pair : Backward!Answer(p)
  <2> DEFINE p == <<c, n>>
  <2>1. /\ p \in Pair /\ Served(p) /\ s_answers[p] = 0
        /\ s_answers' = [s_answers EXCEPT ![p] = 1] /\ UNCHANGED <<calls, s_asked>>
    BY <1>10, <1>t, ReplyArrives
  <2> HIDE DEF p
  <2>2. Count(p) = 1
    BY <1>t, <2>1 DEF ServedCounts
  <2>3. Backward!Answer(p)
    BY <2>1, <2>2 DEF Backward!Answer, Pair
  <2> QED BY <2>1, <2>3
<1>11. (\E p \in Pair : Backward!Make(p) \/ Backward!Execute(p) \/ Backward!Answer(p))
         => Backward!Next
  BY DEF Backward!Next, Pair
<1> QED BY <1>1, <1>2, <1>3, <1>4, <1>5, <1>6, <1>7, <1>8, <1>9, <1>10, <1>11, StepCases

LEMMA InitBackward == Init => Backward!Init
<1> SUFFICES ASSUME Init PROVE Backward!Init
  OBVIOUS
<1>1. calls = <<>> /\ s_asked = {} /\ s_answers = [p \in Pair |-> 0]
  BY DEF Init, S!Init, Pair, Callback
<1>2. \A p \in Pair : {i \in 1 .. Len(calls) : calls[i].for = p} = {}
  BY <1>1
<1> QED BY <1>1, <1>2, FS_EmptySet DEF Backward!Init, Pair

(* The same of the calls the server makes to its client, whose numbers     *)
(* start over on every connection and which the client answers later: the  *)
(* client's method runs at most once for each and its answer reaches the   *)
(* promise of that call, or none.                                          *)
THEOREM CallbacksExecutedAtMostOnce == Spec => BackwardCalls
BY InitInv, NextKeepsInv, InitBackwardInv, NextBackwardInv, InitBackward, NextBackward, PTL
   DEF Spec, BackwardCalls, Backward!Spec

(***************************************************************************)
(* What is on its way between the client and the server of RpcSystem while *)
(* a connection lasts: nothing is lost on it, nothing is there twice, and  *)
(* whoever is sent an answer waits for it.  For every script of calls and  *)
(* every number of faults.                                                 *)
(***************************************************************************)

(***************************************************************************)
(* The ends of a connection                                                *)
(***************************************************************************)

(* A handle that connects or is up is that of an open socket, and nothing  *)
(* was asked on a connection that is not made yet.                         *)
SocketInv ==
    /\ handle[H] \in {"connecting", "up"} => sock = H /\ is_open
    /\ handle[H] = "connecting" => asked = {} /\ ~handshake_finished

(* A connection is new until the client has made it and the server has     *)
(* accepted it, and the server has clients on no other ones.               *)
ServerInv ==
    /\ s_handle \in [Connection -> {"new", "up", "closing", "closed"}]
    /\ s_clients \subseteq Connection
    /\ \A c \in s_clients : s_handle[c] # "new"
    /\ \A c \in Connection : c > link => s_handle[c] = "new"

(* Every connection that was lost took a fault, so that there is one left  *)
(* to be made.                                                             *)
LinkInv ==
    /\ link \in Nat /\ faults \in 0 .. MaxFaults /\ link <= faults + 1
    /\ IF handle[H] = "up" THEN link > 0 /\ (ServerGone(link) => link <= faults)
                           ELSE link <= faults

(* Nothing is known of a connection before it is made, nor asked on it     *)
(* before it is accepted.                                                  *)
FreshInv ==
    /\ \A c \in Connection : c > link => up[c] = <<>> /\ down[c] = <<>>
    /\ \A c \in Connection, n \in Callback : <<c, n>> \in s_asked => s_handle[c] # "new"
    /\ s_promises \subseteq s_asked

EndsInv == SocketInv /\ ServerInv /\ LinkInv /\ FreshInv

LEMMA LastConnection == LinkInv /\ handle[H] = "up" => link \in Connection
BY SystemAssumption DEF LinkInv, Connection

(* What a step on messages leaves alone. *)
SameEnds == UNCHANGED <<handle, sock, is_open, link, faults, s_listener, s_handle, s_clients>>

LEMMA ServerFrames ==
    ASSUME NEW c \in Connection,
           \/ Greet(c)
           \/ \E k \in Call : CallBack(c, k) \/ Execute(c, k)
           \/ \E n \in Callback : GoodBye(c, n)
    PROVE  SameEnds /\ UNCHANGED clientVars
<1> USE DEF SameEnds
<1>0. ASSUME S!Thrown, s_reading = c PROVE s_reading' = None /\ c # None
  BY <1>0, SystemAssumption DEF S!Thrown
<1>1. CASE Greet(c)
  BY <1>1 DEF Greet, S!OnHello, S!flagVars, clientVars
<1>2. ASSUME NEW k \in Call, CallBack(c, k) PROVE SameEnds /\ UNCHANGED clientVars
  BY <1>2 DEF CallBack, S!CallClient, clientVars
<1>3. ASSUME NEW k \in Call, Execute(c, k) PROVE SameEnds /\ UNCHANGED clientVars
  BY <1>3 DEF Execute, S!OnRequest, S!Escape, S!Reply, clientVars
<1>4. ASSUME NEW n \in Callback, GoodBye(c, n) PROVE SameEnds /\ UNCHANGED clientVars
  BY <1>0, <1>4 DEF GoodBye, S!OnResponse, S!Escape, clientVars
<1> QED BY <1>1, <1>2, <1>3, <1>4

LEMMA ClientFrames ==
    ASSUME TakeHello \/ C!Invoke, UNCHANGED <<serverVars, link, faults>>
    PROVE  SameEnds
BY DEF SameEnds, C!OnHandshake, C!Invoke, C!connVars, TakeHello, serverVars

(* A connection is lost at the cost of a fault. *)
LEMMA FaultPays ==
    ASSUME LinkInv, link' = link,
           faults' \in {faults, faults + 1}, faults' = faults \/ faults < MaxFaults,
           handle'[H] = "up" => handle[H] = "up",
           handle'[H] # "up" \/ ServerGone(link)' =>
               faults' = faults + 1 \/ ServerGone(link) \/ handle[H] # "up"
    PROVE  LinkInv'
<1>1. /\ link \in Nat /\ faults \in Nat /\ MaxFaults \in Nat
      /\ faults <= MaxFaults /\ link <= faults + 1
  BY SystemAssumption DEF LinkInv
<1>2. faults' \in Nat /\ faults' <= MaxFaults /\ faults' >= faults
  BY <1>1
<1>3. ServerGone(link) \/ handle[H] # "up" => link <= faults
  BY DEF LinkInv
<1>4. handle'[H] # "up" \/ ServerGone(link)' => link' <= faults'
  <2>1. link <= faults => link' <= faults'
    BY <1>1, <1>2
  <2>2. faults' = faults + 1 => link' <= faults'
    BY <1>1
  <2> QED BY <1>3, <2>1, <2>2
<1>5. handle'[H] = "up" => link' > 0
  BY DEF LinkInv
<1>6. link' \in Nat
  BY <1>1
<1>7. link' <= faults' + 1
  <2>1. CASE faults' = faults
    BY <1>1, <2>1
  <2>2. CASE faults' = faults + 1
    BY <1>1, <2>2
  <2> QED BY <2>1, <2>2
<1>8. faults' \in 0 .. MaxFaults
  BY <1>1, <1>2
<1> QED BY <1>4, <1>5, <1>6, <1>7, <1>8 DEF LinkInv

(* What a step does that neither calls, answers nor connects: it may close *)
(* the ends of a connection, and never opens the one of the client.        *)
Calm ==
    /\ Idle /\ link' = link
    /\ handle'[H] = "up" => handle[H] = "up" /\ asked' = asked
    /\ link \in Connection /\ ServerGone(link) => ServerGone(link)'
    /\ \A c \in s_clients' : c \in s_clients \/ s_handle[c] = "new"
    /\ \A p \in s_promises : p[1] \in s_clients' => p \in s_promises'

LEMMA ClientCalm ==
    ASSUME ClientQuiet, EndsInv, ClientTurns
    PROVE  Calm /\ EndsInv'
<1>i. Idle
  BY IdleSteps
<1>s. UNCHANGED <<serverVars, up, down, link, calls, executed>>
  BY DEF ClientTurns, FailToConnect, LoseServer, Redial, StopClient, netVars, appVars
<1>h. DOMAIN handle = {H} /\ SocketInv
  BY DEF ClientQuiet, EndsInv
<1>1. /\ handle'[H] = "up" => handle[H] = "up" /\ asked' = asked
      /\ SocketInv'
  <2>1. CASE FailToConnect \/ LoseServer
    BY <1>h, <2>1 DEF FailToConnect, LoseServer, C!OnError, C!OnEnd, C!LoseConnection, SocketInv
  <2>2. CASE C!OnClose(H)
    BY <1>h, <2>2 DEF C!OnClose, C!Reconnect, C!DropSocket, C!StoppedHandles, SocketInv
  <2>3. CASE C!OnTimer(T)
    BY <1>h, <2>3 DEF C!OnTimer, C!Dial, SocketInv
  <2>4. CASE StopClient
    BY <1>h, <2>4 DEF StopClient, C!Stop, C!DropSocket, C!StoppedHandles, SocketInv
  <2> QED BY <2>1, <2>2, <2>3, <2>4 DEF ClientTurns, Redial
<1>2. /\ faults' \in {faults, faults + 1} /\ (faults' = faults \/ faults < MaxFaults)
      /\ handle[H] = "up" /\ handle'[H] # "up" => faults' = faults + 1 \/ ServerGone(link)
  <2>1. CASE FailToConnect \/ LoseServer \/ StopClient
    BY <2>1 DEF FailToConnect, LoseServer, StopClient, Fault, Ends
  <2>2. CASE Redial
    BY <1>h, <2>2 DEF Redial, C!OnClose, C!OnTimer, C!Dial, netVars
  <2> QED BY <2>1, <2>2 DEF ClientTurns
<1>3. /\ \A c \in Connection : s_handle'[c] = s_handle[c]
      /\ UNCHANGED <<s_handle, s_listener, s_clients, s_promises, s_asked>>
  BY <1>s DEF serverVars
<1>4. ServerGone(link)' <=> ServerGone(link)
  BY <1>s, <1>3 DEF ServerGone
<1>5. Calm
  BY <1>i, <1>s, <1>1, <1>3, <1>4 DEF Calm
<1>6. ServerInv' /\ FreshInv'
  BY <1>s, <1>3 DEF EndsInv, ServerInv, FreshInv
<1>7. LinkInv'
  BY <1>s, <1>1, <1>2, <1>4, FaultPays DEF EndsInv
<1> QED BY <1>1, <1>5, <1>6, <1>7 DEF EndsInv

LEMMA ServerCalm ==
    ASSUME ClientQuiet, EndsInv, ServerTurns
    PROVE  Calm /\ EndsInv'
<1>i. Idle
  BY IdleSteps
<1>s. UNCHANGED <<clientVars, link, up, down, s_asked>>
  BY <1>i DEF ServerTurns, Close, Read, StopServer, CrashServer, RemoveFile, StartServer, Accept, LoseClient,
     netVars, Idle
<1>h. UNCHANGED <<handle, sock, is_open, asked, handshake_finished>>
  BY <1>s DEF clientVars
<1>e. ServerInv /\ LinkInv /\ FreshInv
  BY DEF EndsInv
<1>m. link \in Nat /\ \A c \in Connection : c \in Nat
  BY <1>e DEF LinkInv, Connection
<1>1. /\ ServerInv'
      /\ \A c \in Connection : s_handle'[c] = "new" => s_handle[c] = "new" \/ c > link
      /\ link \in Connection /\ ServerGone(link) => ServerGone(link)'
      /\ \A c \in s_clients' : c \in s_clients \/ s_handle[c] = "new"
      /\ \A p \in s_promises : p[1] \in s_clients' => p \in s_promises'
  <2> USE <1>e, <1>s DEF ServerInv, ServerGone
  <2>1. ASSUME NEW c \in Connection, Accept(c) PROVE <1>1!:
    BY <2>1, <1>m DEF Accept, S!OnListen, S!callVars
  <2>2. ASSUME NEW c \in Connection, LoseClient(c) PROVE <1>1!:
    BY <2>2, <1>m DEF LoseClient, S!OnEndOrError, S!callVars
  <2>3. ASSUME NEW c \in Connection, S!OnClose(c) PROVE <1>1!:
    BY <2>3, <1>m DEF S!OnClose, S!PromisesDropped
  <2>4. CASE S!OnListenerClose
    BY <2>4, <1>m DEF S!OnListenerClose, S!callVars
  <2>5. CASE Read
    BY <2>5, <1>m DEF Read, S!StartReading, S!StopReading, S!connVars, S!callVars
  <2>6. CASE StopServer
    BY <2>6, <1>m DEF StopServer, S!Stop, S!StopSockets, S!Closed, S!StoppedClients, S!callVars
  <2>7. CASE CrashServer
    BY <2>7, <1>m DEF CrashServer
  <2>8. CASE StartServer
    BY <2>8, <1>m DEF StartServer
  <2>9. CASE RemoveFile
    BY <2>9, <1>m DEF RemoveFile, serverVars
  <2> QED BY <2>1, <2>2, <2>3, <2>4, <2>5, <2>6, <2>7, <2>8, <2>9 DEF ServerTurns, Close
<1>2. /\ faults' \in {faults, faults + 1} /\ (faults' = faults \/ faults < MaxFaults)
      /\ link \in Connection /\ ServerGone(link)' =>
             faults' = faults + 1 \/ ServerGone(link) \/ handle[H] # "up"
  <2> USE <1>e, <1>s DEF ServerInv, ServerGone
  <2>1. ASSUME NEW c \in Connection, Accept(c) PROVE <1>2!:
    BY <2>1, <1>m DEF Accept, S!OnListen, netVars
  <2>2. ASSUME NEW c \in Connection, LoseClient(c) PROVE <1>2!:
    BY <2>2, <1>m DEF LoseClient, S!OnEndOrError, Ends, Fault, ClientGone
  <2>3. CASE Close
    BY <2>3, <1>m DEF Close, S!OnClose, S!OnListenerClose, netVars
  <2>4. CASE Read
    BY <2>4, <1>m DEF Read, S!StartReading, S!StopReading, S!connVars, netVars
  <2>5. CASE StopServer \/ CrashServer
    BY <2>5, <1>m DEF StopServer, CrashServer, Fault
  <2>6. CASE StartServer
    BY <2>6, <1>m DEF StartServer, netVars
  <2>7. CASE RemoveFile
    BY <2>7, <1>m DEF RemoveFile, serverVars
  <2> QED BY <2>1, <2>2, <2>3, <2>4, <2>5, <2>6, <2>7 DEF ServerTurns
<1>3. s_promises' \subseteq s_promises
  BY <1>i DEF Idle
<1>4. FreshInv'
  <2>1. \A c \in Connection, n \in Callback : <<c, n>> \in s_asked => c <= link
    BY <1>e, <1>m DEF FreshInv, ServerInv
  <2>2. \A c \in Connection, n \in Callback : <<c, n>> \in s_asked' => s_handle'[c] # "new"
    BY <1>e, <1>m, <1>s, <1>1, <2>1 DEF FreshInv
  <2> QED BY <1>e, <1>s, <1>3, <2>2 DEF FreshInv
<1>5. LinkInv'
  <2>1. handle[H] = "up" => link \in Connection
    BY <1>e, LastConnection
  <2> QED BY <1>e, <1>h, <1>s, <1>2, <2>1, FaultPays
<1>6. SocketInv'
  BY <1>h DEF EndsInv, SocketInv
<1> QED BY <1>i, <1>h, <1>s, <1>1, <1>4, <1>5, <1>6 DEF Calm, EndsInv

(* The streams change where the connection is made already. *)
LEMMA FramesKeepEnds ==
    ASSUME TypeOK, EndsInv, SameEnds, SocketInv',
           \A c \in Connection : c > link => up'[c] = up[c] /\ down'[c] = down[c],
           \A c \in Connection, n \in Callback :
               <<c, n>> \in s_asked' => <<c, n>> \in s_asked \/ s_handle[c] # "new",
           s_promises' \subseteq s_promises \cup (s_asked' \ s_asked), s_asked \subseteq s_asked'
    PROVE  EndsInv'
<1>1. ServerInv'
  BY DEF EndsInv, ServerInv, SameEnds
<1>2. LinkInv'
  <2>1. ServerGone(link)' <=> ServerGone(link)
    BY DEF ServerGone, SameEnds
  <2> QED BY <2>1 DEF EndsInv, LinkInv, SameEnds
<1>3. FreshInv'
  BY DEF EndsInv, FreshInv, SameEnds
<1> QED BY <1>1, <1>2, <1>3 DEF EndsInv

(* The client makes a new connection. *)
LEMMA ConnectKeepsEnds ==
    ASSUME TypeOK, ClientQuiet, EndsInv, Connect
    PROVE  EndsInv' /\ link' \in Connection /\ ~ServerGone(link)' /\ link' = link + 1
<1>1. /\ handle[H] = "connecting" /\ s_listener = "on" /\ link' = link + 1
      /\ handle' = [handle EXCEPT ![H] = "up"] /\ DOMAIN handle = {H}
      /\ up' = [up EXCEPT ![link'] = <<Hello>>]
      /\ UNCHANGED <<serverVars, down, faults, sock, is_open, asked>>
  BY DEF Connect, C!OnConnect, ClientQuiet
<1>2. UNCHANGED <<s_listener, s_handle, s_clients, s_asked, s_promises>>
  BY <1>1 DEF serverVars
<1>3. link \in Nat /\ faults \in 0 .. MaxFaults /\ link <= faults
  BY <1>1 DEF EndsInv, LinkInv
<1>4. link' \in Connection /\ link' > link /\ \A c \in Connection : c \in Nat
  BY <1>1, <1>3, SystemAssumption DEF Connection
<1>5. s_handle[link'] = "new"
  BY <1>4 DEF EndsInv, ServerInv
<1>6. ~ServerGone(link)'
  BY <1>1, <1>2, <1>5 DEF ServerGone
<1>7. SocketInv'
  BY <1>1 DEF EndsInv, SocketInv
<1>8. ServerInv'
  BY <1>1, <1>2, <1>3, <1>4 DEF EndsInv, ServerInv
<1>9. LinkInv'
  BY <1>1, <1>3, <1>6 DEF LinkInv
<1>10. FreshInv'
  BY <1>1, <1>2, <1>3, <1>4 DEF EndsInv, FreshInv, TypeOK
<1> QED BY <1>1, <1>4, <1>6, <1>7, <1>8, <1>9, <1>10 DEF EndsInv

(***************************************************************************)
(* The books of the client                                                 *)
(***************************************************************************)

(* What was asked on the socket and what waits to be asked was given a     *)
(* number, and what waits has its promise.                                 *)
BooksInv ==
    /\ asked \cup promises \subseteq {k \in Call : k < next_message_id}
    /\ Range(pending_messages) \subseteq promises
    /\ sent \in Seq(Call)

(* A call that is made for the server is written at once, on the           *)
(* connection on which the server asked for it.                            *)
ForInv ==
    /\ \A k \in Range(pending_messages) : calls[k + 1].for = <<>>
    /\ \A k \in asked : calls[k + 1].for = <<>> \/ calls[k + 1].for[1] = link

FlightBase == SystemInv /\ BackwardInv /\ ClientQuiet /\ EndsInv /\ BooksInv /\ ForInv

(* invoke() queues, writes or throws. *)
LEMMA InvokeCases ==
    ASSUME SystemInv, BooksInv, NEW method, NEW for, Invoke(method, for)
    PROVE  LET k == next_message_id IN
           /\ k \in Call /\ k \in Nat /\ next_message_id' = k + 1
           /\ calls' = Append(calls, [method |-> method, for |-> for])
           /\ UNCHANGED <<handle, sock, is_open, is_connected, handshake_finished>>
           /\ \/ /\ C!MustQueue /\ up' = up /\ UNCHANGED <<asked, sent>>
                 /\ pending_messages' = Append(pending_messages, k)
                 /\ promises' = promises \cup {k}
              \/ /\ ~C!MustQueue /\ is_connected /\ up' = Put(up, link, CallOf(k))
                 /\ asked' = asked \cup {k} /\ promises' = promises \cup {k}
                 /\ sent' = Append(sent, k) /\ UNCHANGED pending_messages
              \/ /\ ~C!MustQueue /\ ~is_connected /\ up' = up
                 /\ UNCHANGED <<asked, pending_messages, promises, sent>>
<1> DEFINE k == next_message_id
<1>1. k \in Call /\ k \in Nat /\ C!Invoke
  BY DEF Invoke, C!Invoke, Call, SystemInv, TypeOK
<1>2. Append(sent, k) # sent
  <2>1. sent \in Seq(Call)
    BY DEF BooksInv
  <2>2. Len(Append(sent, k)) = Len(sent) + 1 /\ Len(sent) \in Nat
    BY <1>1, <2>1
  <2> QED BY <2>2
<1>3. /\ calls' = Append(calls, [method |-> method, for |-> for])
      /\ up' = IF sent' = sent THEN up ELSE Put(up, link, CallOf(k))
  BY DEF Invoke
<1> QED BY <1>1, <1>2, <1>3 DEF C!Invoke, C!connVars

(* The continuation of an answer does not stop the socket it came on. *)
LEMMA AnswerCases ==
    ASSUME FlightBase, NEW k \in Call, TakeAnswer(k)
    PROVE  LET for == calls[k + 1].for IN
           /\ UNCHANGED <<handle, sock, is_open, is_connected, handshake_finished, asked, sent,
                          pending_messages, next_message_id, calls, link, faults, serverVars>>
           /\ k \in asked /\ k \in promises /\ promises' = promises \ {k}
           /\ link \in Connection /\ down[link] # <<>> /\ down' = Taken(down, link)
           /\ Head(down[link]) = AnswerTo(k)
           /\ \/ for = <<>> /\ up' = up
              \/ \E n \in Callback : for = <<link, n>> /\ up' = Put(up, link, AnswerTo(n))
<1> DEFINE for == calls[k + 1].for
<1>1. k \in asked /\ k \in promises /\ promises' = promises \ {k}
  BY DEF TakeAnswer, C!OnResponse, C!Resolve, C!Extract
<1>2. for = <<>> \/ for[1] = link
  BY <1>1 DEF FlightBase, ForInv
<1>3. is_open'
  BY <1>2 DEF TakeAnswer
<1>4. UNCHANGED <<handle, sock, is_open, is_connected, handshake_finished, asked>>
  BY <1>3 DEF TakeAnswer, C!OnResponse, C!Escape, C!StopSocket, C!connVars
<1>5. /\ UNCHANGED <<sent, pending_messages, next_message_id, calls, link, faults, serverVars>>
      /\ link \in Connection /\ down[link] # <<>> /\ down' = Taken(down, link)
      /\ Head(down[link]) = AnswerTo(k)
      /\ up' = IF for = <<>> THEN up ELSE Put(up, link, AnswerTo(for[2]))
  BY <1>3 DEF TakeAnswer, C!OnResponse, C!Resolve, Arrives, ReplyNumber, appVars
<1>6. for \in {<<>>} \cup (Connection \X Callback)
  <2>1. k < next_message_id
    BY <1>1 DEF FlightBase, BooksInv
  <2>2. k + 1 \in 1 .. Len(calls)
    BY <2>1, CallsAreNumbers DEF FlightBase, SystemInv, TypeOK
  <2>3. calls[k + 1] \in CallRecord
    BY <2>2 DEF FlightBase, SystemInv, TypeOK
  <2> QED BY <2>3 DEF CallRecord
<1>7. for = <<>> \/ \E n \in Callback : for = <<link, n>> /\ for[2] = n
  BY <1>2, <1>6
<1> HIDE DEF for
<1>8. \/ for = <<>> /\ up' = up
      \/ \E n \in Callback : for = <<link, n>> /\ up' = Put(up, link, AnswerTo(n))
  BY <1>5, <1>7
<1> QED BY <1>1, <1>4, <1>5, <1>8 DEF for

LEMMA QueueGrows ==
    ASSUME NEW q \in Seq(Call), NEW k \in Call
    PROVE  Range(Append(q, k)) \subseteq Range(q) \cup {k}
<1> DEFINE r == Append(q, k)
<1>1. Len(r) = Len(q) + 1 /\ Len(q) \in Nat /\ r[Len(q) + 1] = k /\ \A i \in 1 .. Len(q) : r[i] = q[i]
  OBVIOUS
<1>2. \A i \in 1 .. Len(r) : (i \in 1 .. Len(q) /\ r[i] = q[i]) \/ r[i] = k
  BY <1>1
<1>3. DOMAIN r = 1 .. Len(r) /\ DOMAIN q = 1 .. Len(q)
  OBVIOUS
<1> HIDE DEF r
<1>4. Range(r) \subseteq Range(q) \cup {k}
  BY <1>2, <1>3 DEF Range
<1> QED BY <1>4 DEF r

(* A call keeps whom it was made for. *)
LEMMA CallsRemain ==
    ASSUME TypeOK, NEW r \in CallRecord, calls' = Append(calls, r)
    PROVE  /\ \A k \in Call : k < next_message_id => calls'[k + 1] = calls[k + 1]
           /\ calls'[next_message_id + 1] = r
<1>1. calls \in Seq(CallRecord) /\ Len(calls) = next_message_id /\ next_message_id \in Nat
  BY DEF TypeOK
<1>2. \A i \in 1 .. Len(calls) : calls'[i] = calls[i]
  BY <1>1
<1>3. \A k \in Call : k < next_message_id => k + 1 \in 1 .. Len(calls)
  BY <1>1, CallsAreNumbers
<1> QED BY <1>1, <1>2, <1>3

(* Who calls for the server does so while a frame is read. *)
Callable(for) == for = <<>> \/ (for[1] = link /\ ~C!MustQueue /\ is_connected)

LEMMA InvokeKeepsBooks ==
    ASSUME FlightBase, NEW method \in {Say, Request, Echo},
           NEW for \in {<<>>} \cup (Connection \X Callback), Invoke(method, for), Callable(for),
           link' = link
    PROVE  BooksInv' /\ ForInv'
<1> DEFINE k == next_message_id
           r == [method |-> method, for |-> for]
<1>1. SystemInv /\ BooksInv /\ TypeOK /\ ForInv
  BY DEF FlightBase, SystemInv
<1>2. /\ k \in Call /\ k \in Nat /\ next_message_id' = k + 1 /\ calls' = Append(calls, r)
      /\ \/ /\ C!MustQueue /\ UNCHANGED <<asked, sent>>
            /\ pending_messages' = Append(pending_messages, k) /\ promises' = promises \cup {k}
         \/ /\ asked' = asked \cup {k} /\ promises' = promises \cup {k}
            /\ sent' = Append(sent, k) /\ UNCHANGED pending_messages
         \/ UNCHANGED <<asked, pending_messages, promises, sent>>
  BY <1>1, InvokeCases
<1>3. r \in CallRecord /\ r.for = for
  BY DEF CallRecord
<1> HIDE DEF r
<1>4. /\ \A j \in Call : j < k => calls'[j + 1] = calls[j + 1]
      /\ calls'[k + 1].for = for
  BY <1>1, <1>2, <1>3, CallsRemain
<1>5. pending_messages \in Seq(Call) /\ Range(Append(pending_messages, k)) \subseteq Range(pending_messages) \cup {k}
  BY <1>1, <1>2, QueueGrows DEF TypeOK
<1> HIDE DEF k
<1>6. Range(pending_messages') \subseteq Range(pending_messages) \cup
          (IF C!MustQueue /\ k \in promises' THEN {k} ELSE {})
  BY <1>2, <1>5
<1>7. asked' \cup promises' \subseteq asked \cup promises \cup {k} /\ promises \subseteq promises'
  BY <1>2
<1>8. asked' \subseteq asked \cup {k} /\ (asked' = asked \/ k \in asked')
  BY <1>2
<1>9. \A j \in Call : j \in Nat
  BY CallsAreNumbers
<1>10. \A j \in asked \cup promises : j \in Call /\ j < k /\ j # k
  BY <1>1, <1>2, <1>9 DEF BooksInv, k
<1>11. BooksInv'
  <2>1. sent' \in Seq(Call)
    BY <1>1, <1>2 DEF BooksInv
  <2>2. ASSUME NEW j \in asked' \cup promises' PROVE j \in Call /\ j < k + 1
    <3>1. k \in Call /\ k \in Nat
      BY <1>2
    <3>2. CASE j \in asked \cup promises
      <4>1. j \in Call /\ j \in Nat /\ j < k
        BY <1>9, <1>10, <3>2
      <4> QED BY <3>1, <4>1
    <3>3. CASE j = k
      BY <3>1, <3>3
    <3> QED BY <1>7, <3>2, <3>3
  <2>3. Range(pending_messages') \subseteq promises'
    BY <1>1, <1>6, <1>7 DEF BooksInv
  <2> QED BY <1>2, <2>1, <2>2, <2>3 DEF BooksInv
<1>12. ForInv'
  <2>1. ASSUME NEW j \in Range(pending_messages') PROVE calls'[j + 1].for = <<>>
    <3>1. CASE j \in Range(pending_messages)
      BY <1>1, <1>4, <1>10, <3>1 DEF ForInv, BooksInv
    <3>2. CASE C!MustQueue /\ j = k
      BY <1>4, <3>2 DEF Callable
    <3> QED BY <1>6, <2>1, <3>1, <3>2
  <2>2. ASSUME NEW j \in asked' PROVE calls'[j + 1].for = <<>> \/ calls'[j + 1].for[1] = link
    <3>1. CASE j \in asked
      BY <1>1, <1>4, <1>10, <3>1 DEF ForInv
    <3>2. CASE j = k
      BY <1>4, <3>2 DEF Callable
    <3> QED BY <1>8, <2>2, <3>1, <3>2
  <2> QED BY <2>1, <2>2 DEF ForInv
<1> QED BY <1>11, <1>12

LEMMA InvokeKeepsBase ==
    ASSUME FlightBase, NEW method \in {Say, Request, Echo},
           NEW for \in {<<>>} \cup (Connection \X Callback), Invoke(method, for), Callable(for),
           UNCHANGED <<serverVars, link, faults>>,
           \A c \in Connection : c > link => down'[c] = down[c]
    PROVE  EndsInv' /\ BooksInv' /\ ForInv'
<1>1. BooksInv' /\ ForInv'
  BY InvokeKeepsBooks
<1>2. SystemInv /\ BooksInv /\ TypeOK /\ EndsInv
  BY DEF FlightBase, SystemInv
<1>3. /\ UNCHANGED <<handle, sock, is_open, is_connected, handshake_finished>>
      /\ asked' = asked \/ ~C!MustQueue
      /\ up' = up \/ up' = Put(up, link, CallOf(next_message_id))
  BY <1>2, InvokeCases
<1>4. SocketInv'
  BY <1>2, <1>3 DEF EndsInv, SocketInv, C!MustQueue
<1>5. \A c \in Connection : c > link => up'[c] = up[c]
  <2>1. \A c \in Connection : c > link => c # link
    BY <1>2 DEF EndsInv, LinkInv, Connection
  <2> QED BY <1>2, <1>3, <2>1 DEF Put, TypeOK
<1>6. SameEnds
  BY <1>3, ClientFrames DEF Invoke
<1>7. UNCHANGED <<s_asked, s_promises>>
  BY DEF serverVars
<1>8. EndsInv'
  BY <1>2, <1>4, <1>5, <1>6, <1>7, FramesKeepEnds
<1> QED BY <1>1, <1>8

LEMMA BooksRemain ==
    ASSUME BooksInv, ForInv,
           UNCHANGED <<pending_messages, next_message_id, promises, calls, sent>>,
           (asked' = asked /\ link' = link) \/ asked' = {}
    PROVE  BooksInv' /\ ForInv'
BY DEF BooksInv, ForInv

LEMMA FlushKeepsBase ==
    ASSUME FlightBase, TakeHello
    PROVE  EndsInv' /\ BooksInv' /\ ForInv'
<1>1. /\ asked' = asked \cup Range(pending_messages) /\ sent' = sent \o pending_messages
      /\ pending_messages' = <<>> /\ UNCHANGED <<promises, next_message_id, handle, sock, is_open>>
      /\ handle[sock] = "up"
  BY DEF TakeHello, C!OnHandshake, C!AfterFlush, C!Receiving, C!Range, Range
<1>d. /\ UNCHANGED <<serverVars, calls, link, faults>>
      /\ link \in Connection /\ down' = Taken(down, link)
  BY DEF TakeHello, Arrives, appVars
<1>u. up' = [up EXCEPT ![link] = up[link] \o Flushed(pending_messages)]
  BY DEF TakeHello
<1>2. TypeOK /\ EndsInv /\ BooksInv /\ ForInv
  BY DEF FlightBase, SystemInv
<1>3. BooksInv'
  <2>1. Range(<<>>) = {}
    BY DEF Range
  <2>2. sent' \in Seq(Call)
    BY <1>1, <1>2 DEF BooksInv, TypeOK
  <2> QED BY <1>1, <1>d, <1>2, <2>1, <2>2 DEF BooksInv
<1>4. ForInv'
  <2>1. Range(<<>>) = {}
    BY DEF Range
  <2> QED BY <1>1, <1>d, <1>2, <2>1 DEF ForInv
<1>5. SocketInv'
  BY <1>1, <1>2 DEF EndsInv, SocketInv
<1>6. \A c \in Connection : c > link => up'[c] = up[c] /\ down'[c] = down[c]
  <2>1. \A c \in Connection : c > link => c # link
    BY <1>2 DEF EndsInv, LinkInv, Connection
  <2> QED BY <1>1, <1>d, <1>u, <1>2, <2>1 DEF Taken, TypeOK
<1>7. SameEnds /\ UNCHANGED <<s_asked, s_promises>>
  BY <1>1, <1>d, ClientFrames DEF serverVars
<1> QED BY <1>2, <1>3, <1>4, <1>5, <1>6, <1>7, FramesKeepEnds

LEMMA AnswerKeepsBase ==
    ASSUME FlightBase, NEW k \in Call, TakeAnswer(k)
    PROVE  EndsInv' /\ BooksInv' /\ ForInv'
<1>1. /\ UNCHANGED <<handle, sock, is_open, handshake_finished, asked, sent, pending_messages,
                     next_message_id, calls, link, faults, serverVars>>
      /\ k \in promises /\ promises' = promises \ {k}
      /\ link \in Connection /\ down' = Taken(down, link)
      /\ up' = up \/ \E n \in Callback : up' = Put(up, link, AnswerTo(n))
  BY AnswerCases
<1>2. SystemInv /\ TypeOK /\ EndsInv /\ BooksInv /\ ForInv
  BY DEF FlightBase, SystemInv
<1>3. k \notin Range(pending_messages)
  <2>1. Done(k)
    BY <1>2, AnswerArrives
  <2>2. k \in Range(pending_messages) => k < k
    BY <1>2, <2>1 DEF SystemInv, OrderInv, NumbersInv
  <2> QED BY <2>2, CallsAreNumbers
<1>4. BooksInv' /\ ForInv'
  BY <1>1, <1>2, <1>3 DEF BooksInv, ForInv
<1>5. SocketInv'
  BY <1>1, <1>2 DEF EndsInv, SocketInv
<1>6. \A c \in Connection : c > link => up'[c] = up[c] /\ down'[c] = down[c]
  <2>1. \A c \in Connection : c > link => c # link
    BY <1>2 DEF EndsInv, LinkInv, Connection
  <2> QED BY <1>1, <1>2, <2>1 DEF Taken, Put, TypeOK
<1>7. SameEnds /\ UNCHANGED <<s_asked, s_promises>>
  BY <1>1 DEF SameEnds, serverVars
<1>8. EndsInv'
  BY <1>2, <1>5, <1>6, <1>7, FramesKeepEnds
<1> QED BY <1>4, <1>8

(* The frames that the server reads came over a connection it accepted.    *)
LEMMA FrameKeepsBase ==
    ASSUME FlightBase, NEW c \in Connection,
           \/ Greet(c)
           \/ \E k \in Call : CallBack(c, k) \/ Execute(c, k)
           \/ \E n \in Callback : GoodBye(c, n)
    PROVE  EndsInv' /\ BooksInv' /\ ForInv' /\ UNCHANGED <<calls, asked, promises>>
<1>1. TypeOK /\ EndsInv /\ BooksInv /\ ForInv /\ BackwardInv
  BY DEF FlightBase, SystemInv
<1>2. SameEnds /\ UNCHANGED clientVars
  BY ServerFrames
<1>3. up[c] # <<>> /\ UNCHANGED calls
  BY DEF Greet, CallBack, Execute, GoodBye, Arrives, appVars
<1>4. BooksInv' /\ ForInv' /\ SocketInv'
  BY <1>1, <1>2, <1>3 DEF BooksInv, ForInv, SocketInv, EndsInv, clientVars, SameEnds
<1>5. \A d \in Connection : d > link => up'[d] = up[d] /\ down'[d] = down[d]
  <2>1. \A d \in Connection : d > link => d # c
    BY <1>1, <1>3 DEF EndsInv, FreshInv
  <2>2. up' = up \/ up' = Taken(up, c)
    BY DEF Greet, CallBack, Execute, GoodBye
  <2>3. down' = down \/ \E m : down' = Put(down, c, m)
    BY DEF Greet, CallBack, Execute, GoodBye
  <2>4. \A d \in Connection : d # c => up'[d] = up[d]
    BY <1>1, <2>2 DEF Taken, TypeOK
  <2>5. \A d \in Connection : d # c => down'[d] = down[d]
    BY <1>1, <2>3 DEF Put, TypeOK
  <2> QED BY <2>1, <2>4, <2>5
<1>6. /\ \A d \in Connection, n \in Callback :
             <<d, n>> \in s_asked' => <<d, n>> \in s_asked \/ s_handle[d] # "new"
      /\ s_promises' \subseteq s_promises \cup (s_asked' \ s_asked) /\ s_asked \subseteq s_asked'
  <2>1. CASE s_asked' = s_asked /\ s_promises' \subseteq s_promises
    BY <2>1
  <2>2. ASSUME NEW k \in Call, CallBack(c, k) PROVE <1>6!:
    <3>1. c \in s_clients
      BY <2>2 DEF CallBack, S!CallClient
    <3>2. s_handle[c] # "new"
      BY <1>1, <3>1 DEF EndsInv, ServerInv
    <3>3. <<c, s_next_message_id[c]>> \notin s_asked
      BY <1>1, <2>2, BackwardAsks
    <3>4. /\ s_asked' = s_asked \cup {<<c, s_next_message_id[c]>>}
          /\ s_promises' = s_promises \cup {<<c, s_next_message_id[c]>>}
      BY <2>2, CallBackAsks
    <3> QED BY <3>2, <3>3, <3>4
  <2>3. CASE Greet(c)
    BY <2>1, <2>3 DEF Greet, S!OnHello, S!callVars
  <2>4. ASSUME NEW k \in Call, Execute(c, k) PROVE <1>6!:
    BY <2>1, <2>4 DEF Execute, S!OnRequest, S!callVars
  <2>5. ASSUME NEW n \in Callback, GoodBye(c, n) PROVE <1>6!:
    BY <2>1, <2>5 DEF GoodBye, S!OnResponse, S!Extracted
  <2> QED BY <2>2, <2>3, <2>4, <2>5
<1>7. EndsInv'
  BY <1>1, <1>2, <1>4, <1>5, <1>6, FramesKeepEnds
<1> QED BY <1>2, <1>3, <1>4, <1>7 DEF clientVars

(***************************************************************************)
(* Every step                                                              *)
(***************************************************************************)
ServerReads(c) == \/ Greet(c)
                  \/ \E k \in Call : CallBack(c, k) \/ Execute(c, k)
                  \/ \E n \in Callback : GoodBye(c, n)

LEMMA FlightSteps ==
    ASSUME [Next]_vars
    PROVE  \/ ClientTurns \/ ServerTurns \/ UNCHANGED vars
           \/ Connect \/ TakeHello \/ MainCalls
           \/ \E k \in Call : TakeAnswer(k)
           \/ \E n \in Callback : TakeCall(n)
           \/ \E c \in Connection : ServerReads(c)
BY DEF Next, ClientNext, ServerNext, ClientTurns, ServerTurns, ServerReads

LEMMA MainIsCallable ==
    ASSUME FlightBase, MainCalls
    PROVE  /\ \E method \in {Say, Request, Echo} : Invoke(method, <<>>)
           /\ Callable(<<>>) /\ UNCHANGED <<serverVars, link, down, faults, executed>>
BY MainInvokes DEF FlightBase, SystemInv, Callable, MainCalls

LEMMA EchoIsCallable ==
    ASSUME FlightBase, NEW n \in Callback, TakeCall(n)
    PROVE  /\ Invoke(Echo, <<link, n>>) /\ Callable(<<link, n>>)
           /\ <<link, n>> \in Pair /\ ~Served(<<link, n>>) /\ <<link, n>> \in s_asked
           /\ link \in Connection /\ Head(down[link]) = CallOf(n)
           /\ down[link] # <<>> /\ down' = Taken(down, link) /\ ~Carries(down'[link], n)
           /\ \A c \in Connection : c > link => down'[c] = down[c]
           /\ UNCHANGED <<serverVars, link, faults, executed>>
<1>1. /\ Arrives(down, link, CallOf(n)) /\ C!Receiving /\ handshake_finished
      /\ down' = Taken(down, link) /\ UNCHANGED <<serverVars, link, faults, executed>>
  BY DEF TakeCall
<1>2. Callable(<<link, n>>)
  BY <1>1 DEF Callable, C!MustQueue, C!Receiving
<1>3. TypeOK /\ DownInv /\ LinkInv
  BY DEF FlightBase, SystemInv, BackwardInv, EndsInv
<1>4. \A c \in Connection : c > link => down'[c] = down[c]
  <2>1. \A c \in Connection : c > link => c # link
    BY <1>3 DEF LinkInv, Connection
  <2> QED BY <1>1, <1>3, <2>1 DEF Taken, TypeOK
<1> QED BY <1>1, <1>2, <1>3, <1>4, CallArrives DEF Arrives

(* The client forgets what it asked with the socket, and nothing less. *)
LEMMA CalmAsks ==
    ASSUME ClientTurns \/ ServerTurns
    PROVE  sent' = sent /\ (asked' = asked \/ asked' = {})
<1>1. CASE ServerTurns
  BY <1>1 DEF ServerTurns, Close, Read, StopServer, CrashServer, RemoveFile, StartServer, Accept,
     LoseClient, clientVars
<1>2. CASE FailToConnect \/ LoseServer
  BY <1>2 DEF FailToConnect, LoseServer, C!OnError, C!OnEnd, C!LoseConnection, C!callVars
<1>3. CASE C!OnClose(H)
  BY <1>3 DEF C!OnClose, C!Reconnect, C!DropSocket, C!callVars
<1>4. CASE C!OnTimer(T)
  BY <1>4 DEF C!OnTimer, C!Dial, C!callVars
<1>5. CASE StopClient
  BY <1>5 DEF StopClient, C!Stop, C!DropSocket, C!callVars
<1> QED BY <1>1, <1>2, <1>3, <1>4, <1>5 DEF ClientTurns, Redial

LEMMA CalmKeepsBooks ==
    ASSUME FlightBase, ClientTurns \/ ServerTurns
    PROVE  BooksInv' /\ ForInv'
<1>1. UNCHANGED <<pending_messages, next_message_id, promises, calls>> /\ link' = link
  <2>1. Idle
    BY IdleSteps
  <2>2. link' = link
    BY ClientCalm, ServerCalm DEF FlightBase, Calm
  <2> QED BY <2>1, <2>2 DEF Idle
<1> QED BY <1>1, CalmAsks, BooksRemain DEF FlightBase

LEMMA ConnectKeepsBooks ==
    ASSUME FlightBase, Connect
    PROVE  BooksInv' /\ ForInv'
<1>1. /\ UNCHANGED <<pending_messages, next_message_id, promises, calls, sent, asked>>
      /\ handle[H] = "connecting"
  BY DEF Connect, C!OnConnect, C!callVars, appVars
<1>2. asked' = {}
  BY <1>1 DEF FlightBase, EndsInv, SocketInv
<1> QED BY <1>1, <1>2, BooksRemain DEF FlightBase

LEMMA NextFlightBase == FlightBase /\ [Next]_vars => FlightBase'
<1> SUFFICES ASSUME FlightBase, [Next]_vars PROVE FlightBase'
  OBVIOUS
<1>1. SystemInv' /\ BackwardInv'
  BY NextKeepsInv, NextBackwardInv DEF FlightBase
<1>2. ClientQuiet'
  <2>1. CASE ClientNext
    BY <2>1, ClientStepQuiet DEF FlightBase
  <2>2. CASE ServerNext \/ UNCHANGED vars
    BY <2>2, OneSideMoves DEF FlightBase, ClientQuiet, clientVars, vars
  <2> QED BY <2>1, <2>2 DEF Next
<1>b. TypeOK /\ ClientQuiet /\ EndsInv
  BY DEF FlightBase, SystemInv
<1>3. EndsInv' /\ BooksInv' /\ ForInv'
  <2>1. CASE ClientTurns \/ ServerTurns
    BY <1>b, <2>1, ClientCalm, ServerCalm, CalmKeepsBooks
  <2>2. CASE UNCHANGED vars
    BY <2>2 DEF vars, clientVars, serverVars, netVars, appVars, FlightBase, EndsInv, SocketInv,
       ServerInv, LinkInv, FreshInv, ServerGone, BooksInv, ForInv
  <2>3. CASE Connect
    BY <1>b, <2>3, ConnectKeepsEnds, ConnectKeepsBooks
  <2>4. CASE TakeHello
    BY <2>4, FlushKeepsBase
  <2>5. CASE MainCalls
    BY <2>5, MainIsCallable, InvokeKeepsBase
  <2>6. ASSUME NEW k \in Call, TakeAnswer(k) PROVE <1>3!:
    BY <2>6, AnswerKeepsBase
  <2>7. ASSUME NEW n \in Callback, TakeCall(n) PROVE <1>3!:
    <3> DEFINE for == <<link, n>>
    <3>1. /\ for \in {<<>>} \cup (Connection \X Callback) /\ Invoke(Echo, for) /\ Callable(for)
          /\ \A c \in Connection : c > link => down'[c] = down[c]
          /\ UNCHANGED <<serverVars, link, faults>>
      BY <2>7, EchoIsCallable DEF Pair
    <3> HIDE DEF for
    <3> QED BY <3>1, InvokeKeepsBase
  <2>8. ASSUME NEW c \in Connection, ServerReads(c) PROVE <1>3!:
    BY <2>8, FrameKeepsBase DEF ServerReads
  <2> QED BY <2>1, <2>2, <2>3, <2>4, <2>5, <2>6, <2>7, <2>8, FlightSteps
<1> QED BY <1>1, <1>2, <1>3 DEF FlightBase

LEMMA InitFlightBase == Init => FlightBase
<1> SUFFICES ASSUME Init PROVE FlightBase
  OBVIOUS
<1>1. SystemInv /\ BackwardInv
  BY InitInv, InitBackwardInv
<1>2. ClientQuiet
  BY DEF Init, C!Init, ClientQuiet
<1>3. SocketInv
  BY DEF Init, C!Init, SocketInv
<1>4. /\ link = 0 /\ faults = 0 /\ handle[H] # "up" /\ s_handle = [c \in Connection |-> "new"]
      /\ s_clients = {} /\ s_asked = {} /\ s_promises = {} /\ asked = {} /\ promises = {}
      /\ pending_messages = <<>> /\ sent = <<>>
      /\ up = [c \in Connection |-> <<>>] /\ down = [c \in Connection |-> <<>>]
  BY DEF Init, C!Init, S!Init
<1>5. ServerInv /\ FreshInv
  BY <1>4 DEF ServerInv, FreshInv
<1>6. LinkInv
  BY <1>4, SystemAssumption DEF LinkInv
<1>7. BooksInv /\ ForInv
  <2>1. Range(<<>>) = {}
    BY DEF Range
  <2> QED BY <1>4, <2>1 DEF BooksInv, ForInv
<1> QED BY <1>1, <1>2, <1>3, <1>5, <1>6, <1>7 DEF FlightBase, EndsInv

(***************************************************************************)
(* Answers on a stream                                                     *)
(***************************************************************************)

(* No answer to one of N is there twice. *)
AnswersOnce(s, N) ==
    \A i, j \in 1 .. Len(s), k \in N : s[i] = AnswerTo(k) /\ s[j] = AnswerTo(k) => i = j

LEMMA HeadTaken ==
    ASSUME NEW s \in Seq(Message), s # <<>>, NEW N
    PROVE  /\ \A k : Carries(s, k) <=> Carries(Tail(s), k) \/ Head(s) = CallOf(k)
           /\ \A k : Answers(s, k) <=> Answers(Tail(s), k) \/ Head(s) = AnswerTo(k)
           /\ AnswersOnce(s, N) => /\ AnswersOnce(Tail(s), N)
                                   /\ \A k \in N : Head(s) = AnswerTo(k) => ~Answers(Tail(s), k)
<1> DEFINE t == Tail(s)
<1>1. /\ Len(t) = Len(s) - 1 /\ Len(s) \in Nat \ {0} /\ s[1] = Head(s)
      /\ \A i \in 1 .. Len(t) : t[i] = s[i + 1]
  OBVIOUS
<1>2. \A i \in 1 .. Len(s) : i = 1 \/ (i - 1 \in 1 .. Len(t) /\ s[i] = t[i - 1])
  BY <1>1
<1>3. 1 \in 1 .. Len(s) /\ \A i \in 1 .. Len(t) : i + 1 \in 1 .. Len(s) /\ i + 1 # 1
  BY <1>1
<1> HIDE DEF t
<1>4. \A k : Carries(s, k) <=> Carries(t, k) \/ Head(s) = CallOf(k)
  BY <1>1, <1>2, <1>3 DEF Carries
<1>5. \A k : Answers(s, k) <=> Answers(t, k) \/ Head(s) = AnswerTo(k)
  BY <1>1, <1>2, <1>3 DEF Answers
<1>6. ASSUME AnswersOnce(s, N) PROVE AnswersOnce(t, N)
  <2> SUFFICES ASSUME NEW i \in 1 .. Len(t), NEW j \in 1 .. Len(t), NEW k \in N,
                      t[i] = AnswerTo(k), t[j] = AnswerTo(k)
               PROVE  i = j
    BY DEF AnswersOnce
  <2>1. i + 1 = j + 1
    BY <1>1, <1>3, <1>6 DEF AnswersOnce
  <2> QED BY <1>1, <2>1
<1>7. ASSUME AnswersOnce(s, N), NEW k \in N, Head(s) = AnswerTo(k) PROVE ~Answers(t, k)
  <2> SUFFICES ASSUME NEW i \in 1 .. Len(t), t[i] = AnswerTo(k) PROVE FALSE
    BY DEF Answers
  <2>1. s[1] = AnswerTo(k) /\ s[i + 1] = AnswerTo(k)
    BY <1>1, <1>7
  <2> QED BY <1>3, <1>7, <2>1 DEF AnswersOnce
<1> QED BY <1>4, <1>5, <1>6, <1>7 DEF t

LEMMA OneMore ==
    ASSUME NEW s \in Seq(Message), NEW m \in Message, NEW N, AnswersOnce(s, N),
           \A k \in N : m = AnswerTo(k) => ~Answers(s, k)
    PROVE  AnswersOnce(Append(s, m), N)
<1> DEFINE t == Append(s, m)
<1>1. /\ Len(t) = Len(s) + 1 /\ Len(s) \in Nat
      /\ t[Len(s) + 1] = m /\ \A i \in 1 .. Len(s) : t[i] = s[i]
  OBVIOUS
<1>2. \A i \in 1 .. Len(t) : (i \in 1 .. Len(s) /\ t[i] = s[i]) \/ (i = Len(s) + 1 /\ t[i] = m)
  BY <1>1
<1> HIDE DEF t
<1>3. AnswersOnce(t, N)
  <2> SUFFICES ASSUME NEW i \in 1 .. Len(t), NEW j \in 1 .. Len(t), NEW k \in N,
                      t[i] = AnswerTo(k), t[j] = AnswerTo(k)
               PROVE  i = j
    BY DEF AnswersOnce
  <2>1. ASSUME NEW a \in 1 .. Len(s), s[a] = AnswerTo(k), m = AnswerTo(k) PROVE FALSE
    BY <2>1 DEF Answers
  <2>2. CASE i \in 1 .. Len(s) /\ j \in 1 .. Len(s) /\ t[i] = s[i] /\ t[j] = s[j]
    BY <2>2 DEF AnswersOnce
  <2> QED BY <1>2, <2>1, <2>2
<1> QED BY <1>3 DEF t

(* Calls are written after what is there. *)
LEMMA FlushedAnswers ==
    ASSUME NEW s \in Seq(Message), NEW q \in Seq(Call), NEW N
    PROVE  /\ \A k : Answers(s \o Flushed(q), k) <=> Answers(s, k)
           /\ AnswersOnce(s, N) => AnswersOnce(s \o Flushed(q), N)
<1> DEFINE f == Flushed(q)
           t == s \o f
<1>1. Len(q) \in Nat /\ Len(f) = Len(q) /\ \A i \in 1 .. Len(q) : q[i] \in Call /\ f[i] = CallOf(q[i])
  BY DEF Flushed
<1>2. f \in Seq(Message)
  <2>1. \A i \in 1 .. Len(q) : CallOf(q[i]) \in Message
    BY <1>1, MessageType DEF Numbers
  <2> QED BY <1>1, <2>1 DEF Flushed
<1> HIDE DEF f
<1>3. /\ Len(t) = Len(s) + Len(q) /\ Len(s) \in Nat
      /\ \A i \in 1 .. Len(s) : t[i] = s[i]
      /\ \A i \in 1 .. Len(q) : t[Len(s) + i] = CallOf(q[i])
  BY <1>1, <1>2
<1>4. \A i \in 1 .. Len(t) : \A k :
          t[i] = AnswerTo(k) => i \in 1 .. Len(s) /\ s[i] = AnswerTo(k)
  <2> SUFFICES ASSUME NEW i \in 1 .. Len(t), NEW k, t[i] = AnswerTo(k)
               PROVE  i \in 1 .. Len(s) /\ s[i] = AnswerTo(k)
    OBVIOUS
  <2>1. ASSUME i \notin 1 .. Len(s) PROVE FALSE
    <3>1. i - Len(s) \in 1 .. Len(q) /\ i = Len(s) + (i - Len(s))
      BY <1>1, <1>3, <2>1
    <3>2. t[i] = CallOf(q[i - Len(s)])
      BY <1>3, <3>1
    <3> QED BY <3>2, Distinct
  <2> QED BY <1>3, <2>1
<1>5. 1 .. Len(s) \subseteq 1 .. Len(t)
  BY <1>1, <1>3
<1> HIDE DEF t
<1>6. \A k : Answers(t, k) <=> Answers(s, k)
  BY <1>3, <1>4, <1>5 DEF Answers
<1>7. AnswersOnce(s, N) => AnswersOnce(t, N)
  BY <1>4 DEF AnswersOnce
<1> QED BY <1>6, <1>7 DEF t, f

(* The same of the streams of all connections. *)
LEMMA TakenFrom ==
    ASSUME NEW f \in [Connection -> Seq(Message)], NEW c \in Connection, f[c] # <<>>, NEW N
    PROVE  /\ \A d \in Connection : d # c => Taken(f, c)[d] = f[d]
           /\ \A d \in Connection : \A k :
                  Carries(f[d], k) <=> Carries(Taken(f, c)[d], k) \/ (d = c /\ Head(f[c]) = CallOf(k))
           /\ \A d \in Connection : \A k :
                  Answers(f[d], k) <=> Answers(Taken(f, c)[d], k) \/ (d = c /\ Head(f[c]) = AnswerTo(k))
           /\ (\A d \in Connection : AnswersOnce(f[d], N)) =>
                  /\ \A d \in Connection : AnswersOnce(Taken(f, c)[d], N)
                  /\ \A k \in N : Head(f[c]) = AnswerTo(k) => ~Answers(Taken(f, c)[c], k)
<1> DEFINE g == Taken(f, c)
<1>1. f[c] \in Seq(Message) /\ g[c] = Tail(f[c]) /\ \A d \in Connection : d # c => g[d] = f[d]
  BY DEF Taken
<1> HIDE DEF g
<1>2. /\ \A k : Carries(f[c], k) <=> Carries(g[c], k) \/ Head(f[c]) = CallOf(k)
      /\ \A k : Answers(f[c], k) <=> Answers(g[c], k) \/ Head(f[c]) = AnswerTo(k)
      /\ AnswersOnce(f[c], N) => /\ AnswersOnce(g[c], N)
                                 /\ \A k \in N : Head(f[c]) = AnswerTo(k) => ~Answers(g[c], k)
  BY <1>1, HeadTaken
<1> QED BY <1>1, <1>2 DEF g

LEMMA PutOnce ==
    ASSUME NEW f \in [Connection -> Seq(Message)], NEW c \in Connection, NEW m \in Message, NEW N,
           \A d \in Connection : AnswersOnce(f[d], N),
           \A k \in N : m = AnswerTo(k) => ~Answers(f[c], k)
    PROVE  \A d \in Connection : AnswersOnce(Put(f, c, m)[d], N)
<1>1. f[c] \in Seq(Message) /\ AnswersOnce(f[c], N)
  OBVIOUS
<1>2. AnswersOnce(Append(f[c], m), N)
  BY <1>1, OneMore
<1>3. \A d \in Connection : Put(f, c, m)[d] = IF d = c THEN Append(f[c], m) ELSE f[d]
  BY PutOnOne
<1> QED BY <1>2, <1>3

(***************************************************************************)
(* What is in flight                                                       *)
(***************************************************************************)

(* Calls of the client that wait for an answer, on the connection it has.  *)
Waits(k) == k \in asked \cap promises
Forth(k) == Carries(up[link], k) \/ Answers(down[link], k)

(* The call of the client that the answer to a call of the server needs.   *)
Asking(p) == \E k \in asked \cap promises : calls[k + 1].for = p
Back(c, n) == Carries(down[c], n) \/ Answers(up[c], n) \/ Asking(<<c, n>>)

(* Answers are not repeated, so that one that is taken leaves no other. *)
OnceInv == \A c \in Connection : AnswersOnce(up[c], Callback) /\ AnswersOnce(down[c], Call)

(* What is on its way is waited for, and while the server has its end open *)
(* what is waited for is on its way.                                       *)
ForwardInv ==
    handle[H] = "up" =>
        \A k \in Call : /\ Forth(k) => Waits(k)
                        /\ Waits(k) /\ ~ServerGone(link) => Forth(k)

(* The same of the calls of the server. *)
CallbackInv ==
    /\ \A c \in Connection, n \in Callback : Answers(up[c], n) => ~Asking(<<c, n>>)
    /\ \A c \in s_clients, n \in Callback : Back(c, n) => <<c, n>> \in s_promises
    /\ handle[H] = "up" /\ ~ServerGone(link) =>
           \A n \in Callback : <<link, n>> \in s_promises => Back(link, n)

FlightInv == FlightBase /\ OnceInv /\ ForwardInv /\ CallbackInv

(* A message that is taken, from either side. *)
LEMMA ClientTakes ==
    ASSUME TypeOK, OnceInv, link \in Connection, down[link] # <<>>, down' = Taken(down, link)
    PROVE  /\ \A d \in Connection : \A k :
                  Carries(down[d], k) <=> Carries(down'[d], k) \/ (d = link /\ Head(down[link]) = CallOf(k))
           /\ \A d \in Connection : \A k :
                  Answers(down[d], k) <=> Answers(down'[d], k) \/ (d = link /\ Head(down[link]) = AnswerTo(k))
           /\ \A d \in Connection : AnswersOnce(down'[d], Call)
           /\ \A k \in Call : Head(down[link]) = AnswerTo(k) => ~Answers(down'[link], k)
<1>1. /\ down \in [Connection -> Seq(Message)]
      /\ \A d \in Connection : AnswersOnce(down[d], Call)
  BY DEF TypeOK, OnceInv
<1> DEFINE t == Taken(down, link)
<1>2. /\ \A d \in Connection : \A k :
             Carries(down[d], k) <=> Carries(t[d], k) \/ (d = link /\ Head(down[link]) = CallOf(k))
      /\ \A d \in Connection : \A k :
             Answers(down[d], k) <=> Answers(t[d], k) \/ (d = link /\ Head(down[link]) = AnswerTo(k))
      /\ \A d \in Connection : AnswersOnce(t[d], Call)
      /\ \A k \in Call : Head(down[link]) = AnswerTo(k) => ~Answers(t[link], k)
  BY <1>1, TakenFrom
<1> QED BY <1>2

LEMMA ServerTakes ==
    ASSUME TypeOK, OnceInv, NEW c \in Connection, up[c] # <<>>, up' = Taken(up, c)
    PROVE  /\ \A d \in Connection : \A k :
                  Carries(up[d], k) <=> Carries(up'[d], k) \/ (d = c /\ Head(up[c]) = CallOf(k))
           /\ \A d \in Connection : \A k :
                  Answers(up[d], k) <=> Answers(up'[d], k) \/ (d = c /\ Head(up[c]) = AnswerTo(k))
           /\ \A d \in Connection : AnswersOnce(up'[d], Callback)
           /\ \A k \in Callback : Head(up[c]) = AnswerTo(k) => ~Answers(up'[c], k)
<1>1. /\ up \in [Connection -> Seq(Message)]
      /\ \A d \in Connection : AnswersOnce(up[d], Callback)
  BY DEF TypeOK, OnceInv
<1> DEFINE t == Taken(up, c)
<1>2. /\ \A d \in Connection : \A k :
             Carries(up[d], k) <=> Carries(t[d], k) \/ (d = c /\ Head(up[c]) = CallOf(k))
      /\ \A d \in Connection : \A k :
             Answers(up[d], k) <=> Answers(t[d], k) \/ (d = c /\ Head(up[c]) = AnswerTo(k))
      /\ \A d \in Connection : AnswersOnce(t[d], Callback)
      /\ \A k \in Callback : Head(up[c]) = AnswerTo(k) => ~Answers(t[c], k)
  BY <1>1, TakenFrom
<1> QED BY <1>2

(* Of each call either nothing changes, or both sides of the matter do. *)
LEMMA ForwardStep ==
    ASSUME ForwardInv, SameEnds,
           \A k \in Call : \/ (Forth(k)' <=> Forth(k)) /\ (Waits(k)' <=> Waits(k))
                           \/ Forth(k)' /\ Waits(k)'
                           \/ ~Forth(k)' /\ ~Waits(k)'
    PROVE  ForwardInv'
<1>1. (handle'[H] = "up" <=> handle[H] = "up") /\ (ServerGone(link)' <=> ServerGone(link))
  BY DEF SameEnds, ServerGone
<1> QED BY <1>1 DEF ForwardInv

LEMMA CallbackStep ==
    ASSUME EndsInv, CallbackInv, SameEnds,
           \A c \in Connection, n \in Callback :
               \/ (Back(c, n)' <=> Back(c, n)) /\ (<<c, n>> \in s_promises' <=> <<c, n>> \in s_promises)
               \/ Back(c, n)' /\ <<c, n>> \in s_promises'
               \/ ~Back(c, n)' /\ <<c, n>> \notin s_promises',
           \A c \in Connection, n \in Callback : Answers(up'[c], n) => ~Asking(<<c, n>>)'
    PROVE  CallbackInv'
<1>1. /\ handle'[H] = "up" <=> handle[H] = "up"
      /\ ServerGone(link)' <=> ServerGone(link)
      /\ link' = link /\ s_clients' = s_clients
  BY DEF SameEnds, ServerGone
<1>2. s_clients \subseteq Connection /\ (handle[H] = "up" => link \in Connection)
  BY LastConnection DEF EndsInv, ServerInv
<1>3. \A c \in s_clients', n \in Callback : Back(c, n)' => <<c, n>> \in s_promises'
  BY <1>1, <1>2 DEF CallbackInv
<1>4. ASSUME handle'[H] = "up", ~ServerGone(link)', NEW n \in Callback, <<link', n>> \in s_promises'
      PROVE  Back(link, n)'
  BY <1>1, <1>2, <1>4 DEF CallbackInv
<1> QED BY <1>3, <1>4 DEF CallbackInv

(* What is in flight was asked. *)
LEMMA AskingServes ==
    ASSUME FlightBase, NEW p, Asking(p)
    PROVE  Served(p)
<1>1. PICK k \in asked \cap promises : calls[k + 1].for = p
  BY DEF Asking
<1>2. k \in Call /\ k < next_message_id
  BY <1>1 DEF FlightBase, BooksInv
<1>3. k + 1 \in 1 .. Len(calls)
  BY <1>2, CallsAreNumbers DEF FlightBase, SystemInv, TypeOK
<1> QED BY <1>1, <1>3 DEF Served

LEMMA BackIsAsked ==
    ASSUME FlightBase, NEW c \in Connection, NEW n \in Callback, Back(c, n)
    PROVE  <<c, n>> \in s_asked
<1>1. <<c, n>> \in Pair
  BY DEF Pair
<1>2. CASE Carries(down[c], n)
  BY <1>2 DEF FlightBase, BackwardInv, DownInv
<1>3. Answers(up[c], n) \/ Asking(<<c, n>>) => Served(<<c, n>>)
  BY AskingServes DEF FlightBase, BackwardInv, ReplyInv
<1>4. CASE Served(<<c, n>>)
  BY <1>1, <1>4 DEF FlightBase, BackwardInv, ServedInv
<1> QED BY <1>2, <1>3, <1>4 DEF Back

(* What closes an end may forget what is in flight on the connection. *)
LEMMA CalmKeepsFlight ==
    ASSUME FlightInv, Calm, ServerInv', asked' = asked \/ asked' = {}
    PROVE  OnceInv' /\ ForwardInv' /\ CallbackInv'
<1>1. /\ UNCHANGED <<up, down, promises, calls>> /\ link' = link
      /\ handle'[H] = "up" => handle[H] = "up" /\ asked' = asked
      /\ s_promises' \subseteq s_promises
      /\ handle[H] = "up" => link \in Connection
  BY LastConnection DEF Calm, Idle, FlightInv, FlightBase, EndsInv
<1>2. OnceInv'
  BY <1>1 DEF FlightInv, OnceInv
<1>3. handle'[H] = "up" /\ ~ServerGone(link)' => ~ServerGone(link)
  BY <1>1 DEF Calm
<1>4. ForwardInv'
  BY <1>1, <1>3 DEF FlightInv, ForwardInv, Forth, Waits
<1>5. \A p : Asking(p)' => Asking(p)
  BY <1>1 DEF Asking
<1>6. \A c \in Connection, n \in Callback : Answers(up'[c], n) => ~Asking(<<c, n>>)'
  BY <1>1, <1>5 DEF FlightInv, CallbackInv
<1>7. \A c \in Connection, n \in Callback : Back(c, n)' => Back(c, n)
  BY <1>1, <1>5 DEF Back
<1>8. ASSUME NEW c \in s_clients', NEW n \in Callback, Back(c, n)'
      PROVE  <<c, n>> \in s_promises'
  <2>1. c \in Connection /\ Back(c, n)
    BY <1>7, <1>8 DEF ServerInv
  <2>2. <<c, n>> \in s_asked
    BY <2>1, BackIsAsked DEF FlightInv
  <2>3. c \in s_clients
    BY <2>1, <2>2 DEF Calm, FlightInv, FlightBase, EndsInv, FreshInv
  <2>4. <<c, n>> \in s_promises
    BY <2>1, <2>3 DEF FlightInv, CallbackInv
  <2> QED BY <2>4 DEF Calm
<1>9. ASSUME handle'[H] = "up", ~ServerGone(link)', NEW n \in Callback, <<link', n>> \in s_promises'
      PROVE  Back(link, n)'
  <2>1. Back(link, n)
    BY <1>1, <1>3, <1>9 DEF FlightInv, CallbackInv
  <2> QED BY <1>1, <1>9, <2>1 DEF Back, Asking
<1>10. CallbackInv'
  BY <1>6, <1>8, <1>9 DEF CallbackInv
<1> QED BY <1>2, <1>4, <1>10

LEMMA HelloAlone == \A k : /\ ~Carries(<<Hello>>, k) /\ ~Answers(<<Hello>>, k)
                         /\ ~Carries(<<>>, k) /\ ~Answers(<<>>, k)
<1>1. Len(<<Hello>>) = 1 /\ <<Hello>>[1] = Hello
  OBVIOUS
<1> QED BY <1>1, Distinct DEF Carries, Answers

(* Nothing is in flight on a new connection. *)
LEMMA ConnectKeepsFlight ==
    ASSUME FlightInv, Connect
    PROVE  OnceInv' /\ ForwardInv' /\ CallbackInv'
<1>1. TypeOK /\ EndsInv /\ ServerInv /\ FreshInv /\ SocketInv /\ LinkInv
  BY DEF FlightInv, FlightBase, SystemInv, EndsInv
<1>2. link' \in Connection /\ link' = link + 1
  BY ConnectKeepsEnds DEF FlightInv, FlightBase, SystemInv
<1>3. /\ handle[H] = "connecting" /\ up' = [up EXCEPT ![link'] = <<Hello>>]
      /\ UNCHANGED <<asked, promises, down, serverVars>>
  BY DEF Connect, C!OnConnect, C!callVars
<1>4. asked' = {} /\ UNCHANGED <<s_clients, s_promises>>
  BY <1>1, <1>3 DEF SocketInv, serverVars
<1>5. /\ \A d \in Connection : d # link' => up'[d] = up[d]
      /\ up'[link'] = <<Hello>> /\ down'[link'] = <<>>
      /\ s_handle[link'] = "new"
  <2>1. link' > link
    BY <1>1, <1>2 DEF LinkInv
  <2> QED BY <1>1, <1>2, <1>3, <2>1 DEF FreshInv, ServerInv, TypeOK
<1>6. \A p : ~Asking(p)'
  BY <1>4 DEF Asking
<1>7. OnceInv'
  <2>1. AnswersOnce(<<Hello>>, Callback)
    BY HelloAlone DEF AnswersOnce, Answers
  <2>2. ASSUME NEW d \in Connection PROVE AnswersOnce(up'[d], Callback)
    <3>1. CASE d = link'
      BY <1>5, <2>1, <3>1
    <3>2. CASE d # link'
      BY <1>5, <3>2 DEF FlightInv, OnceInv
    <3> QED BY <3>1, <3>2
  <2> QED BY <1>3, <2>2 DEF FlightInv, OnceInv
<1>8. ForwardInv'
  <2>1. \A k \in Call : ~Waits(k)' /\ ~Forth(k)'
    BY <1>4, <1>5, HelloAlone DEF Waits, Forth
  <2> QED BY <2>1 DEF ForwardInv
<1>9. ASSUME NEW c \in s_clients', NEW n \in Callback, Back(c, n)'
      PROVE  <<c, n>> \in s_promises'
  <2>1. c \in s_clients /\ c \in Connection /\ c # link'
    BY <1>1, <1>4, <1>5, <1>9 DEF ServerInv
  <2>2. Back(c, n)
    BY <1>3, <1>5, <1>6, <1>9, <2>1 DEF Back
  <2> QED BY <1>4, <2>1, <2>2 DEF FlightInv, CallbackInv
<1>10. \A n \in Callback : <<link', n>> \notin s_promises'
  BY <1>1, <1>2, <1>4, <1>5 DEF FreshInv
<1>11. CallbackInv'
  BY <1>6, <1>9, <1>10 DEF CallbackInv
<1> QED BY <1>7, <1>8, <1>11

(* The calls that waited are in flight. *)
LEMMA FlushKeepsFlight ==
    ASSUME FlightInv, TakeHello
    PROVE  OnceInv' /\ ForwardInv' /\ CallbackInv'
<1> DEFINE q == pending_messages
<1>1. /\ TypeOK /\ EndsInv /\ OnceInv /\ ForwardInv /\ CallbackInv /\ BooksInv /\ ForInv
      /\ up \in [Connection -> Seq(Message)] /\ down \in [Connection -> Seq(Message)]
      /\ q \in Seq(Call)
  BY DEF FlightInv, FlightBase, SystemInv, TypeOK
<1>2. /\ asked' = asked \cup Range(q) /\ UNCHANGED <<promises, calls, link, serverVars>>
      /\ link \in Connection /\ down[link] # <<>> /\ Head(down[link]) = Hello
      /\ down' = Taken(down, link) /\ up' = [up EXCEPT ![link] = up[link] \o Flushed(q)]
  BY DEF TakeHello, Arrives, C!OnHandshake, C!AfterFlush, C!Range, Range, appVars
<1>3. SameEnds /\ s_promises' = s_promises
  <2>1. UNCHANGED <<serverVars, link, faults>>
    BY DEF TakeHello
  <2> QED BY <2>1, ClientFrames DEF serverVars
<1>4. /\ \A d \in Connection : d # link => up'[d] = up[d]
      /\ up'[link] = up[link] \o Flushed(q) /\ up[link] \in Seq(Message)
  BY <1>1, <1>2
<1>5. \A k : Carries(up'[link], k) <=> Carries(up[link], k) \/ k \in Range(q)
  BY <1>1, <1>4, FlushToStream
<1>6. /\ \A d \in Connection : \A k : Answers(up'[d], k) <=> Answers(up[d], k)
      /\ \A d \in Connection : AnswersOnce(up'[d], Callback)
  <2>1. /\ \A k : Answers(up'[link], k) <=> Answers(up[link], k)
        /\ AnswersOnce(up[link], Callback) => AnswersOnce(up'[link], Callback)
    BY <1>1, <1>4, FlushedAnswers
  <2> QED BY <1>1, <1>2, <1>4, <2>1 DEF OnceInv
<1>7. /\ \A d \in Connection : \A k : /\ Carries(down'[d], k) <=> Carries(down[d], k)
                                      /\ Answers(down'[d], k) <=> Answers(down[d], k)
      /\ \A d \in Connection : AnswersOnce(down'[d], Call)
  <2>1. \A k : Hello # CallOf(k) /\ Hello # AnswerTo(k)
    BY Distinct
  <2> QED BY <1>1, <1>2, <2>1, ClientTakes
<1> HIDE DEF q
<1>8. ForwardInv'
  <2> SUFFICES ASSUME NEW k \in Call
               PROVE  \/ (Forth(k)' <=> Forth(k)) /\ (Waits(k)' <=> Waits(k))
                      \/ Forth(k)' /\ Waits(k)'
    BY <1>1, <1>3, ForwardStep
  <2>1. k \in Range(q) => k \in promises
    BY <1>1 DEF BooksInv, q
  <2>2. Waits(k)' <=> Waits(k) \/ k \in Range(q)
    BY <1>2, <2>1 DEF Waits
  <2>3. Forth(k)' <=> Forth(k) \/ k \in Range(q)
    BY <1>2, <1>5, <1>7 DEF Forth
  <2> QED BY <2>2, <2>3
<1>9. \A c, n : Asking(<<c, n>>)' <=> Asking(<<c, n>>)
  <2>1. \A k \in Range(q) : calls[k + 1].for = <<>>
    BY <1>1 DEF ForInv, q
  <2>2. \A c, n : <<c, n>> # <<>>
    OBVIOUS
  <2> QED BY <1>2, <2>1, <2>2 DEF Asking
<1>10. \A c \in Connection, n \in Callback : Back(c, n)' <=> Back(c, n)
  BY <1>6, <1>7, <1>9 DEF Back
<1>11. CallbackInv'
  <2>1. \A c \in Connection, n \in Callback : Answers(up'[c], n) => ~Asking(<<c, n>>)'
    BY <1>1, <1>6, <1>9 DEF CallbackInv
  <2> QED BY <1>1, <1>3, <1>10, <2>1, CallbackStep
<1> QED BY <1>6, <1>7, <1>8, <1>11 DEF OnceInv

(* A call that is written is in flight, and waited for; one that is queued *)
(* or thrown out is neither.                                               *)
LEMMA InvokeAsks ==
    ASSUME FlightInv, NEW method \in {Say, Request, Echo},
           NEW for \in {<<>>} \cup Pair, Invoke(method, for)
    PROVE  LET k == next_message_id IN
           /\ k \in Call
           /\ \A j \in Call : asked' # asked => (Waits(j)' <=> Waits(j) \/ j = k)
           /\ asked' = asked => \A j \in Call : Waits(j)' <=> Waits(j)
           /\ \A p : p # for => (Asking(p)' <=> Asking(p))
           /\ asked' # asked => Asking(for)'
           /\ \A d \in Connection, m \in Callback : Answers(up'[d], m) <=> Answers(up[d], m)
           /\ \A d \in Connection : AnswersOnce(up'[d], Callback)
           /\ link \in Connection => \A j \in Call :
                  Carries(up'[link], j) <=> Carries(up[link], j) \/ (asked' # asked /\ j = k)
           /\ ~C!MustQueue /\ is_connected => asked' # asked
<1> DEFINE k == next_message_id
           r == [method |-> method, for |-> for]
           m == CallOf(k)
<1>1. /\ SystemInv /\ BooksInv /\ TypeOK /\ OnceInv
      /\ up \in [Connection -> Seq(Message)]
  BY DEF FlightInv, FlightBase, SystemInv, TypeOK
<1>2. /\ k \in Call /\ k \in Nat /\ calls' = Append(calls, r)
      /\ \/ C!MustQueue /\ up' = up /\ asked' = asked /\ promises' = promises \cup {k}
         \/ /\ ~C!MustQueue /\ is_connected /\ up' = Put(up, link, m)
            /\ asked' = asked \cup {k} /\ promises' = promises \cup {k}
         \/ /\ ~C!MustQueue /\ ~is_connected /\ up' = up
            /\ UNCHANGED <<asked, promises>>
  BY <1>1, InvokeCases
<1>3. r \in CallRecord /\ r.for = for
  BY DEF CallRecord, Pair
<1>4. m \in Message /\ \A j : m # AnswerTo(j) /\ (m = CallOf(j) <=> j = k)
  BY <1>2, MessageType, Distinct DEF Numbers
<1> HIDE DEF r, m
<1>5. /\ \A j \in Call : j < k => calls'[j + 1] = calls[j + 1]
      /\ calls'[k + 1].for = for
  BY <1>1, <1>2, <1>3, CallsRemain
<1>6. \A j \in asked \cup promises : j \in Call /\ j < k /\ j # k
  BY <1>1, <1>2, CallsAreNumbers DEF BooksInv, k
<1> HIDE DEF k
<1>7. k \notin asked /\ k \notin promises
  BY <1>6
<1>8. /\ asked' = asked => up' = up /\ asked' \cap promises' = asked \cap promises
      /\ asked' # asked => /\ up' = Put(up, link, m)
                          /\ asked' \cap promises' = (asked \cap promises) \cup {k}
      /\ ~C!MustQueue /\ is_connected => asked' # asked
  BY <1>2, <1>7
<1>9. /\ \A j \in Call : asked' # asked => (Waits(j)' <=> Waits(j) \/ j = k)
      /\ asked' = asked => \A j \in Call : Waits(j)' <=> Waits(j)
  BY <1>8 DEF Waits
<1>10. asked' # asked => Asking(for)'
  BY <1>5, <1>8 DEF Asking
<1>11. ASSUME NEW p, p # for PROVE Asking(p)' <=> Asking(p)
  <2>1. \A j \in asked \cap promises : calls'[j + 1] = calls[j + 1]
    BY <1>5, <1>6
  <2>2. CASE asked' = asked
    BY <1>8, <2>1, <2>2 DEF Asking
  <2>3. CASE asked' # asked
    BY <1>5, <1>8, <1>11, <2>1, <2>3 DEF Asking
  <2> QED BY <2>2, <2>3
<1>12. /\ \A d \in Connection, n \in Callback : Answers(up'[d], n) <=> Answers(up[d], n)
       /\ \A d \in Connection : AnswersOnce(up'[d], Callback)
       /\ link \in Connection => \A j \in Call :
              Carries(up'[link], j) <=> Carries(up[link], j) \/ (asked' # asked /\ j = k)
  <2>1. CASE asked' = asked
    BY <1>1, <1>8, <2>1 DEF OnceInv
  <2>2. CASE asked' # asked /\ link \notin Connection
    <3>1. up' = up
      BY <1>1, <1>8, <2>2 DEF Put
    <3> QED BY <1>1, <2>2, <3>1 DEF OnceInv
  <2>3. CASE asked' # asked /\ link \in Connection
    <3>1. /\ \A d \in Connection : \A n :
                 Answers(Put(up, link, m)[d], n) <=> Answers(up[d], n) \/ (d = link /\ m = AnswerTo(n))
          /\ \A d \in Connection : \A j :
                 Carries(Put(up, link, m)[d], j) <=> Carries(up[d], j) \/ (d = link /\ m = CallOf(j))
      BY <1>1, <1>4, <2>3, PutMessage
    <3>2. \A d \in Connection : AnswersOnce(Put(up, link, m)[d], Callback)
      <4>1. \A d \in Connection : AnswersOnce(up[d], Callback)
        BY <1>1 DEF OnceInv
      <4>2. \A n \in Callback : m = AnswerTo(n) => ~Answers(up[link], n)
        BY <1>4
      <4> QED BY <1>1, <1>4, <2>3, <4>1, <4>2, PutOnce
    <3> QED BY <1>4, <1>8, <2>3, <3>1, <3>2
  <2> QED BY <2>1, <2>2, <2>3
<1> QED BY <1>2, <1>8, <1>9, <1>10, <1>11, <1>12 DEF k

(* A call of main() puts nothing in flight but itself. *)
LEMMA MainKeepsFlight ==
    ASSUME FlightInv, MainCalls
    PROVE  OnceInv' /\ ForwardInv' /\ CallbackInv'
<1> DEFINE k == next_message_id
           none == <<>>
<1>1. EndsInv /\ OnceInv /\ ForwardInv /\ CallbackInv
  BY DEF FlightInv, FlightBase
<1>2. PICK method \in {Say, Request, Echo} : Invoke(method, none)
  BY MainIsCallable DEF FlightInv
<1>3. UNCHANGED <<serverVars, link, down, faults>>
  BY DEF MainCalls
<1>4. SameEnds /\ s_promises' = s_promises
  BY <1>2, <1>3, ClientFrames DEF Invoke, serverVars
<1>5. none \in {<<>>} \cup Pair /\ \A c, n : <<c, n>> # none
  OBVIOUS
<1> HIDE DEF none
<1>6. /\ \A j \in Call : asked' # asked => (Waits(j)' <=> Waits(j) \/ j = k)
      /\ asked' = asked => \A j \in Call : Waits(j)' <=> Waits(j)
      /\ \A p : p # none => (Asking(p)' <=> Asking(p))
      /\ \A d \in Connection, m \in Callback : Answers(up'[d], m) <=> Answers(up[d], m)
      /\ \A d \in Connection : AnswersOnce(up'[d], Callback)
      /\ link \in Connection => \A j \in Call :
             Carries(up'[link], j) <=> Carries(up[link], j) \/ (asked' # asked /\ j = k)
  BY <1>2, <1>5, InvokeAsks
<1> HIDE DEF k
<1>7. ForwardInv'
  <2>1. CASE handle'[H] # "up"
    BY <2>1 DEF ForwardInv
  <2>2. CASE handle'[H] = "up"
    <3>1. link \in Connection
      BY <1>1, <1>4, <2>2, LastConnection DEF EndsInv, SameEnds
    <3> SUFFICES ASSUME NEW j \in Call
                 PROVE  \/ (Forth(j)' <=> Forth(j)) /\ (Waits(j)' <=> Waits(j))
                        \/ Forth(j)' /\ Waits(j)'
      BY <1>1, <1>4, ForwardStep
    <3>2. Forth(j)' <=> Forth(j) \/ (asked' # asked /\ j = k)
      BY <1>3, <1>6, <3>1 DEF Forth
    <3> QED BY <1>6, <3>2
  <2> QED BY <2>1, <2>2
<1>8. CallbackInv'
  <2>1. \A c \in Connection, n \in Callback : Back(c, n)' <=> Back(c, n)
    BY <1>3, <1>5, <1>6 DEF Back
  <2>2. \A c \in Connection, n \in Callback : Answers(up'[c], n) => ~Asking(<<c, n>>)'
    BY <1>1, <1>5, <1>6 DEF CallbackInv
  <2> QED BY <1>1, <1>4, <2>1, <2>2, CallbackStep
<1>9. OnceInv'
  BY <1>1, <1>3, <1>6 DEF OnceInv
<1> QED BY <1>7, <1>8, <1>9

(* The call of the server becomes one of echo_v1() that it waits for. *)
LEMMA EchoKeepsFlight ==
    ASSUME FlightInv, NEW n \in Callback, TakeCall(n)
    PROVE  OnceInv' /\ ForwardInv' /\ CallbackInv'
<1> DEFINE k == next_message_id
<1>p. PICK for : for = <<link, n>>
  OBVIOUS
<1>1. /\ EndsInv /\ OnceInv /\ ForwardInv /\ CallbackInv /\ FlightBase /\ ReplyInv
      /\ TypeOK
  BY DEF FlightInv, FlightBase, SystemInv, TypeOK, BackwardInv
<1>2. /\ Invoke(Echo, for) /\ for \in Pair /\ ~Served(for)
      /\ ~C!MustQueue /\ is_connected
      /\ link \in Connection /\ Head(down[link]) = CallOf(n)
      /\ down[link] # <<>> /\ down' = Taken(down, link)
      /\ UNCHANGED <<serverVars, link, faults>>
  BY <1>p, <1>1, EchoIsCallable DEF Callable
<1>3. SameEnds /\ s_promises' = s_promises
  BY <1>2, ClientFrames DEF Invoke, serverVars
<1>4. for \in {<<>>} \cup Pair /\ Echo \in {Say, Request, Echo}
  BY <1>2
<1>5. \A c \in Connection, m \in Callback : <<c, m>> = for <=> c = link /\ m = n
  BY <1>p
<1>6. ~Answers(up[link], n)
  BY <1>p, <1>1, <1>2 DEF ReplyInv
<1>7. Carries(down[link], n)
  <2>1. down[link] \in Seq(Message)
    BY <1>1, <1>2 DEF TypeOK
  <2> QED BY <1>2, <2>1, HeadTaken
<1>8. /\ asked' # asked
      /\ \A j \in Call : Waits(j)' <=> Waits(j) \/ j = k
      /\ \A p : p # for => (Asking(p)' <=> Asking(p))
      /\ Asking(for)'
      /\ \A d \in Connection, m \in Callback : Answers(up'[d], m) <=> Answers(up[d], m)
      /\ \A d \in Connection : AnswersOnce(up'[d], Callback)
      /\ \A j \in Call : Carries(up'[link], j) <=> Carries(up[link], j) \/ j = k
  <2>1. /\ \A j \in Call : asked' # asked => (Waits(j)' <=> Waits(j) \/ j = k)
        /\ \A p : p # for => (Asking(p)' <=> Asking(p))
        /\ asked' # asked => Asking(for)'
        /\ \A d \in Connection, m \in Callback : Answers(up'[d], m) <=> Answers(up[d], m)
        /\ \A d \in Connection : AnswersOnce(up'[d], Callback)
        /\ link \in Connection => \A j \in Call :
               Carries(up'[link], j) <=> Carries(up[link], j) \/ (asked' # asked /\ j = k)
        /\ ~C!MustQueue /\ is_connected => asked' # asked
    BY <1>2, <1>4, InvokeAsks
  <2> HIDE DEF k
  <2> QED BY <1>2, <2>1
<1>9. /\ \A d \in Connection : \A j : Answers(down'[d], j) <=> Answers(down[d], j)
      /\ \A d \in Connection : \A m :
             Carries(down[d], m) <=> Carries(down'[d], m) \/ (d = link /\ m = n)
      /\ \A d \in Connection : AnswersOnce(down'[d], Call)
  <2>1. \A j : CallOf(n) # AnswerTo(j) /\ (CallOf(n) = CallOf(j) <=> j = n)
    BY Distinct
  <2>2. /\ \A d \in Connection : \A m :
               Carries(down[d], m) <=> Carries(down'[d], m) \/ (d = link /\ CallOf(n) = CallOf(m))
        /\ \A d \in Connection : \A j :
               Answers(down[d], j) <=> Answers(down'[d], j) \/ (d = link /\ CallOf(n) = AnswerTo(j))
        /\ \A d \in Connection : AnswersOnce(down'[d], Call)
    BY <1>1, <1>2, ClientTakes
  <2> QED BY <2>1, <2>2
<1> HIDE DEF k
<1>10. ForwardInv'
  <2> SUFFICES ASSUME NEW j \in Call
               PROVE  \/ (Forth(j)' <=> Forth(j)) /\ (Waits(j)' <=> Waits(j))
                      \/ Forth(j)' /\ Waits(j)'
    BY <1>1, <1>3, ForwardStep
  <2>1. Forth(j)' <=> Forth(j) \/ j = k
    BY <1>2, <1>8, <1>9 DEF Forth
  <2> QED BY <1>8, <2>1
<1>11. CallbackInv'
  <2>1. ASSUME NEW c \in Connection, NEW m \in Callback
        PROVE  (Back(c, m)' <=> Back(c, m)) /\ (Answers(up'[c], m) => ~Asking(<<c, m>>)')
    <3>1. CASE <<c, m>> = for
      <4>1. Back(c, m) /\ Back(c, m)' /\ ~Answers(up'[c], m)
        BY <1>5, <1>6, <1>7, <1>8, <3>1 DEF Back
      <4> QED BY <4>1
    <3>2. CASE <<c, m>> # for
      <4>1. /\ Asking(<<c, m>>)' <=> Asking(<<c, m>>)
            /\ Carries(down'[c], m) <=> Carries(down[c], m)
            /\ Answers(up'[c], m) <=> Answers(up[c], m)
        BY <1>5, <1>8, <1>9, <3>2
      <4> QED BY <1>1, <4>1 DEF Back, CallbackInv
    <3> QED BY <3>1, <3>2
  <2> QED BY <1>1, <1>3, <2>1, CallbackStep
<1>12. OnceInv'
  BY <1>8, <1>9 DEF OnceInv
<1> QED BY <1>10, <1>11, <1>12

(* The answer to a call of echo_v1() becomes that to the server's call. *)
LEMMA AnswerKeepsFlight ==
    ASSUME FlightInv, NEW k \in Call, TakeAnswer(k)
    PROVE  OnceInv' /\ ForwardInv' /\ CallbackInv'
<1>f. PICK for : for = calls[k + 1].for
  OBVIOUS
<1>1. /\ EndsInv /\ OnceInv /\ ForwardInv /\ CallbackInv /\ FlightBase /\ SystemInv
      /\ BooksInv /\ ServedInv
      /\ TypeOK /\ up \in [Connection -> Seq(Message)]
  BY DEF FlightInv, FlightBase, SystemInv, TypeOK, BackwardInv
<1>2. /\ UNCHANGED <<handle, sock, is_open, asked, calls, link, faults, serverVars>>
      /\ k \in asked /\ k \in promises /\ promises' = promises \ {k}
      /\ link \in Connection /\ down[link] # <<>> /\ down' = Taken(down, link)
      /\ Head(down[link]) = AnswerTo(k)
      /\ \/ for = <<>> /\ up' = up
         \/ \E n \in Callback : for = <<link, n>> /\ up' = Put(up, link, AnswerTo(n))
  BY <1>f, <1>1, AnswerCases
<1>3. SameEnds /\ s_promises' = s_promises
  BY <1>2 DEF SameEnds, serverVars
<1>4. /\ \A d \in Connection : \A j : Carries(down'[d], j) <=> Carries(down[d], j)
      /\ \A j \in Call : j # k => (Answers(down'[link], j) <=> Answers(down[link], j))
      /\ \A d \in Connection : AnswersOnce(down'[d], Call)
      /\ ~Answers(down'[link], k)
  <2>1. \A j : AnswerTo(k) # CallOf(j) /\ (AnswerTo(k) = AnswerTo(j) <=> j = k)
    BY Distinct
  <2>2. /\ \A d \in Connection : \A j :
               Carries(down[d], j) <=> Carries(down'[d], j) \/ (d = link /\ AnswerTo(k) = CallOf(j))
        /\ \A d \in Connection : \A j :
               Answers(down[d], j) <=> Answers(down'[d], j) \/ (d = link /\ AnswerTo(k) = AnswerTo(j))
        /\ \A d \in Connection : AnswersOnce(down'[d], Call)
        /\ ~Answers(down'[link], k)
    BY <1>1, <1>2, ClientTakes
  <2> QED BY <1>2, <2>1, <2>2
<1>5. ~Carries(up[link], k)
  <2>1. Done(k)
    BY <1>1, AnswerArrives
  <2> QED BY <1>1, <1>2, <2>1 DEF SystemInv, OrderInv, ExecutionInv, Carried
<1>6. Asking(for)
  BY <1>f, <1>2 DEF Asking
<1>7. \A j \in asked \cap promises : calls[j + 1].for = for /\ for \in Pair => j = k
  <2> SUFFICES ASSUME NEW j \in asked \cap promises, calls[j + 1].for = for, for \in Pair
               PROVE  j = k
    OBVIOUS
  <2>1. j \in Nat /\ k \in Nat /\ j < next_message_id /\ k < next_message_id
    BY <1>1, <1>2, CallsAreNumbers DEF BooksInv
  <2>2. j + 1 \in 1 .. Len(calls) /\ k + 1 \in 1 .. Len(calls)
    BY <1>1, <2>1 DEF SystemInv, TypeOK
  <2>3. j + 1 = k + 1
    BY <1>f, <1>1, <2>2 DEF ServedInv
  <2> QED BY <2>1, <2>3
<1>8. \A p : p # for => (Asking(p)' <=> Asking(p))
  BY <1>f, <1>2 DEF Asking
<1>9. for \in Pair => ~Asking(for)'
  BY <1>2, <1>7 DEF Asking
<1>10. \A j \in Call : Carries(up'[link], j) <=> Carries(up[link], j)
  <2>1. ASSUME NEW n \in Callback, up' = Put(up, link, AnswerTo(n)) PROVE <1>10!:
    <3>1. AnswerTo(n) \in Message /\ \A j : AnswerTo(n) # CallOf(j)
      BY MessageType, Distinct DEF Numbers
    <3>2. \A d \in Connection : \A j :
              Carries(up'[d], j) <=> Carries(up[d], j) \/ (d = link /\ AnswerTo(n) = CallOf(j))
      BY <1>1, <1>2, <2>1, <3>1, PutMessage
    <3> QED BY <1>2, <3>1, <3>2
  <2> QED BY <1>2, <2>1
<1>11. ForwardInv'
  <2> SUFFICES ASSUME NEW j \in Call
               PROVE  \/ (Forth(j)' <=> Forth(j)) /\ (Waits(j)' <=> Waits(j))
                      \/ ~Forth(j)' /\ ~Waits(j)'
    BY <1>1, <1>3, ForwardStep
  <2>1. CASE j = k
    BY <1>2, <1>4, <1>5, <1>10, <2>1 DEF Forth, Waits
  <2>2. CASE j # k
    BY <1>2, <1>4, <1>10, <2>2 DEF Forth, Waits
  <2> QED BY <2>1, <2>2
<1>12. CASE for = <<>> /\ up' = up
  <2>1. \A c \in Connection, n \in Callback : Asking(<<c, n>>)' <=> Asking(<<c, n>>)
    BY <1>8, <1>12
  <2>2. CallbackInv'
    <3>1. \A c \in Connection, n \in Callback : Back(c, n)' <=> Back(c, n)
      BY <1>4, <1>12, <2>1 DEF Back
    <3>2. \A c \in Connection, n \in Callback : Answers(up'[c], n) => ~Asking(<<c, n>>)'
      BY <1>1, <1>12, <2>1 DEF CallbackInv
    <3> QED BY <1>1, <1>3, <3>1, <3>2, CallbackStep
  <2>3. OnceInv'
    BY <1>1, <1>4, <1>12 DEF OnceInv
  <2> QED BY <1>11, <2>2, <2>3
<1>13. ASSUME NEW n \in Callback, for = <<link, n>>, up' = Put(up, link, AnswerTo(n))
       PROVE  OnceInv' /\ CallbackInv'
  <2>1. AnswerTo(n) \in Message /\ \A m : AnswerTo(n) = AnswerTo(m) <=> m = n
    BY MessageType, Distinct DEF Numbers
  <2>2. ~Answers(up[link], n)
    BY <1>1, <1>2, <1>6, <1>13 DEF CallbackInv
  <2>3. \A d \in Connection : AnswersOnce(up'[d], Callback)
    <3>1. \A d \in Connection : AnswersOnce(up[d], Callback)
      BY <1>1 DEF OnceInv
    <3>2. \A m \in Callback : AnswerTo(n) = AnswerTo(m) => ~Answers(up[link], m)
      BY <2>1, <2>2
    <3> QED BY <1>1, <1>2, <1>13, <2>1, <3>1, <3>2, PutOnce
  <2>4. \A d \in Connection : \A m :
            Answers(up'[d], m) <=> Answers(up[d], m) \/ (d = link /\ m = n)
    <3>1. \A d \in Connection : \A m :
              Answers(up'[d], m) <=> Answers(up[d], m) \/ (d = link /\ AnswerTo(n) = AnswerTo(m))
      BY <1>1, <1>2, <1>13, <2>1, PutMessage
    <3> QED BY <2>1, <3>1
  <2>5. for \in Pair
    BY <1>2, <1>13 DEF Pair
  <2>6. ASSUME NEW c \in Connection, NEW m \in Callback
        PROVE  (Back(c, m)' <=> Back(c, m)) /\ (Answers(up'[c], m) => ~Asking(<<c, m>>)')
    <3>1. CASE <<c, m>> = for
      <4>1. c = link /\ m = n
        BY <1>13, <3>1
      <4>2. Back(c, m) /\ Back(c, m)' /\ ~Asking(<<c, m>>)'
        BY <1>6, <1>9, <2>4, <2>5, <3>1, <4>1 DEF Back
      <4> QED BY <4>2
    <3>2. CASE <<c, m>> # for
      <4>1. /\ Asking(<<c, m>>)' <=> Asking(<<c, m>>)
            /\ Carries(down'[c], m) <=> Carries(down[c], m)
            /\ Answers(up'[c], m) <=> Answers(up[c], m)
        BY <1>4, <1>8, <1>13, <2>4, <3>2
      <4> QED BY <1>1, <4>1 DEF Back, CallbackInv
    <3> QED BY <3>1, <3>2
  <2>7. CallbackInv'
    BY <1>1, <1>3, <2>6, CallbackStep
  <2> QED BY <1>4, <2>3, <2>7 DEF OnceInv
<1> QED BY <1>2, <1>11, <1>12, <1>13

(* The client goes on waiting while the server reads. *)
LEMMA ReadingLeaves ==
    ASSUME FlightInv, NEW c \in Connection, ServerReads(c)
    PROVE  /\ SameEnds /\ (\A k \in Call : Waits(k)' <=> Waits(k))
           /\ \A p : Asking(p)' <=> Asking(p)
           /\ link' = link /\ up[c] # <<>> /\ link \in Nat
<1>1. SameEnds /\ UNCHANGED clientVars
  BY ServerFrames DEF ServerReads
<1>2. UNCHANGED calls /\ up[c] # <<>>
  BY DEF ServerReads, Greet, CallBack, Execute, GoodBye, Arrives, appVars
<1>3. UNCHANGED <<asked, promises, link>>
  BY <1>1 DEF clientVars, SameEnds
<1> QED BY <1>1, <1>2, <1>3 DEF Waits, Asking, FlightInv, FlightBase, EndsInv, LinkInv

LEMMA GreetKeepsFlight ==
    ASSUME FlightInv, NEW c \in Connection, Greet(c)
    PROVE  OnceInv' /\ ForwardInv' /\ CallbackInv'
<1>1. /\ EndsInv /\ OnceInv /\ ForwardInv /\ CallbackInv /\ TypeOK
      /\ down \in [Connection -> Seq(Message)]
  BY DEF FlightInv, FlightBase, SystemInv, TypeOK
<1>2. /\ up[c] # <<>> /\ Head(up[c]) = Hello /\ up' = Taken(up, c) /\ down' = Put(down, c, Hello)
      /\ s_promises' = s_promises
  BY DEF Greet, Arrives, S!OnHello, S!callVars
<1>3. /\ SameEnds /\ link' = link /\ (\A k \in Call : Waits(k)' <=> Waits(k))
      /\ \A p : Asking(p)' <=> Asking(p)
  BY ReadingLeaves DEF ServerReads
<1>4. Hello \in Message /\ \A k : Hello # CallOf(k) /\ Hello # AnswerTo(k)
  BY Distinct DEF Message
<1>5. /\ \A d \in Connection : \A k : Carries(up'[d], k) <=> Carries(up[d], k)
      /\ \A d \in Connection : \A k : Answers(up'[d], k) <=> Answers(up[d], k)
      /\ \A d \in Connection : AnswersOnce(up'[d], Callback)
  BY <1>1, <1>2, <1>4, ServerTakes
<1>6. /\ \A d \in Connection : \A k : Carries(down'[d], k) <=> Carries(down[d], k)
      /\ \A d \in Connection : \A k : Answers(down'[d], k) <=> Answers(down[d], k)
  <2>1. /\ \A d \in Connection : \A k :
               Carries(down'[d], k) <=> Carries(down[d], k) \/ (d = c /\ Hello = CallOf(k))
        /\ \A d \in Connection : \A k :
               Answers(down'[d], k) <=> Answers(down[d], k) \/ (d = c /\ Hello = AnswerTo(k))
    <3>1. down \in [Connection -> Seq(Message)] /\ Hello \in Message /\ down' = Put(down, c, Hello)
      BY <1>1, <1>2, <1>4
    <3> QED BY <3>1, PutMessage
  <2> QED BY <1>4, <2>1
<1>7. \A d \in Connection : AnswersOnce(down'[d], Call)
  <2>1. \A d \in Connection : AnswersOnce(down[d], Call)
    BY <1>1 DEF OnceInv
  <2> QED BY <1>1, <1>2, <1>4, <2>1, PutOnce
<1>8. ForwardInv'
  <2>1. CASE handle'[H] # "up"
    BY <2>1 DEF ForwardInv
  <2>2. CASE link \in Connection
    <3>1. \A k \in Call : Forth(k)' <=> Forth(k)
      BY <1>3, <1>5, <1>6, <2>2 DEF Forth
    <3> QED BY <1>1, <1>3, <3>1, ForwardStep
  <2> QED BY <1>1, <1>3, <2>1, <2>2, LastConnection DEF EndsInv, SameEnds
<1>9. CallbackInv'
  <2>1. \A d \in Connection, n \in Callback :
            /\ Back(d, n)' <=> Back(d, n)
            /\ Answers(up'[d], n) => ~Asking(<<d, n>>)'
    BY <1>1, <1>3, <1>5, <1>6 DEF Back, CallbackInv
  <2> QED BY <1>1, <1>2, <1>3, <2>1, CallbackStep
<1> QED BY <1>5, <1>7, <1>8, <1>9 DEF OnceInv

(* The server asks, and waits for the answer. *)
LEMMA CallBackKeepsFlight ==
    ASSUME FlightInv, NEW c \in Connection, NEW k \in Call, CallBack(c, k)
    PROVE  OnceInv' /\ ForwardInv' /\ CallbackInv'
<1>1. /\ EndsInv /\ OnceInv /\ ForwardInv /\ CallbackInv
      /\ down \in [Connection -> Seq(Message)]
  BY DEF FlightInv, FlightBase, SystemInv, TypeOK
<1>n. PICK n : n = s_next_message_id[c]
  OBVIOUS
<1>2. /\ n \in Callback /\ down' = Put(down, c, CallOf(n)) /\ up' = up
      /\ s_promises' = s_promises \cup {<<c, n>>}
  BY <1>n, CallBackAsks
<1>3. /\ SameEnds /\ link' = link /\ (\A j \in Call : Waits(j)' <=> Waits(j))
      /\ \A p : Asking(p)' <=> Asking(p)
  BY ReadingLeaves DEF ServerReads
<1>4. /\ CallOf(n) \in Message
      /\ \A j : CallOf(n) # AnswerTo(j) /\ (CallOf(n) = CallOf(j) <=> j = n)
  BY <1>2, MessageType, Distinct DEF Numbers
<1>5. /\ \A d \in Connection : \A j : Answers(down'[d], j) <=> Answers(down[d], j)
      /\ \A d \in Connection : \A m :
             Carries(down'[d], m) <=> Carries(down[d], m) \/ (d = c /\ m = n)
  <2>1. /\ \A d \in Connection : \A j :
               Answers(down'[d], j) <=> Answers(down[d], j) \/ (d = c /\ CallOf(n) = AnswerTo(j))
        /\ \A d \in Connection : \A j :
               Carries(down'[d], j) <=> Carries(down[d], j) \/ (d = c /\ CallOf(n) = CallOf(j))
    BY <1>1, <1>2, <1>4, PutMessage
  <2> QED BY <1>4, <2>1
<1>6. \A d \in Connection : AnswersOnce(down'[d], Call)
  <2>1. \A d \in Connection : AnswersOnce(down[d], Call)
    BY <1>1 DEF OnceInv
  <2> QED BY <1>1, <1>2, <1>4, <2>1, PutOnce
<1>7. ForwardInv'
  <2>1. CASE handle'[H] # "up"
    BY <2>1 DEF ForwardInv
  <2>2. CASE link \in Connection
    <3>1. \A j \in Call : Forth(j)' <=> Forth(j)
      BY <1>2, <1>3, <1>5, <2>2 DEF Forth
    <3> QED BY <1>1, <1>3, <3>1, ForwardStep
  <2> QED BY <1>1, <1>3, <2>1, <2>2, LastConnection DEF EndsInv, SameEnds
<1>8. CallbackInv'
  <2>1. ASSUME NEW d \in Connection, NEW m \in Callback
        PROVE  /\ \/ /\ Back(d, m)' <=> Back(d, m)
                     /\ <<d, m>> \in s_promises' <=> <<d, m>> \in s_promises
                  \/ Back(d, m)' /\ <<d, m>> \in s_promises'
               /\ Answers(up'[d], m) => ~Asking(<<d, m>>)'
    <3>1. CASE d = c /\ m = n
      BY <1>1, <1>2, <1>3, <1>5, <3>1 DEF Back, CallbackInv
    <3>2. CASE ~(d = c /\ m = n)
      BY <1>1, <1>2, <1>3, <1>5, <3>2 DEF Back, CallbackInv
    <3> QED BY <3>1, <3>2
  <2> QED BY <1>1, <1>3, <2>1, CallbackStep
<1> QED BY <1>1, <1>2, <1>6, <1>7, <1>8 DEF OnceInv

(* The call that is executed becomes its answer. *)
LEMMA ExecutionKeepsFlight ==
    ASSUME FlightInv, NEW c \in Connection, NEW k \in Call, Execute(c, k)
    PROVE  OnceInv' /\ ForwardInv' /\ CallbackInv'
<1>1. /\ EndsInv /\ OnceInv /\ ForwardInv /\ CallbackInv /\ TypeOK /\ SystemInv
      /\ down \in [Connection -> Seq(Message)]
  BY DEF FlightInv, FlightBase, SystemInv, TypeOK
<1>2. /\ up[c] # <<>> /\ Head(up[c]) = CallOf(k) /\ up' = Taken(up, c)
      /\ down' = Put(down, c, AnswerTo(k)) /\ s_promises' = s_promises
  BY DEF Execute, Arrives, S!OnRequest, S!callVars
<1>3. /\ SameEnds /\ link' = link /\ (\A j \in Call : Waits(j)' <=> Waits(j))
      /\ \A p : Asking(p)' <=> Asking(p)
  BY ReadingLeaves DEF ServerReads
<1>4. /\ AnswerTo(k) \in Message
      /\ \A j : CallOf(k) # AnswerTo(j) /\ (CallOf(k) = CallOf(j) <=> j = k)
      /\ \A j : AnswerTo(k) # CallOf(j) /\ (AnswerTo(k) = AnswerTo(j) <=> j = k)
  BY MessageType, Distinct DEF Numbers
<1>5. /\ \A d \in Connection : \A j : Answers(up'[d], j) <=> Answers(up[d], j)
      /\ \A d \in Connection : \A j :
             Carries(up[d], j) <=> Carries(up'[d], j) \/ (d = c /\ j = k)
      /\ \A d \in Connection : AnswersOnce(up'[d], Callback)
  <2>1. /\ \A d \in Connection : \A j :
               Carries(up[d], j) <=> Carries(up'[d], j) \/ (d = c /\ Head(up[c]) = CallOf(j))
        /\ \A d \in Connection : \A j :
               Answers(up[d], j) <=> Answers(up'[d], j) \/ (d = c /\ Head(up[c]) = AnswerTo(j))
        /\ \A d \in Connection : AnswersOnce(up'[d], Callback)
    BY <1>1, <1>2, ServerTakes
  <2>2. \A j : /\ Head(up[c]) # AnswerTo(j)
               /\ Head(up[c]) = CallOf(j) <=> j = k
    BY <1>2, <1>4
  <2> QED BY <2>1, <2>2
<1>6. /\ \A d \in Connection : \A j : Carries(down'[d], j) <=> Carries(down[d], j)
      /\ \A d \in Connection : \A j :
             Answers(down'[d], j) <=> Answers(down[d], j) \/ (d = c /\ j = k)
  <2>1. /\ \A d \in Connection : \A j :
               Carries(down'[d], j) <=> Carries(down[d], j) \/ (d = c /\ AnswerTo(k) = CallOf(j))
        /\ \A d \in Connection : \A j :
               Answers(down'[d], j) <=> Answers(down[d], j) \/ (d = c /\ AnswerTo(k) = AnswerTo(j))
    <3>1. /\ down \in [Connection -> Seq(Message)] /\ AnswerTo(k) \in Message
          /\ down' = Put(down, c, AnswerTo(k))
      BY <1>1, <1>2, <1>4
    <3> QED BY <3>1, PutMessage
  <2> QED BY <1>4, <2>1
<1>7. ~Answers(down[c], k)
  <2>1. Carried(k)
    BY <1>5 DEF Carried
  <2> QED BY <1>1, <2>1 DEF SystemInv, OrderInv, ExecutionInv, AnswerInv
<1>8. \A d \in Connection : AnswersOnce(down'[d], Call)
  <2>1. \A d \in Connection : AnswersOnce(down[d], Call)
    BY <1>1 DEF OnceInv
  <2>2. \A j \in Call : AnswerTo(k) = AnswerTo(j) => ~Answers(down[c], j)
    BY <1>4, <1>7
  <2> QED BY <1>1, <1>2, <1>4, <2>1, <2>2, PutOnce
<1>9. ForwardInv'
  <2>1. CASE handle'[H] # "up"
    BY <2>1 DEF ForwardInv
  <2>2. CASE link \in Connection
    <3>1. \A j \in Call : Forth(j)' <=> Forth(j)
      <4> SUFFICES ASSUME NEW j \in Call PROVE Forth(j)' <=> Forth(j)
        OBVIOUS
      <4>1. CASE link = c /\ j = k
        BY <1>3, <1>5, <1>6, <4>1 DEF Forth
      <4>2. CASE ~(link = c /\ j = k)
        BY <1>3, <1>5, <1>6, <2>2, <4>2 DEF Forth
      <4> QED BY <4>1, <4>2
    <3> QED BY <1>1, <1>3, <3>1, ForwardStep
  <2> QED BY <1>1, <1>3, <2>1, <2>2, LastConnection DEF EndsInv, SameEnds
<1>10. CallbackInv'
  <2>1. \A d \in Connection, n \in Callback :
            /\ Back(d, n)' <=> Back(d, n)
            /\ Answers(up'[d], n) => ~Asking(<<d, n>>)'
    BY <1>1, <1>3, <1>5, <1>6 DEF Back, CallbackInv
  <2> QED BY <1>1, <1>2, <1>3, <2>1, CallbackStep
<1> QED BY <1>5, <1>8, <1>9, <1>10 DEF OnceInv

(* The answer that the server takes was the last trace of its call. *)
LEMMA ReplyKeepsFlight ==
    ASSUME FlightInv, NEW c \in Connection, NEW n \in Callback, GoodBye(c, n)
    PROVE  OnceInv' /\ ForwardInv' /\ CallbackInv'
<1>1. /\ EndsInv /\ OnceInv /\ ForwardInv /\ CallbackInv /\ TypeOK /\ BackwardInv /\ DownInv
  BY DEF FlightInv, FlightBase, SystemInv, BackwardInv
<1>2. /\ up[c] # <<>> /\ Head(up[c]) = AnswerTo(n) /\ up' = Taken(up, c) /\ down' = down
      /\ s_promises' = s_promises \ {<<c, n>>} /\ Served(<<c, n>>)
  BY <1>1, ReplyArrives DEF GoodBye, Arrives
<1>3. /\ SameEnds /\ link' = link /\ (\A j \in Call : Waits(j)' <=> Waits(j))
      /\ \A p : Asking(p)' <=> Asking(p)
  BY ReadingLeaves DEF ServerReads
<1>4. \A j : AnswerTo(n) # CallOf(j) /\ (AnswerTo(n) = AnswerTo(j) <=> j = n)
  BY Distinct
<1>5. /\ \A d \in Connection : \A j : Carries(up'[d], j) <=> Carries(up[d], j)
      /\ \A d \in Connection : \A m :
             Answers(up[d], m) <=> Answers(up'[d], m) \/ (d = c /\ m = n)
      /\ \A d \in Connection : AnswersOnce(up'[d], Callback)
      /\ ~Answers(up'[c], n)
  <2>1. /\ \A d \in Connection : \A j :
               Carries(up[d], j) <=> Carries(up'[d], j) \/ (d = c /\ Head(up[c]) = CallOf(j))
        /\ \A d \in Connection : \A j :
               Answers(up[d], j) <=> Answers(up'[d], j) \/ (d = c /\ Head(up[c]) = AnswerTo(j))
        /\ \A d \in Connection : AnswersOnce(up'[d], Callback)
        /\ \A j \in Callback : Head(up[c]) = AnswerTo(j) => ~Answers(up'[c], j)
    BY <1>1, <1>2, ServerTakes
  <2>2. \A j : /\ Head(up[c]) # CallOf(j)
               /\ Head(up[c]) = AnswerTo(j) <=> j = n
    BY <1>2, <1>4
  <2> QED BY <2>1, <2>2
<1>6. ~Carries(down[c], n) /\ ~Asking(<<c, n>>)
  BY <1>1, <1>2, <1>5 DEF DownInv, CallbackInv
<1>7. ForwardInv'
  <2>1. CASE handle'[H] # "up"
    BY <2>1 DEF ForwardInv
  <2>2. CASE link \in Connection
    <3>1. \A j \in Call : Forth(j)' <=> Forth(j)
      BY <1>2, <1>3, <1>5, <2>2 DEF Forth
    <3> QED BY <1>1, <1>3, <3>1, ForwardStep
  <2> QED BY <1>1, <1>3, <2>1, <2>2, LastConnection DEF EndsInv, SameEnds
<1>8. CallbackInv'
  <2>1. ASSUME NEW d \in Connection, NEW m \in Callback
        PROVE  /\ \/ /\ Back(d, m)' <=> Back(d, m)
                     /\ <<d, m>> \in s_promises' <=> <<d, m>> \in s_promises
                  \/ ~Back(d, m)' /\ <<d, m>> \notin s_promises'
               /\ Answers(up'[d], m) => ~Asking(<<d, m>>)'
    <3>1. CASE d = c /\ m = n
      BY <1>2, <1>3, <1>5, <1>6, <3>1 DEF Back
    <3>2. CASE ~(d = c /\ m = n)
      BY <1>1, <1>2, <1>3, <1>5, <3>2 DEF Back, CallbackInv
    <3> QED BY <3>1, <3>2
  <2> QED BY <1>1, <1>3, <2>1, CallbackStep
<1> QED BY <1>1, <1>2, <1>5, <1>7, <1>8 DEF OnceInv

LEMMA NextFlight == FlightInv /\ [Next]_vars => FlightInv'
<1> SUFFICES ASSUME FlightInv, [Next]_vars PROVE FlightInv'
  OBVIOUS
<1>1. FlightBase'
  BY NextFlightBase DEF FlightInv
<1>2. FlightBase /\ ClientQuiet /\ EndsInv
  BY DEF FlightInv, FlightBase
<1>3. OnceInv' /\ ForwardInv' /\ CallbackInv'
  <2>1. CASE ClientTurns \/ ServerTurns
    <3>1. Calm /\ ServerInv'
      BY <1>2, <2>1, ClientCalm, ServerCalm DEF EndsInv
    <3> QED BY <2>1, <3>1, CalmAsks, CalmKeepsFlight
  <2>2. CASE UNCHANGED vars
    BY <2>2 DEF vars, clientVars, serverVars, netVars, appVars, FlightInv, OnceInv, ForwardInv,
       CallbackInv, Forth, Waits, Back, Asking, ServerGone
  <2>3. CASE Connect
    BY <2>3, ConnectKeepsFlight
  <2>4. CASE TakeHello
    BY <2>4, FlushKeepsFlight
  <2>5. CASE MainCalls
    BY <2>5, MainKeepsFlight
  <2>6. ASSUME NEW k \in Call, TakeAnswer(k) PROVE <1>3!:
    BY <2>6, AnswerKeepsFlight
  <2>7. ASSUME NEW n \in Callback, TakeCall(n) PROVE <1>3!:
    BY <2>7, EchoKeepsFlight
  <2>8. ASSUME NEW c \in Connection, ServerReads(c) PROVE <1>3!:
    BY <2>8, GreetKeepsFlight, CallBackKeepsFlight, ExecutionKeepsFlight, ReplyKeepsFlight
       DEF ServerReads
  <2> QED BY <2>1, <2>2, <2>3, <2>4, <2>5, <2>6, <2>7, <2>8, FlightSteps
<1> QED BY <1>1, <1>3 DEF FlightInv

LEMMA InitFlight == Init => FlightInv
<1> SUFFICES ASSUME Init PROVE FlightInv
  OBVIOUS
<1>1. /\ up = [c \in Connection |-> <<>>] /\ down = [c \in Connection |-> <<>>]
      /\ asked = {} /\ s_clients = {} /\ handle[H] # "up"
  BY DEF Init, C!Init, S!Init
<1>2. OnceInv
  BY <1>1 DEF OnceInv, AnswersOnce
<1>3. ForwardInv /\ CallbackInv
  BY <1>1, HelloAlone DEF ForwardInv, CallbackInv
<1> QED BY <1>2, <1>3, InitFlightBase DEF FlightInv

LEMMA AlwaysFlight == Spec => []FlightInv
BY InitFlight, NextFlight, PTL DEF Spec

(***************************************************************************)
(* What the invariant says                                                 *)
(***************************************************************************)
LEMMA InStream ==
    ASSUME NEW s \in Seq(Message), NEW k
    PROVE  /\ CallOf(k) \in Range(s) <=> Carries(s, k)
           /\ AnswerTo(k) \in Range(s) <=> Answers(s, k)
<1>1. DOMAIN s = 1 .. Len(s)
  OBVIOUS
<1> QED BY <1>1 DEF Range, Carries, Answers

(* Whatever is lost and whoever is started again, the promise of every     *)
(* answer that a side can still read is in its map: AsyncSocket never      *)
(* extracts a promise that is not there.                                   *)
THEOREM AnswersFindTheirPromise == Spec => []AnswersAwaited
<1>1. FlightInv => AnswersAwaited
  <2> SUFFICES ASSUME FlightInv PROVE AnswersAwaited
    OBVIOUS
  <2>1. /\ up \in [Connection -> Seq(Message)] /\ down \in [Connection -> Seq(Message)]
        /\ s_clients \subseteq Connection /\ LinkInv
    BY DEF FlightInv, FlightBase, SystemInv, TypeOK, EndsInv, ServerInv
  <2>2. ASSUME handle[H] = "up", NEW k \in Call, AnswerTo(k) \in Range(down[link])
        PROVE  k \in asked \cap promises
    <3>1. Answers(down[link], k)
      BY <2>1, <2>2, LastConnection, InStream
    <3> QED BY <2>2, <3>1 DEF FlightInv, ForwardInv, Forth, Waits
  <2>3. ASSUME NEW c \in s_clients, NEW n \in Callback, AnswerTo(n) \in Range(up[c])
        PROVE  <<c, n>> \in s_promises
    <3>1. Answers(up[c], n)
      BY <2>1, <2>3, InStream
    <3> QED BY <3>1 DEF FlightInv, CallbackInv, Back
  <2> QED BY <2>2, <2>3 DEF AnswersAwaited
<1> QED BY <1>1, AlwaysFlight, PTL

(* Of what is waited for on a connection nothing is lost and nothing is    *)
(* doubled while both ends are up: each call is in exactly one place.      *)
THEOREM NothingLostInFlight == Spec => []InFlight
<1>1. FlightInv => InFlight
  <2> SUFFICES ASSUME FlightInv, handle[H] = "up", ~ServerGone(link) PROVE InFlight!2
    BY DEF InFlight
  <2>1. /\ link \in Connection /\ up[link] \in Seq(Message) /\ down[link] \in Seq(Message)
        /\ SystemInv /\ DownInv /\ ServedInv /\ ReplyInv /\ BooksInv
        /\ ForwardInv /\ CallbackInv /\ FlightBase
    BY LastConnection DEF FlightInv, FlightBase, SystemInv, TypeOK, EndsInv, BackwardInv
  <2>2. ASSUME NEW k \in asked \cap promises
        PROVE  CallOf(k) \in Range(up[link]) <=> AnswerTo(k) \notin Range(down[link])
    <3>1. k \in Call /\ Waits(k)
      BY <2>1 DEF BooksInv, Waits
    <3>2. Carries(up[link], k) \/ Answers(down[link], k)
      BY <2>1, <3>1 DEF ForwardInv, Forth
    <3>3. ~(Carries(up[link], k) /\ Answers(down[link], k))
      BY <2>1, <3>1 DEF SystemInv, AnswerInv, OrderInv, ExecutionInv, Carried
    <3> QED BY <2>1, <3>2, <3>3, InStream
  <2>3. ASSUME NEW n \in Callback, <<link, n>> \in s_promises
        PROVE  Cardinality({m \in {CallOf(n)} : m \in Range(down[link])}
                   \cup {m \in {AnswerTo(n)} : m \in Range(up[link])}
                   \cup {k \in asked \cap promises : calls[k + 1].for = <<link, n>>}) = 1
    <3> DEFINE p == <<link, n>>
               asks == {k \in asked \cap promises : calls[k + 1].for = p}
               calling == {m \in {CallOf(n)} : m \in Range(down[link])}
               answering == {m \in {AnswerTo(n)} : m \in Range(up[link])}
    <3>1. p \in Pair
      BY <2>1 DEF Pair
    <3>2. /\ calling = IF Carries(down[link], n) THEN {CallOf(n)} ELSE {}
          /\ answering = IF Answers(up[link], n) THEN {AnswerTo(n)} ELSE {}
      BY <2>1, InStream
    <3>3. asks # {} <=> Asking(p)
      BY DEF Asking
    <3>4. \A j, k \in asks : j = k
      <4> SUFFICES ASSUME NEW j \in asks, NEW k \in asks PROVE j = k
        OBVIOUS
      <4>1. /\ j \in Nat /\ k \in Nat /\ j < next_message_id /\ k < next_message_id
            /\ calls[j + 1].for = p /\ calls[k + 1].for = p
        BY <2>1, CallsAreNumbers DEF BooksInv
      <4>2. j + 1 \in 1 .. Len(calls) /\ k + 1 \in 1 .. Len(calls)
        BY <2>1, <4>1 DEF SystemInv, TypeOK
      <4>3. j + 1 = k + 1
        BY <2>1, <3>1, <4>1, <4>2 DEF ServedInv
      <4> QED BY <4>1, <4>3
    <3>5. Carries(down[link], n) \/ Answers(up[link], n) \/ Asking(p)
      BY <2>1, <2>3 DEF CallbackInv, Back
    <3>6. Carries(down[link], n) => ~Answers(up[link], n) /\ ~Asking(p)
      <4>1. Carries(down[link], n) => ~Served(p)
        BY <2>1 DEF DownInv
      <4>2. Answers(up[link], n) => Served(p)
        BY <2>1 DEF ReplyInv
      <4>3. Asking(p) => Served(p)
        BY <2>1, AskingServes
      <4> QED BY <4>1, <4>2, <4>3
    <3>7. Answers(up[link], n) => ~Asking(p)
      BY <2>1 DEF CallbackInv
    <3> HIDE DEF p, asks, calling, answering
    <3>8. \E x : calling \cup answering \cup asks = {x}
      <4>1. CASE Carries(down[link], n)
        BY <3>2, <3>3, <3>6, <4>1
      <4>2. CASE Answers(up[link], n)
        BY <3>2, <3>3, <3>6, <3>7, <4>2
      <4>3. CASE ~Carries(down[link], n) /\ ~Answers(up[link], n)
        <5>1. PICK k : k \in asks
          BY <3>3, <3>5, <4>3
        <5>2. asks = {k}
          BY <3>4, <5>1
        <5> QED BY <3>2, <4>3, <5>2
      <4> QED BY <4>1, <4>2, <4>3
    <3>9. Cardinality(calling \cup answering \cup asks) = 1
      BY <3>8, FS_Singleton
    <3> QED BY <3>9 DEF calling, answering, asks, p
  <2> QED BY <2>2, <2>3
<1> QED BY <1>1, AlwaysFlight, PTL

(* The client makes no connection beyond the first but at the cost of a    *)
(* fault, so that the streams of the model are as many as it needs, and    *)
(* the one it uses is always the last.                                     *)
THEOREM ConnectionsSuffice ==
    Spec => [](link <= faults + 1 /\ (handle[H] = "up" => link \in Connection))
<1>1. FlightInv => link <= faults + 1 /\ (handle[H] = "up" => link \in Connection)
  BY LastConnection DEF FlightInv, FlightBase, EndsInv, LinkInv
<1> QED BY <1>1, AlwaysFlight, PTL

(***************************************************************************)
(* The composition and its parts                                           *)
(***************************************************************************)

(* Whatever the two sides and what is between them do, the client does     *)
(* what Client says one does: what is proved of Client holds of this one.  *)
THEOREM ClientIsClient == Spec => C!Spec
<1>1. Init => C!Init
  BY DEF Init
<1>2. [Next]_vars => [C!Next]_(C!vars)
  <2> SUFFICES ASSUME [Next]_vars PROVE C!Next \/ UNCHANGED clientVars
    BY DEF clientVars, C!vars, C!connVars, C!retryVars, C!callVars
  <2>1. CASE Connect
    BY <2>1 DEF Connect, C!Next
  <2>2. CASE FailToConnect \/ LoseServer
    BY <2>2 DEF FailToConnect, LoseServer, C!Next
  <2>3. CASE Redial
    BY <2>3 DEF Redial, C!Next
  <2>4. CASE TakeHello
    BY <2>4 DEF TakeHello, C!Next
  <2>5. CASE MainCalls
    BY <2>5 DEF MainCalls, Invoke, C!Next
  <2>6. ASSUME NEW k \in Call, TakeAnswer(k) PROVE C!Next
    BY <2>6 DEF TakeAnswer, Call, C!Next
  <2>7. ASSUME NEW n \in Callback, TakeCall(n) PROVE C!Next
    BY <2>7 DEF TakeCall, Invoke, C!Next
  <2>8. CASE StopClient
    BY <2>8 DEF StopClient, C!Next
  <2>9. CASE ServerNext
    BY <2>9, OneSideMoves
  <2>10. CASE UNCHANGED vars
    BY <2>10 DEF vars
  <2> QED BY <2>1, <2>2, <2>3, <2>4, <2>5, <2>6, <2>7, <2>8, <2>9, <2>10 DEF Next, ClientNext
<1> QED BY <1>1, <1>2, PTL DEF Spec, C!Spec

(* The server does what Server says, but that it may be killed and started *)
(* again.                                                                  *)
THEOREM ServerIsServer ==
    Spec => S!Init /\ [][S!Next \/ CrashServer \/ StartServer]_(S!vars)
<1>1. Init => S!Init
  BY DEF Init
<1>2. [Next]_vars => [S!Next \/ CrashServer \/ StartServer]_(S!vars)
  <2> SUFFICES ASSUME [Next]_vars
               PROVE  S!Next \/ CrashServer \/ StartServer \/ UNCHANGED serverVars
    BY DEF serverVars, S!vars, S!connVars, S!flagVars, S!methodVars, S!callVars
  <2>1. CASE Close \/ Read \/ StopServer
    BY <2>1 DEF Close, Read, StopServer, S!Next
  <2>2. ASSUME NEW c \in Connection, Accept(c) \/ LoseClient(c) PROVE S!Next
    BY <2>2 DEF Accept, LoseClient, S!Next
  <2>3. ASSUME NEW c \in Connection, Greet(c) PROVE S!Next
    BY <2>3 DEF Greet, S!Next
  <2>4. ASSUME NEW c \in Connection, NEW k \in Call, CallBack(c, k) PROVE S!Next
    BY <2>4 DEF CallBack, S!Next
  <2>5. ASSUME NEW c \in Connection, NEW k \in Call, Execute(c, k) PROVE S!Next
    BY <2>5 DEF Execute, Call, C!Call, S!Next
  <2>6. ASSUME NEW c \in Connection, NEW n \in Callback, GoodBye(c, n) PROVE S!Next
    BY <2>6 DEF GoodBye, Callback, S!Next
  <2>7. CASE ClientNext
    BY <2>7, OneSideMoves
  <2>8. CASE RemoveFile \/ UNCHANGED vars
    BY <2>8 DEF RemoveFile, vars
  <2> QED BY <2>1, <2>2, <2>3, <2>4, <2>5, <2>6, <2>7, <2>8 DEF Next, ServerNext
<1> QED BY <1>1, <1>2, PTL DEF Spec
=============================================================================
