-------------------------- MODULE HandshakeProofs ---------------------------
(***************************************************************************)
(* The verdict of the handshake and the ids it leaves, for any lists of    *)
(* methods of any clients and servers.                                     *)
(***************************************************************************)
EXTENDS Handshake, TLAPS

(* What a list of methods is, taken out of the assumption. *)
Listed(list) == MethodLists({list})

LEMMA ProgramLists ==
    /\ \A c \in Clients : Listed(c.calls) /\ Listed(c.methods)
    /\ \A s \in Servers : Listed(s.calls) /\ Listed(s.methods)
BY HandshakeAssumption DEF MethodLists, Listed

(* The id of a method is its place in the list, since names are unique.    *)
LEMMA IdIsPlace ==
    ASSUME NEW list, Listed(list), NEW i \in DOMAIN list
    PROVE  IdOf(list, list[i].name) = i - 1 /\ IdOf(list, list[i].name) + 1 = i
<1>1. DOMAIN list \subseteq Int
  BY DEF Listed, MethodLists
<1>2. \A j \in DOMAIN list : list[j].name = list[i].name => j = i
  BY DEF Listed, MethodLists
<1>3. (CHOOSE j \in DOMAIN list : list[j].name = list[i].name) = i
  <2> DEFINE place == CHOOSE j \in DOMAIN list : list[j].name = list[i].name
  <2>1. \E j \in DOMAIN list : list[j].name = list[i].name
    OBVIOUS
  <2>2. place \in DOMAIN list /\ list[place].name = list[i].name
    BY <2>1, Zenon
  <2> QED BY <2>2, <1>2
<1>4. IdOf(list, list[i].name) = i - 1
  BY <1>3, Zenon DEF IdOf
<1> QED BY <1>1, <1>4

(* The name and the signature of a method are all there is to it.          *)
LEMMA SupportedIsMember ==
    ASSUME NEW list, Listed(list), NEW other, Listed(other), NEW k \in DOMAIN other
    PROVE  Supported(other[k], list) <=> other[k] \in Range(list)
<1> DEFINE method == other[k]
<1>1. ASSUME Supported(method, list) PROVE method \in Range(list)
  <2>1. PICK i \in DOMAIN list : list[i].name = method.name
    BY <1>1 DEF Supported, NamesOf
  <2>2. list[i].signature = method.signature
    BY <1>1, <2>1, IdIsPlace DEF Supported
  <2>3. list[i] = method
    BY <2>1, <2>2 DEF Listed, MethodLists
  <2> QED BY <2>3 DEF Range
<1>2. ASSUME method \in Range(list) PROVE Supported(method, list)
  <2>1. PICK i \in DOMAIN list : list[i] = method
    BY <1>2 DEF Range
  <2>2. IdOf(list, method.name) + 1 = i
    BY <2>1, IdIsPlace
  <2> QED BY <2>1, <2>2 DEF Supported, NamesOf
<1> QED BY <1>1, <1>2

LEMMA AllSupported ==
    ASSUME NEW list, Listed(list), NEW other, Listed(other)
    PROVE  (\A i \in DOMAIN other : Supported(other[i], list)) <=> Range(other) \subseteq Range(list)
<1>1. Range(other) \subseteq Range(list) <=> \A i \in DOMAIN other : other[i] \in Range(list)
  BY DEF Range
<1>2. \A i \in DOMAIN other : Supported(other[i], list) <=> other[i] \in Range(list)
  BY SupportedIsMember
<1> QED BY <1>1, <1>2

(* Every one of the server's calls is mapped exactly if the client has all *)
(* of them.                                                                *)
LEMMA AllMapped ==
    ASSUME client \in Clients, server \in Servers, ProtocolsMatch
    PROVE  MappedCalls = DOMAIN server.calls
              <=> \A i \in DOMAIN server.calls : Supported(server.calls[i], client.methods)
<1>1. DOMAIN server.calls = 1 .. Len(server.calls) /\ Len(server.calls) \in Nat
  BY ProgramLists DEF Listed, MethodLists
<1>2. \A i \in DOMAIN server.calls : i \in 1 .. i /\ 1 .. i \subseteq DOMAIN server.calls
  BY <1>1
<1>3. MappedCalls = {i \in DOMAIN server.calls :
                        \A j \in 1 .. i : Supported(server.calls[j], client.methods)}
  BY DEF MappedCalls
<1> QED BY <1>2, <1>3

(* The heart of the matter: the checks of the server, in the order it does *)
(* them, decide compatibility.                                             *)
LEMMA VerdictIsRight ==
    ASSUME client \in Clients, server \in Servers
    PROVE  Accepted <=> Compatible
<1>1. /\ Listed(client.calls) /\ Listed(client.methods)
      /\ Listed(server.calls) /\ Listed(server.methods)
  BY ProgramLists
<1>2. (\A i \in DOMAIN server.calls : Supported(server.calls[i], client.methods))
         <=> Range(server.calls) \subseteq Range(client.methods)
  BY <1>1, AllSupported
<1>3. (\A i \in DOMAIN client.calls : Supported(client.calls[i], server.methods))
         <=> Range(client.calls) \subseteq Range(server.methods)
  BY <1>1, AllSupported
<1>4. ProtocolsMatch <=> client.wants = server.serves /\ client.offers = server.requires
  BY DEF ProtocolsMatch
<1> QED BY <1>2, <1>3, <1>4, AllMapped DEF Accepted, Compatible

(***************************************************************************)
(* The invariant                                                           *)
(***************************************************************************)

(* The verdict holds as long as the connection does, because a server is   *)
(* replaced only between connections; the ids under way, and those that    *)
(* were learnt on this connection, are the server's own.                   *)
IInv ==
    /\ client \in Clients /\ server \in Servers
    /\ phase \in {"down", "greeted", "accepted", "refused", "up"}
    /\ phase \in {"accepted", "up"} => Accepted
    /\ phase = "refused" => ~Accepted /\ reply.error
    /\ phase = "accepted" => reply = [error |-> FALSE, method_ids |-> MethodIds]
    /\ phase = "up" => server_ids = Learnt(MethodIds)
    /\ \/ client_ids = [n \in {} |-> 0]
       \/ client_ids = [n \in {server.calls[i].name : i \in MappedCalls} |-> AdvertisedId(n)]
    /\ phase \in {"accepted", "up"} =>
          client_ids = [n \in {server.calls[i].name : i \in MappedCalls} |-> AdvertisedId(n)]

LEMMA InitIInv == Init => IInv
BY DEF Init, IInv

LEMMA NextIInv == IInv /\ [Next]_vars => IInv'
<1> SUFFICES ASSUME IInv, [Next]_vars PROVE IInv'
  OBVIOUS
<1> USE DEF IInv
<1>1. ASSUME UNCHANGED <<client, server>>
      PROVE  /\ Accepted' = Accepted /\ MappedCalls' = MappedCalls
             /\ MethodIds' = MethodIds
             /\ \A n : AdvertisedId(n)' = AdvertisedId(n)
  BY <1>1 DEF Accepted, MappedCalls, ProtocolsMatch, MethodIds, AdvertisedId
<1>2. CASE Greet
  BY <1>2, <1>1 DEF Greet
<1>3. CASE Answer
  BY <1>3, <1>1 DEF Answer, Failure
<1>4. CASE Conclude
  <2>1. phase' = "up" => phase = "accepted" /\ server_ids' = Learnt(MethodIds)
    BY <1>4 DEF Conclude
  <2>2. phase' \in {"down", "up"} /\ UNCHANGED <<client, server, client_ids>>
    BY <1>4 DEF Conclude
  <2>3. Learnt(MethodIds)' = Learnt(MethodIds)
    BY <2>2, <1>1 DEF Learnt
  <2> QED BY <2>1, <2>2, <2>3, <1>1
<1>5. CASE Lose
  BY <1>5, <1>1 DEF Lose
<1>6. ASSUME NEW s \in Servers, Upgrade(s) PROVE IInv'
  BY <1>6 DEF Upgrade
<1>7. CASE UNCHANGED vars
  <2>1. Learnt(MethodIds)' = Learnt(MethodIds)
    BY <1>7, <1>1 DEF Learnt, vars
  <2> QED BY <1>7, <1>1, <2>1 DEF vars
<1> QED BY <1>2, <1>3, <1>4, <1>5, <1>6, <1>7 DEF Next

LEMMA HandshakeInvariant == Spec => []IInv
BY InitIInv, NextIInv, PTL DEF Spec

(* The ids that a server's map holds designate methods of the client. *)
LEMMA MappedIds ==
    ASSUME IInv, NEW n \in DOMAIN client_ids
    PROVE  n \in Name /\ client_ids[n] + 1 \in DOMAIN client.methods
<1>1. Listed(server.calls) /\ Listed(client.methods)
  BY ProgramLists DEF IInv
<1>2. PICK i \in MappedCalls : n = server.calls[i].name /\ client_ids[n] = AdvertisedId(n)
  BY DEF IInv
<1>3. i \in DOMAIN server.calls /\ Supported(server.calls[i], client.methods)
  <2>1. i \in DOMAIN server.calls /\ \A j \in 1 .. i : Supported(server.calls[j], client.methods)
    BY <1>2 DEF MappedCalls
  <2>2. i \in 1 .. i
    BY <1>1, <2>1 DEF Listed, MethodLists
  <2> QED BY <2>1, <2>2
<1>4. PICK k \in DOMAIN client.methods : client.methods[k].name = n
  BY <1>2, <1>3 DEF Supported, NamesOf
<1>5. client_ids[n] + 1 = k
  BY <1>1, <1>2, <1>4, IdIsPlace DEF AdvertisedId
<1>6. n \in Name
  BY <1>1, <1>2, <1>3 DEF Listed, MethodLists
<1> QED BY <1>5, <1>6

(* What is under way and what the client learnt fits the client's calls. *)
ReplyType ==
    /\ reply.error \in BOOLEAN /\ DOMAIN reply.method_ids \subseteq DOMAIN client.calls
    /\ DOMAIN server_ids \subseteq Name

LEMMA NextReplyType == IInv /\ ReplyType /\ [Next]_vars => ReplyType'
<1> SUFFICES ASSUME IInv, ReplyType, [Next]_vars PROVE ReplyType'
  OBVIOUS
<1> USE DEF ReplyType
<1>1. CASE Greet
  BY <1>1 DEF Greet
<1>2. CASE Answer
  <2>1. PICK e \in BOOLEAN, ids \in {MethodIds, <<>>} : reply' = [error |-> e, method_ids |-> ids]
    BY <1>2 DEF Answer, Failure
  <2>2. reply'.error = e
    BY <2>1
  <2>3. reply'.error \in BOOLEAN
    BY <2>2, Zenon
  <2>4. reply'.method_ids \in {MethodIds, <<>>}
    BY <2>1
  <2>5. DOMAIN MethodIds = DOMAIN client.calls
    BY DEF MethodIds
  <2> QED BY <1>2, <2>3, <2>4, <2>5 DEF Answer
<1>3. CASE Conclude
  <2>1. NamesOf(client.calls) \subseteq Name
    <3> SUFFICES ASSUME NEW i \in DOMAIN client.calls PROVE client.calls[i].name \in Name
      BY DEF NamesOf
    <3>1. Listed(client.calls)
      BY ProgramLists DEF IInv
    <3> QED BY <3>1 DEF Listed, MethodLists
  <2>2. DOMAIN server_ids' \subseteq Name
    BY <1>3, <2>1 DEF Conclude, Learnt
  <2> QED BY <1>3, <2>2 DEF Conclude, NoHello
<1>4. CASE Lose
  BY <1>4 DEF Lose, NoHello
<1>5. CASE \E s \in Servers : Upgrade(s)
  BY <1>5 DEF Upgrade
<1>6. CASE UNCHANGED vars
  BY <1>6 DEF vars
<1> QED BY <1>1, <1>2, <1>3, <1>4, <1>5, <1>6 DEF Next

(* The maps lead from names to places in the lists they are about. *)
THEOREM HandshakeTypes == Spec => []TypeOK
<1>1. Init => ReplyType
  BY DEF Init, ReplyType, NoHello
<1>2. IInv /\ ReplyType => TypeOK
  BY MappedIds DEF IInv, ReplyType, TypeOK
<1> QED BY <1>1, <1>2, InitIInv, NextIInv, NextReplyType, PTL DEF Spec

(* A connection is established exactly if each side offers what the other  *)
(* one wants.                                                              *)
THEOREM VerdictIsCompatibility == Spec => []EstablishedIffCompatible
<1>1. IInv => EstablishedIffCompatible
  BY VerdictIsRight DEF IInv, EstablishedIffCompatible
<1> QED BY <1>1, HandshakeInvariant, PTL

(* An established client calls every method by the id that designates it   *)
(* on the server it is connected to.                                       *)
THEOREM ClientCallsArrive == Spec => []CallsReachTheirMethods
<1>1. ASSUME IInv, phase = "up", NEW i \in DOMAIN client.calls
      PROVE  LET n == client.calls[i].name
             IN  /\ n \in DOMAIN server_ids
                 /\ server_ids[n] + 1 \in DOMAIN server.methods
                 /\ server.methods[server_ids[n] + 1] = client.calls[i]
  <2> DEFINE n == client.calls[i].name
  <2>1. Listed(client.calls) /\ Listed(server.methods)
    BY <1>1, ProgramLists DEF IInv
  <2>2. client.calls[i] \in Range(server.methods)
    BY <1>1, VerdictIsRight DEF IInv, Compatible, Range
  <2>3. PICK j \in DOMAIN server.methods : server.methods[j] = client.calls[i]
    BY <2>2 DEF Range
  <2>4. n \in NamesOf(client.calls) /\ server_ids = Learnt(MethodIds)
    BY <1>1 DEF IInv, NamesOf
  <2>5. server_ids[n] = MethodIds[i]
    BY <2>1, <2>4, IdIsPlace DEF Learnt
  <2>6. MethodIds[i] = IdOf(server.methods, n)
    BY DEF MethodIds
  <2>7. server_ids[n] + 1 = j
    BY <2>1, <2>3, <2>5, <2>6, IdIsPlace
  <2> QED BY <2>3, <2>4, <2>7 DEF Learnt
<1>2. IInv => CallsReachTheirMethods
  BY <1>1 DEF CallsReachTheirMethods
<1> QED BY <1>2, HandshakeInvariant, PTL

(* The same the other way round, and the ids a refused handshake leaves    *)
(* behind are right as well.                                               *)
THEOREM ServerCallsArrive == Spec => []PeerCallsReachTheirMethods
<1>1. ASSUME IInv, phase \in {"accepted", "up"} PROVE DOMAIN client_ids = NamesOf(server.calls)
  <2>1. MappedCalls = DOMAIN server.calls
    BY <1>1 DEF IInv, Accepted
  <2> QED BY <1>1, <2>1 DEF IInv, NamesOf
<1>2. ASSUME IInv, NEW i \in DOMAIN server.calls, server.calls[i].name \in DOMAIN client_ids
      PROVE  client.methods[client_ids[server.calls[i].name] + 1] = server.calls[i]
  <2> DEFINE n == server.calls[i].name
  <2>1. Listed(server.calls) /\ Listed(client.methods)
    BY <1>2, ProgramLists DEF IInv
  <2>2. /\ client_ids = [m \in {server.calls[j].name : j \in MappedCalls} |-> AdvertisedId(m)]
        /\ n \in {server.calls[j].name : j \in MappedCalls}
    BY <1>2 DEF IInv
  <2>3. PICK j \in MappedCalls : server.calls[j].name = n
    BY <2>2
  <2>4. j \in DOMAIN server.calls /\ \A k \in 1 .. j : Supported(server.calls[k], client.methods)
    BY <2>3 DEF MappedCalls
  <2>5. j = i /\ i \in 1 .. i
    BY <2>1, <2>3, <2>4 DEF Listed, MethodLists
  <2>6. server.calls[i] \in Range(client.methods)
    BY <2>1, <2>4, <2>5, SupportedIsMember
  <2>7. PICK k \in DOMAIN client.methods : client.methods[k] = server.calls[i]
    BY <2>6 DEF Range
  <2>8. client_ids[n] + 1 = k
    BY <2>1, <2>2, <2>7, IdIsPlace DEF AdvertisedId
  <2> QED BY <2>7, <2>8
<1>3. IInv => PeerCallsReachTheirMethods
  BY <1>1, <1>2 DEF PeerCallsReachTheirMethods
<1> QED BY <1>3, HandshakeInvariant, PTL
=============================================================================
