----------------------------- MODULE Handshake ------------------------------
(***************************************************************************)
(* The exchange of hellos between a generic_client and a server_client of  *)
(* a generic_server, and the maps from method names to method ids that it  *)
(* leaves on either side (rpc/src/client.cpp, rpc/src/server.cpp,          *)
(* rpc/include/rpc/common.hpp).                                            *)
(*                                                                         *)
(* A client is the protocol it wants of the server, with the methods it    *)
(* means to call, and the protocol it offers, with the methods that may be *)
(* called on it; a server is the same the other way round.  A method is a  *)
(* name and a signature; its id is its place in the list, from 0.  A       *)
(* client outlives the connection and its map is never cleared, while the  *)
(* server may be replaced by another version between two connections.      *)
(***************************************************************************)
EXTENDS Integers, Sequences, FiniteSets, Functions

CONSTANTS
    Clients,     \* the programs that may run a client
    Servers,     \* the programs, or versions of one, that may run the server
    Name         \* names of methods

(* The protocols are classes: no two of their methods have the same name.  *)
MethodLists(lists) ==
    \A list \in lists :
        /\ Len(list) \in Nat /\ DOMAIN list = 1 .. Len(list)
        /\ \A i \in DOMAIN list :
              /\ list[i].name \in Name
              /\ list[i] = [name |-> list[i].name, signature |-> list[i].signature]
        /\ \A i, j \in DOMAIN list : list[i].name = list[j].name => i = j

ASSUME HandshakeAssumption ==
    /\ MethodLists({c.calls : c \in Clients} \cup {c.methods : c \in Clients})
    /\ MethodLists({s.calls : s \in Servers} \cup {s.methods : s \in Servers})

VARIABLES
    client, server,
    phase,              \* of the connection
    reply,              \* the server_hello under way
    server_ids,         \* the client's server_ids_of_methods
    client_ids          \* the server_client's client_ids_of_methods

vars == <<client, server, phase, reply, server_ids, client_ids>>

NoHello == [error |-> FALSE, method_ids |-> <<>>]
Failure == [error |-> TRUE, method_ids |-> <<>>]

(***************************************************************************)
(* What the server checks                                                  *)
(***************************************************************************)
ProtocolsMatch == /\ client.wants = server.serves
                  /\ client.offers = server.requires

NamesOf(list) == {list[i].name : i \in DOMAIN list}

(* The id of a method in a list that has it. *)
IdOf(list, name) == (CHOOSE i \in DOMAIN list : list[i].name = name) - 1

(* Fault: only the name is compared. *)
SameName(method, list) == method.name \in NamesOf(list)

(* The list has a method of this name, and with this signature. *)
Supported(method, list) ==
    /\ method.name \in NamesOf(list)
    /\ list[IdOf(list, method.name) + 1].signature = method.signature

(* The server's calls, one after the other up to the first that the client *)
(* does not support, get the ids the client advertised.                    *)
MappedCalls ==
    IF ProtocolsMatch
    THEN {i \in DOMAIN server.calls :
             \A j \in 1 .. i : Supported(server.calls[j], client.methods)}
    ELSE {}

Accepted ==
    /\ ProtocolsMatch
    /\ MappedCalls = DOMAIN server.calls
    /\ \A i \in DOMAIN client.calls : Supported(client.calls[i], server.methods)

AdvertisedId(name) == IdOf(client.methods, name)

MethodIds ==
    [i \in DOMAIN client.calls |-> IdOf(server.methods, client.calls[i].name)]

(***************************************************************************)
(* Steps                                                                   *)
(***************************************************************************)
Init ==
    /\ client \in Clients /\ server \in Servers
    /\ phase = "down"
    /\ reply = NoHello
    /\ server_ids = [n \in {} |-> 0]
    /\ client_ids = [n \in {} |-> 0]

(* ConnectEvent: the client sends its hello; the server has a new          *)
(* server_client.                                                          *)
Greet ==
    /\ phase = "down"
    /\ phase' = "greeted"
    /\ client_ids' = [n \in {} |-> 0]
    /\ UNCHANGED <<client, server, reply, server_ids>>

(* server_client::on_incoming_handshake(). *)
Answer ==
    /\ phase = "greeted"
    /\ client_ids' = [n \in {server.calls[i].name : i \in MappedCalls} |->
                         AdvertisedId(n)]
    /\ IF Accepted
       THEN phase' = "accepted" /\ reply' = [error |-> FALSE, method_ids |-> MethodIds]
       ELSE phase' = "refused" /\ reply' = Failure
    /\ UNCHANGED <<client, server, server_ids>>

(* Fault: an id the client has already is not replaced. *)
LearntOnce(ids) ==
    [n \in NamesOf(client.calls) |->
        IF n \in DOMAIN server_ids THEN server_ids[n] ELSE ids[IdOf(client.calls, n) + 1]]

Learnt(ids) == [n \in NamesOf(client.calls) |-> ids[IdOf(client.calls, n) + 1]]

(* generic_client::on_incoming_handshake(). *)
Conclude ==
    /\ phase \in {"accepted", "refused"}
    /\ reply' = NoHello
    /\ IF reply.error \/ Len(reply.method_ids) # Len(client.calls)
       THEN phase' = "down" /\ UNCHANGED server_ids
       ELSE phase' = "up" /\ server_ids' = Learnt(reply.method_ids)
    /\ UNCHANGED <<client, server, client_ids>>

(* The connection is lost, and what was under way with it. *)
Lose ==
    /\ phase # "down"
    /\ phase' = "down"
    /\ reply' = NoHello
    /\ UNCHANGED <<client, server, server_ids, client_ids>>

(* Another version of the server takes over. *)
Upgrade(s) ==
    /\ phase = "down"
    /\ server' = s
    /\ client_ids' = [n \in {} |-> 0]
    /\ UNCHANGED <<client, phase, reply, server_ids>>

Next == Greet \/ Answer \/ Conclude \/ Lose \/ \E s \in Servers : Upgrade(s)

Spec == Init /\ [][Next]_vars

(***************************************************************************)
(* Properties                                                              *)
(***************************************************************************)

(* Every variable has its type. *)
TypeOK ==
    /\ client \in Clients /\ server \in Servers
    /\ phase \in {"down", "greeted", "accepted", "refused", "up"}
    /\ reply.error \in BOOLEAN /\ DOMAIN reply.method_ids \subseteq DOMAIN client.calls
    /\ DOMAIN server_ids \subseteq Name /\ DOMAIN client_ids \subseteq Name
    /\ \A n \in DOMAIN client_ids : client_ids[n] + 1 \in DOMAIN client.methods

(* Both sides offer what the other one wants: the same protocols, every    *)
(* method one side calls among those of the other, in any order.           *)
Compatible ==
    /\ client.wants = server.serves /\ client.offers = server.requires
    /\ Range(client.calls) \subseteq Range(server.methods)
    /\ Range(server.calls) \subseteq Range(client.methods)

(* The server accepts a client exactly if the two are compatible, and the  *)
(* client follows the server: neither takes a connection for established   *)
(* with a peer it cannot work with, nor refuses one that it can.           *)
EstablishedIffCompatible ==
    /\ phase \in {"accepted", "up"} => Compatible
    /\ phase = "refused" => ~Compatible

(* With the connection established, the id under which the client calls a  *)
(* method is the id of that very method, name and signature, on the server *)
(* it is connected to now, whatever servers it was connected to before.    *)
CallsReachTheirMethods ==
    phase = "up" =>
        \A i \in DOMAIN client.calls :
            LET n == client.calls[i].name
            IN  /\ n \in DOMAIN server_ids
                /\ server_ids[n] + 1 \in DOMAIN server.methods
                /\ server.methods[server_ids[n] + 1] = client.calls[i]

(* The same for the calls of the server, from the moment it accepts; and   *)
(* the ids that a refused handshake leaves behind are right as well.       *)
PeerCallsReachTheirMethods ==
    /\ phase \in {"accepted", "up"} => DOMAIN client_ids = NamesOf(server.calls)
    /\ \A i \in DOMAIN server.calls :
          LET n == server.calls[i].name
          IN  n \in DOMAIN client_ids => client.methods[client_ids[n] + 1] = server.calls[i]
=============================================================================
