---------------------------- MODULE MCHandshake -----------------------------
(* Handshake with two names and two signatures: every pair of lists of up  *)
(* to two methods, one of what a side calls, the other of what its peer    *)
(* implements, with up to one method the other way round.                  *)
EXTENDS Handshake

CONSTANTS Signature, Protocol, ThisProtocol

Lists(k) ==
    {list \in UNION {[1 .. n -> [name : Name, signature : Signature]] : n \in 0 .. k} :
        \A i, j \in DOMAIN list : list[i].name = list[j].name => i = j}

(* The protocols of the clients are fixed: only whether they match counts. *)
MCClients ==
    [wants : {ThisProtocol}, offers : {ThisProtocol}, calls : Lists(2), methods : Lists(1)]
    \cup [wants : {ThisProtocol}, offers : {ThisProtocol}, calls : {<<>>}, methods : Lists(2)]

MCServers ==
    [serves : {ThisProtocol}, requires : Protocol, calls : Lists(1), methods : Lists(2)]
    \cup [serves : Protocol, requires : {ThisProtocol}, calls : Lists(2), methods : {<<>>}]
=============================================================================
