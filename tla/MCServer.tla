------------------------------ MODULE MCServer ------------------------------
(* Server with a few connections, requests and calls. *)
EXTENDS Server, TLC

(* Connections are interchangeable, and so are requests. *)
Symmetry == Permutations(Conn) \cup Permutations(Request)
=============================================================================
