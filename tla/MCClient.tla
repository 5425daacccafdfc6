------------------------------ MODULE MCClient ------------------------------
(* Client on a few handles, timers and calls. *)
EXTENDS Client, TLC

(* Handles and timers are interchangeable. *)
Symmetry == Permutations(Conn) \cup Permutations(Timer)
=============================================================================
