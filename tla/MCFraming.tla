----------------------------- MODULE MCFraming ------------------------------
(* Framing on a hello of 9 bytes and messages of 4, 5 and 6. *)
EXTENDS Framing, FiniteSets

MCEnd == [i \in 0 .. 4 |-> <<0, 9, 13, 18, 24>>[i + 1]]
=============================================================================
