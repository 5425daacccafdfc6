---------------------------- MODULE MCListeners -----------------------------
(* Listeners with three runs of a program, two paths and a port. *)
EXTENDS Listeners, TLC

(* Processes are interchangeable, and so are paths. *)
Symmetry == Permutations(Process) \cup Permutations(Path)
=============================================================================
