----------------------------- MODULE CallLedger -----------------------------
(***************************************************************************)
(* What a generic_client promises about the calls made on it, with every   *)
(* connection, timer and failure hidden (rpc/src/client.cpp, invoke(),     *)
(* on_incoming_handshake() and on_message()).                              *)
(*                                                                         *)
(* Calls are numbered as they are made.  A call is queued, or written at   *)
(* once, or refused; what is queued is written all together and in order;  *)
(* what was written is answered at most once.                              *)
(***************************************************************************)
EXTENDS Naturals, Sequences, Functions

CONSTANT MaxCalls          \* bound on the calls made

VARIABLES
    made,          \* number of calls made
    queue,         \* calls not written yet
    wire,          \* calls written, in order
    answers,       \* number of answers each call got
    refused        \* calls that were not accepted

ledger == <<made, queue, wire, answers, refused>>

Calls == 0 .. MaxCalls - 1

Init ==
    /\ made = 0
    /\ queue = <<>> /\ wire = <<>>
    /\ answers = [k \in Calls |-> 0]
    /\ refused = {}

(* A call overtakes no call that waits: it is written at once only when    *)
(* the queue is empty.                                                     *)
Make ==
    /\ made \in Calls
    /\ made' = made + 1
    /\ \/ queue' = Append(queue, made) /\ UNCHANGED <<wire, refused>>
       \/ queue = <<>> /\ wire' = Append(wire, made) /\ UNCHANGED <<queue, refused>>
       \/ refused' = refused \cup {made} /\ UNCHANGED <<queue, wire>>
    /\ UNCHANGED answers

Flush ==
    /\ wire' = wire \o queue
    /\ queue' = <<>>
    /\ UNCHANGED <<made, answers, refused>>

Answer(k) ==
    /\ k \in Range(wire) /\ answers[k] = 0
    /\ answers' = [answers EXCEPT ![k] = 1]
    /\ UNCHANGED <<made, queue, wire, refused>>

Next == Make \/ Flush \/ \E k \in Calls : Answer(k)

Spec == Init /\ [][Next]_ledger
=============================================================================
