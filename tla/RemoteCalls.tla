---------------------------- MODULE RemoteCalls -----------------------------
(***************************************************************************)
(* What a caller and a callee promise about calls, with connections, their *)
(* failures and all messages hidden: a call is executed at most once, and  *)
(* answered at most once and only after that.  Nothing promises that it is *)
(* executed at all.                                                        *)
(***************************************************************************)
EXTENDS Naturals

CONSTANT Id        \* calls

VARIABLES
    made,          \* calls that were made
    executions,    \* how often the callee executed each of them
    answers        \* how often the promise of each was settled

vars == <<made, executions, answers>>

Init ==
    /\ made = {}
    /\ executions = [k \in Id |-> 0]
    /\ answers = [k \in Id |-> 0]

Make(k) ==
    /\ k \notin made
    /\ made' = made \cup {k}
    /\ UNCHANGED <<executions, answers>>

Execute(k) ==
    /\ k \in made /\ executions[k] = 0
    /\ executions' = [executions EXCEPT ![k] = 1]
    /\ UNCHANGED <<made, answers>>

Answer(k) ==
    /\ executions[k] = 1 /\ answers[k] = 0
    /\ answers' = [answers EXCEPT ![k] = 1]
    /\ UNCHANGED <<made, executions>>

Next == \E k \in Id : Make(k) \/ Execute(k) \/ Answer(k)

Spec == Init /\ [][Next]_vars
=============================================================================
