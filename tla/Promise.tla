------------------------------ MODULE Promise -------------------------------
(***************************************************************************)
(* async::_promise_impl and async::promise (common/include/common/         *)
(* async.hpp): promises, the continuations and exception handlers that     *)
(* operator| attaches to them, and the order in which they are settled.    *)
(*                                                                         *)
(* p | f is a new promise, the result of f: what f returns settles it.     *)
(* Promises are numbered as they are made, so that a result comes after    *)
(* its source.  Values are not told apart, so that one that was moved away *)
(* looks like any other.  A continuation runs inside the set() or          *)
(* operator| that caused it and may make, settle and continue promises     *)
(* itself: stack holds the continuations that have not returned.           *)
(* An exception that one of them throws leaves them all, and their results *)
(* are never settled.                                                      *)
(*                                                                         *)
(* A continuation does not replace another one, which may be waiting for   *)
(* it to return: operator| would destroy it while it runs.  Handlers       *)
(* belong to promises of void, for others handle() does not compile.       *)
(***************************************************************************)
EXTENDS Naturals, Sequences, Functions

CONSTANT MaxPromises    \* bound on the promises made

ASSUME PromiseAssumption == MaxPromises \in Nat

VARIABLES
    made,           \* number of promises made
    source,         \* the promise each one is the result of, 0 if it is none's
    callback,       \* the result of the continuation attached last, 0 if none
    handlers,       \* results of a catch_().else_() and not of a function
    kept,           \* what a promise keeps for a continuation
    settling,       \* the promise whose set() or throw_() runs, 0 if none's
    stack,          \* results of the continuations that run, the innermost first
    outcome,        \* history: what each promise was settled with
    runs,           \* history: how often the continuation of each result ran
    threw,          \* history: results whose continuation threw
    dead            \* has a handler used a null reference?

chainVars == <<made, source, callback, handlers>>
historyVars == <<outcome, runs, threw>>
vars == <<chainVars, kept, settling, stack, historyVars, dead>>

Promises == 1 .. MaxPromises

(* An exception derives from std::exception, or it is foreign. *)
Exception == {"exception", "foreign"}
Outcome == {"value"} \cup Exception

Idle == settling = 0 /\ ~dead

(***************************************************************************)
(* Parts of the operations                                                 *)
(***************************************************************************)

(* A function is not called with an exception, which its result inherits. *)
PassesOn(r, w) == w # "value" /\ r \notin handlers

(* What escapes from a continuation escapes from all that wait for it. *)
Unwind(r) ==
    /\ threw' = threw \cup {r} \cup Range(stack)
    /\ stack' = <<>>

(* set() or throw_() on p begins. *)
Settle(p, w) ==
    /\ settling' = p
    /\ outcome' = [outcome EXCEPT ![p] = w]

Init ==
    /\ made = 0
    /\ source = [p \in Promises |-> 0]
    /\ callback = [p \in Promises |-> 0]
    /\ handlers = {}
    /\ kept = [p \in Promises |-> "nothing"]
    /\ settling = 0 /\ stack = <<>>
    /\ outcome = [p \in Promises |-> "nothing"]
    /\ runs = [p \in Promises |-> 0]
    /\ threw = {} /\ dead = FALSE

(***************************************************************************)
(* Operations, by the loop or by the continuation that runs                *)
(***************************************************************************)

(* promise(). *)
Make ==
    /\ Idle /\ made < MaxPromises
    /\ made' = made + 1
    /\ UNCHANGED <<source, callback, handlers, kept, settling, stack, historyVars, dead>>

(* to_promise(value). *)
MakeResolved ==
    /\ Idle /\ made < MaxPromises
    /\ made' = made + 1
    /\ kept' = [kept EXCEPT ![made + 1] = "value"]
    /\ outcome' = [outcome EXCEPT ![made + 1] = "value"]
    /\ UNCHANGED <<source, callback, handlers, settling, stack, runs, threw, dead>>

(* Fault: the owner keeps the promise it has settled and settles it again. *)
MaySettleAgain(p) == source[p] = 0

(* The owner of a promise takes it out of its map to settle it, once, and  *)
(* is the owner of no result: those are settled by their continuations.    *)
MaySettle(p) == source[p] = 0 /\ outcome[p] = "nothing"

(* set() or throw_().  Only _promise_impl has throw_(), promise has not: an *)
(* exception that does not come from a source is more than the code allows. *)
Begin(p, w) ==
    /\ Idle /\ p <= made /\ MaySettle(p)
    /\ Settle(p, w)
    /\ UNCHANGED <<chainVars, kept, stack, runs, threw, dead>>

(* Fault: operator| does not look whether the value is there already. *)
WaitAlways(p) == FALSE

RunsAtOnce(p) == kept[p] # "nothing"

(* p | f: the new continuation replaces what was attached before; if p     *)
(* keeps a value or an exception it is called at once.                     *)
Attach(p, handles) ==
    LET result == made + 1 IN
    /\ Idle /\ p <= made /\ made < MaxPromises
    /\ callback[p] = 0 \/ stack = <<>>
    /\ made' = result
    /\ source' = [source EXCEPT ![result] = p]
    /\ callback' = [callback EXCEPT ![p] = result]
    /\ handlers' = IF handles THEN handlers \cup {result} ELSE handlers
    /\ settling' = IF RunsAtOnce(p) THEN p ELSE 0
    /\ UNCHANGED <<kept, stack, historyVars, dead>>

(***************************************************************************)
(* What set(), throw_() and operator| do with the callback                 *)
(***************************************************************************)

(* There is none: the value or the exception is kept. *)
Keep ==
    LET p == settling IN
    /\ p # 0 /\ ~dead /\ callback[p] = 0
    /\ kept' = [kept EXCEPT ![p] = outcome[p]]
    /\ settling' = 0
    /\ UNCHANGED <<chainVars, stack, historyVars, dead>>

(* The callback of a function hands an exception to its result. *)
PassOn ==
    LET r == callback[settling] IN
    /\ settling # 0 /\ ~dead /\ r # 0
    /\ PassesOn(r, outcome[settling])
    /\ Settle(r, outcome[settling])
    /\ UNCHANGED <<chainVars, kept, stack, runs, threw, dead>>

(* The function, else_ or the handler runs.  dynamic_cast reports another  *)
(* type by a null pointer, so the first handler runs on any exception; one *)
(* that looks at an exception of another type uses a null reference.       *)
Run ==
    LET r == callback[settling]
        w == outcome[settling]
    IN  /\ settling # 0 /\ ~dead /\ r # 0
        /\ ~PassesOn(r, w) /\ w # "foreign"
        /\ runs' = [runs EXCEPT ![r] = @ + 1]
        /\ stack' = <<r>> \o stack
        /\ settling' = 0
        /\ dead' \in {FALSE, w # "value"}
        /\ UNCHANGED <<chainVars, kept, outcome, threw>>

(* handle() catches only what derives from std::exception. *)
EscapeHandler ==
    LET r == callback[settling] IN
    /\ settling # 0 /\ ~dead /\ r # 0
    /\ ~PassesOn(r, "foreign") /\ outcome[settling] = "foreign"
    /\ Unwind(r)
    /\ settling' = 0
    /\ UNCHANGED <<chainVars, kept, outcome, runs, dead>>

(* The continuation that runs returns and its result is set, or it throws. *)
Return ==
    /\ Idle /\ stack # <<>>
    /\ stack' = Tail(stack)
    /\ Settle(Head(stack), "value")
    /\ UNCHANGED <<chainVars, kept, runs, threw, dead>>

Escape ==
    /\ Idle /\ stack # <<>>
    /\ Unwind(Head(stack))
    /\ UNCHANGED <<chainVars, kept, settling, outcome, runs, dead>>

Next ==
    \/ Make \/ MakeResolved
    \/ \E p \in Promises : \/ \E w \in Outcome : Begin(p, w)
                           \/ \E handles \in BOOLEAN : Attach(p, handles)
    \/ Keep \/ PassOn \/ Run \/ EscapeHandler
    \/ Return \/ Escape

Spec == Init /\ [][Next]_vars

(***************************************************************************)
(* Properties                                                              *)
(***************************************************************************)

(* Every variable has its type; a result is made after its source, and the *)
(* continuation of a promise has that promise for its source.              *)
TypeOK ==
    /\ made \in 0 .. MaxPromises
    /\ source \in [Promises -> 0 .. MaxPromises]
    /\ callback \in [Promises -> 0 .. MaxPromises]
    /\ \A p \in Promises : /\ source[p] # 0 => source[p] < p /\ p <= made
                           /\ callback[p] # 0 => source[callback[p]] = p
    /\ handlers \subseteq {p \in 1 .. made : source[p] # 0}
    /\ kept \in [Promises -> {"nothing"} \cup Outcome]
    /\ settling \in 0 .. made
    /\ stack \in Seq(1 .. made)
    /\ outcome \in [Promises -> {"nothing"} \cup Outcome]
    /\ runs \in [Promises -> 0 .. 1]
    /\ threw \subseteq 1 .. made
    /\ dead \in BOOLEAN

(* Whatever continuations do and whatever is attached to what, none runs   *)
(* twice, none runs before its source was settled, and a function never    *)
(* runs on an exception.                                                   *)
AtMostOnce ==
    \A p \in Promises :
        /\ runs[p] <= 1
        /\ runs[p] > 0 => IF p \in handlers THEN outcome[source[p]] \in {"value", "exception"}
                                            ELSE outcome[source[p]] = "value"

Only(p) == \A q \in 1 .. made : source[q] = source[p] => q = p

Called(p) == outcome[source[p]] # "nothing" /\ settling # source[p]

(* The only continuation of a promise runs once that promise was settled   *)
(* with something it takes, whether it was attached before or after; its   *)
(* result is settled when it has returned, or inherits the exception, and  *)
(* is not settled otherwise.                                               *)
ExactlyOnce ==
    \A p \in 1 .. made :
        LET w == outcome[source[p]] IN
        source[p] # 0 /\ Only(p) =>
            /\ runs[p] = 1 <=> Called(p) /\ ~PassesOn(p, w) /\ w # "foreign"
            /\ outcome[p] # "nothing" <=> Called(p) /\ p \notin threw /\ p \notin Range(stack)
            /\ Called(p) /\ PassesOn(p, w) => outcome[p] = w

(* What a promise without a continuation was settled with waits for one. *)
NothingLost ==
    \A p \in 1 .. made : callback[p] = 0 /\ settling # p => kept[p] = outcome[p]
=============================================================================
