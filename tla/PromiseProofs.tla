---------------------------- MODULE PromiseProofs ---------------------------
(***************************************************************************)
(* That continuations run once and settle their results once, for any      *)
(* number of promises and any nesting of continuations.                    *)
(***************************************************************************)
EXTENDS Promise, SequenceTheorems, TLAPS

(* Nothing has happened to p yet. *)
Fresh(p) == /\ runs[p] = 0 /\ outcome[p] = "nothing"
            /\ p \notin threw /\ p \notin Range(stack)

(* What TypeOK says of how promises hang together. *)
Linked ==
    /\ made \in 0 .. MaxPromises
    /\ source \in [Promises -> 0 .. MaxPromises]
    /\ callback \in [Promises -> 0 .. MaxPromises]
    /\ \A p \in Promises : /\ source[p] # 0 => source[p] < p /\ p <= made
                           /\ callback[p] # 0 => source[callback[p]] = p
    /\ handlers \subseteq {p \in 1 .. made : source[p] # 0}

(* What is not made yet is fresh and linked to nothing. *)
Unmade ==
    \A p \in Promises : p > made => /\ Fresh(p) /\ kept[p] = "nothing"
                                   /\ source[p] = 0 /\ callback[p] = 0

(* A promise that has results has a continuation. *)
Continued == \A p \in Promises : source[p] # 0 => callback[source[p]] # 0

(* What a promise keeps is what it was settled with. *)
Remembered == \A p \in Promises : kept[p] # "nothing" => kept[p] = outcome[p]

(* Nothing happens to a result before its source is settled. *)
Ordered ==
    \A p \in Promises :
        /\ source[p] # 0 /\ ~Fresh(p) => outcome[source[p]] # "nothing"
        /\ source[p] = 0 => runs[p] = 0 /\ p \notin threw

(* Nothing has happened to the result whose continuation is to be called. *)
Pending ==
    settling # 0 => /\ outcome[settling] # "nothing"
                    /\ callback[settling] # 0 => Fresh(callback[settling])

(* The continuations that run are different, and their results open. *)
Nesting ==
    /\ IsInjective(stack)
    /\ \A p \in Range(stack) : runs[p] = 1 /\ outcome[p] = "nothing" /\ p \notin threw

IInv == /\ TypeOK /\ Unmade /\ Continued /\ Remembered /\ Ordered /\ Pending /\ Nesting
        /\ AtMostOnce /\ ExactlyOnce /\ NothingLost

(***************************************************************************)
(* The stack                                                               *)
(***************************************************************************)
LEMMA Pushed ==
    ASSUME NEW S, NEW s \in Seq(S), NEW e \in S
    PROVE  /\ <<e>> \o s \in Seq(S)
           /\ Range(<<e>> \o s) = {e} \cup Range(s)
           /\ IsInjective(s) /\ e \notin Range(s) => IsInjective(<<e>> \o s)
<1> DEFINE t == <<e>> \o s
<1>1. /\ t \in Seq(S) /\ Len(t) = Len(s) + 1 /\ t[1] = e
      /\ \A i \in 1 .. Len(s) : t[i + 1] = s[i]
  OBVIOUS
<1>2. \A i \in 1 .. Len(t) : i = 1 \/ (i - 1 \in 1 .. Len(s) /\ t[i] = s[i - 1])
  BY <1>1
<1>3. DOMAIN t = 1 .. Len(t) /\ DOMAIN s = 1 .. Len(s)
  BY <1>1
<1>4. Range(t) = {e} \cup Range(s)
  <2>1. ASSUME NEW i \in DOMAIN t PROVE t[i] \in {e} \cup Range(s)
    <3>1. CASE i = 1
      BY <1>1, <3>1
    <3>2. CASE i - 1 \in DOMAIN s /\ t[i] = s[i - 1]
      BY <3>2 DEF Range
    <3> QED BY <1>2, <1>3, <3>1, <3>2
  <2>2. e \in Range(t)
    <3>1. 1 \in DOMAIN t /\ t[1] = e
      BY <1>1, <1>3
    <3> QED BY <3>1 DEF Range
  <2>3. ASSUME NEW i \in DOMAIN s PROVE s[i] \in Range(t)
    <3>1. i + 1 \in DOMAIN t /\ t[i + 1] = s[i]
      BY <1>1, <1>3
    <3> QED BY <3>1 DEF Range
  <2> QED BY <2>1, <2>2, <2>3 DEF Range
<1>5. ASSUME IsInjective(s), e \notin Range(s) PROVE IsInjective(t)
  <2> SUFFICES ASSUME NEW i \in DOMAIN t, NEW j \in DOMAIN t, t[i] = t[j] PROVE i = j
    BY DEF IsInjective
  <2>1. \A n \in 1 .. Len(s) : s[n] # e
    BY <1>3, <1>5 DEF Range
  <2>2. \A m, n \in 1 .. Len(s) : s[m] = s[n] => m = n
    BY <1>3, <1>5 DEF IsInjective
  <2>3. CASE i = 1 \/ j = 1
    BY <1>1, <1>2, <1>3, <2>1, <2>3
  <2>4. CASE i # 1 /\ j # 1
    BY <1>1, <1>2, <1>3, <2>2, <2>4
  <2> QED BY <2>3, <2>4
<1> QED BY <1>1, <1>4, <1>5

LEMMA Popped ==
    ASSUME NEW S, NEW s \in Seq(S), s # <<>>
    PROVE  /\ Head(s) \in S /\ Tail(s) \in Seq(S) /\ Head(s) \in Range(s)
           /\ IsInjective(s) => IsInjective(Tail(s)) /\ Range(Tail(s)) = Range(s) \ {Head(s)}
<1> DEFINE t == Tail(s)
<1>1. /\ t \in Seq(S) /\ Len(t) = Len(s) - 1 /\ Head(s) = s[1] /\ Len(s) > 0 /\ Head(s) \in S
      /\ \A i \in 1 .. Len(t) : t[i] = s[i + 1]
  BY HeadTailProperties
<1>2. DOMAIN t = 1 .. Len(t) /\ DOMAIN s = 1 .. Len(s)
  BY <1>1
<1>3. Head(s) \in Range(s)
  BY <1>1, <1>2 DEF Range
<1>4. ASSUME IsInjective(s) PROVE IsInjective(t) /\ Range(t) = Range(s) \ {Head(s)}
  <2>1. \A i, j \in 1 .. Len(s) : s[i] = s[j] => i = j
    BY <1>2, <1>4 DEF IsInjective
  <2>2. IsInjective(t)
    BY <1>1, <1>2, <2>1 DEF IsInjective
  <2>3. Range(t) \subseteq Range(s) \ {Head(s)}
    BY <1>1, <1>2, <2>1 DEF Range
  <2>4. \A i \in 1 .. Len(s) : s[i] # Head(s) => i - 1 \in DOMAIN t /\ t[i - 1] = s[i]
    BY <1>1, <1>2
  <2>5. Range(s) \ {Head(s)} \subseteq Range(t)
    BY <1>2, <2>4 DEF Range
  <2> QED BY <2>2, <2>3, <2>5
<1> QED BY <1>1, <1>3, <1>4

LEMMA Stacked == ASSUME NEW S, NEW s \in Seq(S), NEW e \in Range(s) PROVE e \in S
BY DEF Range

LEMMA Emptied == Range(<<>>) = {} /\ IsInjective(<<>>)
BY DEF Range, IsInjective

(***************************************************************************)
(* The invariant                                                           *)
(***************************************************************************)
LEMMA InitIInv == Init => IInv
<1> SUFFICES ASSUME Init PROVE IInv
  OBVIOUS
<1> USE PromiseAssumption DEF Init, Promises
<1>1. Range(stack) = {} /\ IsInjective(stack)
  BY Emptied
<1>2. TypeOK
  <2>1. stack \in Seq(1 .. made)
    OBVIOUS
  <2>2. /\ made \in 0 .. MaxPromises /\ settling \in 0 .. made
        /\ source \in [Promises -> 0 .. MaxPromises]
        /\ callback \in [Promises -> 0 .. MaxPromises]
    OBVIOUS
  <2>3. /\ kept \in [Promises -> {"nothing"} \cup Outcome]
        /\ outcome \in [Promises -> {"nothing"} \cup Outcome]
        /\ runs \in [Promises -> 0 .. 1]
    OBVIOUS
  <2>4. /\ \A p \in Promises : source[p] = 0 /\ callback[p] = 0
        /\ handlers = {} /\ threw = {} /\ dead \in BOOLEAN
    OBVIOUS
  <2> HIDE DEF Init
  <2> QED BY <2>1, <2>2, <2>3, <2>4 DEF TypeOK
<1>3. \A p \in Promises : Fresh(p)
  BY <1>1 DEF Fresh
<1>4. Unmade /\ Continued /\ Remembered
  BY <1>3 DEF Unmade, Continued, Remembered
<1>5. Ordered /\ Pending /\ Nesting
  BY <1>1, <1>3 DEF Ordered, Pending, Nesting
<1>6. AtMostOnce /\ ExactlyOnce /\ NothingLost
  BY DEF AtMostOnce, ExactlyOnce, NothingLost
<1> QED BY <1>2, <1>4, <1>5, <1>6 DEF IInv

(* What ExactlyOnce says of one result. *)
Once(p) ==
    LET w == outcome[source[p]] IN
    /\ runs[p] = 1 <=> Called(p) /\ ~PassesOn(p, w) /\ w # "foreign"
    /\ outcome[p] # "nothing" <=> Called(p) /\ p \notin threw /\ p \notin Range(stack)
    /\ Called(p) /\ PassesOn(p, w) => outcome[p] = w

LEMMA SameLinks ==
    ASSUME TypeOK, UNCHANGED <<made, source, callback, handlers>> PROVE Linked'
<1>1. Linked
  BY DEF TypeOK, Linked
<1> QED BY <1>1 DEF Linked

(* An only continuation is the one attached last. *)
LEMMA OnlyIsLast ==
    ASSUME IInv, NEW p \in 1 .. made, source[p] # 0, Only(p)
    PROVE  /\ Once(p)
           /\ source[p] \in 1 .. made /\ source[p] \in Promises /\ p \in Promises
           /\ callback[source[p]] = p
<1> USE PromiseAssumption DEF IInv, TypeOK, Promises
<1>1. Once(p)
  BY DEF ExactlyOnce, Once
<1>2. source[p] \in Promises /\ source[p] < p /\ p \in Promises
  OBVIOUS
<1>3. callback[source[p]] # 0 /\ source[callback[source[p]]] = source[p]
  BY <1>2 DEF Continued
<1>4. callback[source[p]] \in 1 .. made
  BY <1>2, <1>3
<1> QED BY <1>1, <1>2, <1>3, <1>4 DEF Only

(* What is attached to what does not change. *)
LEMMA SameChains ==
    ASSUME UNCHANGED chainVars,
           \A p \in 1 .. made : source[p] # 0 /\ Only(p) => Once(p)'
    PROVE  ExactlyOnce'
BY DEF chainVars, Only, Once, ExactlyOnce

(***************************************************************************)
(* Every step keeps it                                                     *)
(***************************************************************************)
LEMMA MakeKeepsIInv == ASSUME IInv, Make \/ MakeResolved PROVE IInv'
<1> DEFINE new == made + 1
<1> USE PromiseAssumption DEF Promises
<1>1. /\ made \in Nat /\ made < MaxPromises /\ made' = new /\ new \in Promises
      /\ UNCHANGED <<source, callback, handlers, settling, stack, runs, threw, dead>>
      /\ \A p \in Promises : p # new => kept'[p] = kept[p] /\ outcome'[p] = outcome[p]
      /\ \/ kept'[new] = kept[new] /\ outcome'[new] = outcome[new]
         \/ kept'[new] = "value" /\ outcome'[new] = "value"
      /\ settling = 0
  BY DEF IInv, TypeOK, Make, MakeResolved, Idle, historyVars
<1>2. /\ kept' \in [Promises -> {"nothing"} \cup Outcome]
      /\ outcome' \in [Promises -> {"nothing"} \cup Outcome]
  BY <1>1 DEF IInv, TypeOK, Make, MakeResolved, historyVars, Outcome
<1>3. Fresh(new) /\ source[new] = 0 /\ callback[new] = 0 /\ kept[new] = "nothing"
  BY <1>1 DEF IInv, Unmade
<1>4. TypeOK'
  <2>1. stack' \in Seq(1 .. made')
    BY <1>1 DEF IInv, TypeOK
  <2>2. Linked'
    <3>1. Linked
      BY DEF IInv, TypeOK, Linked
    <3> QED BY <1>1, <3>1 DEF Linked
  <2>3. /\ runs' \in [Promises -> 0 .. 1] /\ dead' \in BOOLEAN
        /\ settling' \in 0 .. made' /\ threw' \subseteq 1 .. made'
    BY <1>1 DEF IInv, TypeOK
  <2> QED BY <1>2, <2>1, <2>2, <2>3 DEF TypeOK, Linked
<1>5. Unmade'
  BY <1>1 DEF IInv, Unmade, Fresh
<1>6. Continued' /\ Remembered'
  BY <1>1 DEF IInv, Continued, Remembered
<1>7. Ordered'
  <2> SUFFICES ASSUME NEW p \in Promises, source[p] # 0, ~Fresh(p)' PROVE outcome'[source[p]] # "nothing"
    BY <1>1 DEF IInv, Ordered
  <2>1. p # new /\ source[p] # new /\ source[p] \in Promises
    BY <1>1, <1>3 DEF IInv, TypeOK
  <2> QED BY <1>1, <2>1 DEF IInv, Ordered, Fresh
<1>8. Pending'
  BY <1>1 DEF Pending
<1>9. Nesting'
  <2>1. \A p \in Range(stack) : p \in Promises /\ p # new
    <3>1. \A p \in Range(stack) : p \in 1 .. made
      BY Stacked DEF IInv, TypeOK
    <3> QED BY <1>1, <3>1
  <2> QED BY <1>1, <2>1 DEF IInv, Nesting
<1>10. AtMostOnce'
  <2> SUFFICES ASSUME NEW p \in Promises, runs[p] > 0 PROVE outcome'[source[p]] = outcome[source[p]]
    BY <1>1 DEF IInv, TypeOK, AtMostOnce
  <2> QED BY <1>1, <1>3 DEF IInv, TypeOK, Ordered
<1>11. ExactlyOnce'
  <2> SUFFICES ASSUME NEW q \in 1 .. made', source'[q] # 0, Only(q)' PROVE Once(q)'
    BY DEF ExactlyOnce, Once
  <2>1. q \in 1 .. made /\ source[q] # 0 /\ Only(q)
    BY <1>1, <1>3 DEF Only
  <2>2. source[q] \in 1 .. made /\ source[q] \in Promises /\ Once(q)
    BY <2>1, OnlyIsLast
  <2>3. source[q] # new /\ q # new /\ q \in Promises
    BY <1>1, <2>1, <2>2
  <2> QED BY <1>1, <2>1, <2>2, <2>3 DEF Once, Called, PassesOn
<1>12. NothingLost'
  BY <1>1, <1>3 DEF IInv, NothingLost, Fresh
<1> QED BY <1>4, <1>5, <1>6, <1>7, <1>8, <1>9, <1>10, <1>11, <1>12 DEF IInv

(* set() or throw_() on a promise that is not settled yet: by its owner,   *)
(* by the source whose exception it inherits, or with what its             *)
(* continuation returned.                                                  *)
LEMMA SettleKeepsIInv ==
    ASSUME IInv, NEW p \in 1 .. made, NEW w \in Outcome, outcome[p] = "nothing",
           Settle(p, w), UNCHANGED <<chainVars, kept, runs, threw, dead>>,
           stack' \in Seq(1 .. made), IsInjective(stack'), Range(stack') = Range(stack) \ {p},
           settling # 0 => settling = source[p],
           source[p] # 0 => outcome[source[p]] # "nothing",
           source[p] # 0 /\ Only(p) => Once(p)'
    PROVE  IInv'
<1> USE PromiseAssumption DEF Promises
<1>1. /\ UNCHANGED <<made, source, callback, handlers, kept, runs, threw, dead>>
      /\ settling' = p /\ p # 0 /\ p \in Promises
      /\ \A q \in Promises : outcome'[q] = IF q = p THEN w ELSE outcome[q]
      /\ outcome' \in [Promises -> {"nothing"} \cup Outcome]
      /\ w # "nothing"
      /\ made \in Nat /\ 1 .. made \subseteq Promises /\ handlers \subseteq Promises
  BY DEF IInv, TypeOK, Settle, chainVars, Outcome, Exception
<1>2. \A q \in Promises : source[q] = p => Fresh(q) /\ Fresh(q)' /\ q # p
  <2> SUFFICES ASSUME NEW q \in Promises, source[q] = p PROVE Fresh(q) /\ Fresh(q)' /\ q # p
    OBVIOUS
  <2>1. q # p
    BY <1>1 DEF IInv, TypeOK
  <2>2. Fresh(q)
    BY <1>1 DEF IInv, Ordered
  <2> QED BY <1>1, <2>1, <2>2 DEF Fresh
<1>3. \A q \in Promises : q # p => Fresh(q)' = Fresh(q)
  BY <1>1 DEF Fresh
<1>4. TypeOK'
  <2>1. stack' \in Seq(1 .. made') /\ settling' \in 0 .. made'
    BY <1>1
  <2>2. Linked'
    BY <1>1, SameLinks DEF IInv
  <2>3. /\ kept' \in [Promises -> {"nothing"} \cup Outcome] /\ dead' \in BOOLEAN
        /\ runs' \in [Promises -> 0 .. 1] /\ threw' \subseteq 1 .. made'
    BY <1>1 DEF IInv, TypeOK
  <2> QED BY <1>1, <2>1, <2>2, <2>3 DEF TypeOK, Linked
<1>5. Unmade' /\ Continued'
  <2>1. Continued'
    BY <1>1 DEF IInv, Continued
  <2>2. Unmade'
    BY <1>1, <1>3 DEF IInv, Unmade
  <2> QED BY <2>1, <2>2
<1>6. Remembered'
  BY <1>1 DEF IInv, Remembered
<1>7. Ordered'
  <2> SUFFICES ASSUME NEW q \in Promises
               PROVE  /\ source[q] # 0 /\ ~Fresh(q)' => outcome'[source[q]] # "nothing"
                      /\ source[q] = 0 => runs[q] = 0 /\ q \notin threw
    BY <1>1 DEF Ordered
  <2>1. source[q] # 0 => source[q] \in Promises
    BY DEF IInv, TypeOK
  <2>2. CASE q = p
    BY <1>1, <2>1, <2>2 DEF IInv, Ordered
  <2>3. CASE q # p
    BY <1>1, <1>3, <2>1, <2>3 DEF IInv, Ordered
  <2> QED BY <2>2, <2>3
<1>8. Pending'
  <2>1. callback[p] # 0 => callback[p] \in Promises /\ source[callback[p]] = p
    BY <1>1 DEF IInv, TypeOK
  <2> QED BY <1>1, <1>2, <2>1 DEF Pending
<1>9. Nesting'
  <2>1. \A q \in Range(stack') : q \in Promises /\ q # p /\ q \in Range(stack)
    BY <1>1, Stacked
  <2> QED BY <1>1, <2>1 DEF IInv, Nesting
<1>10. AtMostOnce'
  <2> SUFFICES ASSUME NEW q \in Promises, runs[q] > 0 PROVE outcome'[source[q]] = outcome[source[q]]
    BY <1>1 DEF IInv, AtMostOnce
  <2>1. source[q] # p
    BY <1>2 DEF Fresh
  <2>2. source[q] \in Promises
    BY DEF IInv, TypeOK, Ordered
  <2> QED BY <1>1, <2>1, <2>2
<1>11. ExactlyOnce'
  <2> SUFFICES ASSUME NEW q \in 1 .. made, source[q] # 0, Only(q), q # p PROVE Once(q)'
    BY SameChains DEF chainVars
  <2>1. Once(q) /\ source[q] \in Promises /\ q \in Promises
    BY OnlyIsLast
  <2>2. CASE source[q] = p
    BY <1>1, <1>2, <2>1, <2>2 DEF Once, Called, Fresh
  <2>3. CASE source[q] # p
    <3>1. settling # source[q]
      BY <1>1, <2>1 DEF Only
    <3>2. Called(q)' = Called(q)
      BY <1>1, <2>1, <2>3, <3>1 DEF Called
    <3> QED BY <1>1, <2>1, <2>3, <3>2 DEF Once, PassesOn
  <2> QED BY <2>2, <2>3
<1>12. NothingLost'
  <2> SUFFICES ASSUME NEW q \in 1 .. made, callback[q] = 0, q # p PROVE kept[q] = outcome[q]
    BY <1>1 DEF NothingLost
  <2>1. settling # q
    BY <1>1 DEF IInv, Continued
  <2> QED BY <2>1 DEF IInv, NothingLost
<1> QED BY <1>4, <1>5, <1>6, <1>7, <1>8, <1>9, <1>10, <1>11, <1>12 DEF IInv

LEMMA BeginKeepsIInv ==
    ASSUME IInv, NEW p \in Promises, NEW w \in Outcome, Begin(p, w) PROVE IInv'
<1>1. /\ p \in 1 .. made /\ outcome[p] = "nothing" /\ source[p] = 0 /\ settling = 0
      /\ Settle(p, w) /\ UNCHANGED <<chainVars, kept, stack, runs, threw, dead>>
  BY DEF IInv, TypeOK, Begin, MaySettle, Idle, Promises
<1>2. p \notin Range(stack)
  BY <1>1 DEF IInv, Nesting, Ordered, Promises
<1>3. stack' \in Seq(1 .. made) /\ IsInjective(stack') /\ Range(stack') = Range(stack) \ {p}
  BY <1>1, <1>2 DEF IInv, TypeOK, Nesting
<1> QED BY <1>1, <1>3, SettleKeepsIInv

(* The result whose continuation is to be called. *)
LEMMA SettlingShape ==
    ASSUME IInv, settling # 0, callback[settling] # 0
    PROVE  /\ settling \in 1 .. made /\ settling \in Promises
           /\ callback[settling] \in 1 .. made /\ callback[settling] \in Promises
           /\ source[callback[settling]] = settling /\ callback[settling] # settling
           /\ Fresh(callback[settling])
           /\ outcome[settling] \in Outcome /\ outcome[settling] # "nothing"
<1> USE PromiseAssumption DEF IInv, Promises
<1>1. settling \in 1 .. made /\ settling \in Promises
  BY DEF TypeOK
<1>2. callback[settling] \in Promises
  BY <1>1 DEF TypeOK
<1>3. source[callback[settling]] = settling /\ callback[settling] \in 1 .. made
  BY <1>1, <1>2 DEF TypeOK
<1>4. callback[settling] # settling
  BY <1>1, <1>3 DEF TypeOK
<1>5. outcome[settling] \in Outcome /\ outcome[settling] # "nothing"
  BY <1>1 DEF TypeOK, Pending
<1> QED BY <1>1, <1>2, <1>3, <1>4, <1>5 DEF Pending

LEMMA PassOnKeepsIInv == ASSUME IInv, PassOn PROVE IInv'
<1>1. PICK r \in 1 .. made, w \in Outcome : r = callback[settling] /\ w = outcome[settling]
  BY SettlingShape DEF PassOn
<1>2. /\ settling \in 1 .. made /\ settling \in Promises /\ PassesOn(r, w) /\ Settle(r, w)
      /\ UNCHANGED <<chainVars, kept, stack, runs, threw, dead>>
  BY <1>1, PromiseAssumption DEF IInv, TypeOK, PassOn, Promises
<1>3. /\ r \in Promises /\ source[r] = settling /\ r # settling
      /\ Fresh(r) /\ w # "nothing" /\ made \in Nat
  BY <1>1, <1>2, PromiseAssumption DEF IInv, TypeOK, Pending, Promises
<1>4. stack' \in Seq(1 .. made) /\ IsInjective(stack') /\ Range(stack') = Range(stack) \ {r}
  BY <1>2, <1>3 DEF IInv, TypeOK, Nesting, Fresh
<1>5. Once(r)'
  <2>1. /\ runs'[r] = 0 /\ outcome'[r] = w /\ source'[r] = settling /\ outcome'[settling] = w
        /\ settling' = r /\ threw' = threw /\ handlers' = handlers
    BY <1>1, <1>2, <1>3 DEF Settle, Fresh, IInv, TypeOK, chainVars
  <2>2. Called(r)' /\ PassesOn(r, w)'
    BY <1>2, <1>3, <2>1 DEF Called, PassesOn
  <2>3. r \notin threw' /\ r \notin Range(stack')
    BY <1>3, <1>4, <2>1 DEF Fresh
  <2> QED BY <1>3, <2>1, <2>2, <2>3 DEF Once
<1>6. outcome[r] = "nothing" /\ outcome[source[r]] # "nothing"
  BY <1>1, <1>3 DEF Fresh
<1> QED BY <1>2, <1>3, <1>4, <1>5, <1>6, SettleKeepsIInv

LEMMA ReturnKeepsIInv == ASSUME IInv, Return PROVE IInv'
<1>1. /\ settling = 0 /\ stack # <<>> /\ stack' = Tail(stack) /\ Settle(Head(stack), "value")
      /\ UNCHANGED <<chainVars, kept, runs, threw, dead>>
      /\ stack \in Seq(1 .. made) /\ made \in Nat /\ 1 .. made \subseteq Promises
  BY PromiseAssumption DEF IInv, TypeOK, Return, Idle, Promises
<1>2. PICK r \in 1 .. made : r = Head(stack)
  BY <1>1, Popped
<1>3. /\ stack' \in Seq(1 .. made) /\ r \in Range(stack)
      /\ IsInjective(stack') /\ Range(stack') = Range(stack) \ {r}
  BY <1>1, <1>2, Popped DEF IInv, Nesting
<1>4. /\ r \in Promises /\ runs[r] = 1 /\ outcome[r] = "nothing" /\ r \notin threw
  BY <1>1, <1>3 DEF IInv, Nesting
<1>5. source[r] # 0 /\ outcome[source[r]] # "nothing"
  BY <1>4 DEF IInv, Ordered, Fresh
<1>6. ASSUME Only(r) PROVE Once(r)'
  <2>1. Once(r) /\ source[r] \in Promises
    BY <1>5, <1>6, OnlyIsLast
  <2>2. r # source[r]
    BY <1>4, <1>5, PromiseAssumption DEF IInv, TypeOK, Promises
  <2>3. /\ outcome'[r] = "value" /\ outcome'[source[r]] = outcome[source[r]] /\ settling' = r
        /\ runs' = runs /\ threw' = threw /\ handlers' = handlers /\ source' = source
    BY <1>1, <1>2, <1>4, <2>1, <2>2 DEF Settle, IInv, TypeOK, chainVars
  <2>4. Called(r) /\ Called(r)' /\ ~PassesOn(r, outcome[source[r]]) /\ outcome[source[r]] # "foreign"
    BY <1>1, <1>4, <1>5, <2>1, <2>2, <2>3 DEF Called, Once
  <2>5. r \notin threw' /\ r \notin Range(stack')
    BY <1>3, <1>4, <2>3
  <2>6. ~PassesOn(r, outcome[source[r]])'
    BY <2>3, <2>4 DEF PassesOn
  <2> QED BY <1>4, <2>3, <2>4, <2>5, <2>6 DEF Once
<1>7. Settle(r, "value") /\ "value" \in Outcome
  BY <1>1, <1>2 DEF Outcome
<1> QED BY <1>1, <1>2, <1>3, <1>4, <1>5, <1>6, <1>7, SettleKeepsIInv

(* Nobody continues the promise yet. *)
LEMMA KeepKeepsIInv == ASSUME IInv, Keep PROVE IInv'
<1> USE PromiseAssumption DEF Promises
<1>1. PICK p \in 1 .. made : p = settling
  BY DEF IInv, TypeOK, Keep
<1>2. /\ p \in Promises /\ callback[p] = 0 /\ outcome[p] \in Outcome
      /\ outcome[p] # "nothing" /\ settling' = 0
      /\ UNCHANGED <<chainVars, stack, outcome, runs, threw, dead>>
  BY <1>1 DEF IInv, TypeOK, Keep, historyVars, Pending
<1>3. /\ UNCHANGED <<made, source, callback, handlers>> /\ made \in Nat
      /\ kept' \in [Promises -> {"nothing"} \cup Outcome]
      /\ \A q \in Promises : kept'[q] = IF q = p THEN outcome[p] ELSE kept[q]
  BY <1>1, <1>2 DEF IInv, TypeOK, Keep, chainVars
<1>4. \A q \in Promises : source[q] # p
  BY <1>1, <1>2 DEF IInv, Continued
<1>5. TypeOK'
  <2>1. Linked'
    BY <1>3, SameLinks DEF IInv
  <2>2. stack' \in Seq(1 .. made') /\ settling' \in 0 .. made' /\ threw' \subseteq 1 .. made'
    BY <1>2, <1>3 DEF IInv, TypeOK
  <2>3. /\ runs' \in [Promises -> 0 .. 1] /\ dead' \in BOOLEAN
        /\ outcome' \in [Promises -> {"nothing"} \cup Outcome]
    BY <1>2 DEF IInv, TypeOK
  <2> QED BY <1>3, <2>1, <2>2, <2>3 DEF TypeOK, Linked
<1>6. Unmade'
  <2>1. \A q \in Promises : q > made => q # p
    BY <1>3
  <2> QED BY <1>2, <1>3, <2>1 DEF IInv, Unmade, Fresh
<1>7. Continued' /\ Remembered'
  BY <1>2, <1>3 DEF IInv, Continued, Remembered
<1>8. Ordered' /\ Pending' /\ Nesting'
  BY <1>2, <1>3 DEF IInv, Ordered, Pending, Nesting, Fresh
<1>9. AtMostOnce'
  BY <1>2, <1>3 DEF IInv, AtMostOnce
<1>10. ExactlyOnce'
  <2> SUFFICES ASSUME NEW q \in 1 .. made, source[q] # 0, Only(q) PROVE Once(q)'
    BY <1>2, SameChains
  <2>1. Once(q) /\ source[q] \in Promises /\ q \in Promises
    BY OnlyIsLast
  <2>2. Called(q)' = Called(q)
    BY <1>1, <1>2, <1>3, <1>4, <2>1 DEF Called, IInv, TypeOK
  <2> QED BY <1>2, <1>3, <2>1, <2>2 DEF Once, PassesOn
<1>11. NothingLost'
  <2> SUFFICES ASSUME NEW q \in 1 .. made, callback[q] = 0 PROVE kept'[q] = outcome[q]
    BY <1>2, <1>3 DEF NothingLost
  <2>1. q \in Promises
    BY DEF IInv, TypeOK
  <2> QED BY <1>1, <1>3, <2>1 DEF IInv, NothingLost
<1> QED BY <1>5, <1>6, <1>7, <1>8, <1>9, <1>10, <1>11 DEF IInv

(* The continuation of r is called. *)
LEMMA RunKeepsIInv == ASSUME IInv, Run PROVE IInv'
<1> USE PromiseAssumption DEF Promises
<1>1. PICK r \in 1 .. made, w \in Outcome : r = callback[settling] /\ w = outcome[settling]
  BY SettlingShape DEF Run
<1>2. /\ r \in Promises /\ settling \in Promises /\ source[r] = settling /\ settling # 0
      /\ Fresh(r) /\ w # "nothing" /\ made \in Nat
  <2>1. settling # 0 /\ callback[settling] # 0
    BY DEF Run
  <2>2. made \in Nat
    BY DEF IInv, TypeOK
  <2> QED BY <1>1, <2>1, <2>2, SettlingShape
<1>3. /\ UNCHANGED <<made, source, callback, handlers, kept, outcome, threw>>
      /\ UNCHANGED chainVars
      /\ settling' = 0 /\ ~PassesOn(r, w) /\ w # "foreign"
      /\ stack' = <<r>> \o stack /\ dead' \in BOOLEAN
      /\ runs' \in [Promises -> 0 .. 1]
      /\ \A q \in Promises : runs'[q] = IF q = r THEN 1 ELSE runs[q]
  <2>1. runs \in [Promises -> 0 .. 1] /\ runs[r] = 0
    BY <1>2 DEF IInv, TypeOK, Fresh
  <2>2. runs' = [runs EXCEPT ![r] = @ + 1]
    BY <1>1 DEF Run
  <2>3. /\ runs' \in [Promises -> 0 .. 1]
        /\ \A q \in Promises : runs'[q] = IF q = r THEN 1 ELSE runs[q]
    BY <1>2, <2>1, <2>2
  <2>4. /\ UNCHANGED chainVars /\ UNCHANGED <<kept, outcome, threw>>
        /\ settling' = 0 /\ ~PassesOn(r, w) /\ w # "foreign"
        /\ stack' = <<r>> \o stack /\ dead' \in BOOLEAN
    BY <1>1 DEF Run
  <2> QED BY <2>3, <2>4 DEF chainVars
<1>4. stack' \in Seq(1 .. made) /\ Range(stack') = {r} \cup Range(stack) /\ IsInjective(stack')
  BY <1>2, <1>3, Pushed DEF IInv, TypeOK, Nesting, Fresh
<1>5. \A q \in Promises : q # r => Fresh(q)' = Fresh(q)
  BY <1>3, <1>4 DEF Fresh
<1>6. TypeOK'
  <2>1. Linked'
    BY <1>3, SameLinks DEF IInv
  <2>2. stack' \in Seq(1 .. made') /\ settling' \in 0 .. made' /\ threw' \subseteq 1 .. made'
    BY <1>2, <1>3, <1>4 DEF IInv, TypeOK
  <2>3. /\ kept' \in [Promises -> {"nothing"} \cup Outcome]
        /\ outcome' \in [Promises -> {"nothing"} \cup Outcome]
    BY <1>3 DEF IInv, TypeOK
  <2> QED BY <1>3, <2>1, <2>2, <2>3 DEF TypeOK, Linked
<1>7. Unmade'
  <2>1. \A q \in Promises : q > made => q # r
    BY <1>2
  <2> QED BY <1>3, <1>5, <2>1 DEF IInv, Unmade
<1>8. Continued' /\ Remembered'
  BY <1>3 DEF IInv, Continued, Remembered
<1>9. Ordered'
  <2> SUFFICES ASSUME NEW q \in Promises
               PROVE  /\ source[q] # 0 /\ ~Fresh(q)' => outcome[source[q]] # "nothing"
                      /\ source[q] = 0 => runs'[q] = 0 /\ q \notin threw
    BY <1>3 DEF Ordered
  <2>1. CASE q = r
    BY <1>1, <1>2, <2>1
  <2>2. CASE q # r
    BY <1>3, <1>5, <2>2 DEF IInv, Ordered
  <2> QED BY <2>1, <2>2
<1>10. Pending'
  BY <1>3 DEF Pending
<1>11. Nesting'
  <2> SUFFICES ASSUME NEW q \in Range(stack')
               PROVE  runs'[q] = 1 /\ outcome[q] = "nothing" /\ q \notin threw
    BY <1>3, <1>4 DEF Nesting
  <2>1. CASE q = r
    BY <1>2, <1>3, <2>1 DEF Fresh
  <2>2. CASE q # r
    <3>1. q \in Range(stack) /\ q \in Promises
      BY <1>4, <2>2, Stacked DEF IInv, TypeOK
    <3> QED BY <1>3, <2>2, <3>1 DEF IInv, Nesting
  <2> QED BY <2>1, <2>2
<1>12. AtMostOnce'
  <2>1. outcome' = outcome /\ handlers' = handlers /\ source' = source
    BY <1>3
  <2>2. \A q \in Promises : runs'[q] <= 1
    BY <1>3
  <2>3. ASSUME NEW q \in Promises, runs'[q] > 0
        PROVE  IF q \in handlers THEN outcome[source[q]] \in {"value", "exception"}
                                 ELSE outcome[source[q]] = "value"
    <3>1. CASE q = r
      BY <1>1, <1>2, <1>3, <3>1 DEF PassesOn, Outcome, Exception
    <3>2. CASE q # r
      <4>1. runs[q] > 0
        BY <1>3, <2>3, <3>2
      <4>2. AtMostOnce
        BY DEF IInv
      <4> QED BY <4>1, <4>2 DEF AtMostOnce
    <3> QED BY <3>1, <3>2
  <2> QED BY <2>1, <2>2, <2>3 DEF AtMostOnce
<1>13. ExactlyOnce'
  <2> SUFFICES ASSUME NEW q \in 1 .. made, source[q] # 0, Only(q) PROVE Once(q)'
    BY <1>3, SameChains
  <2>1. /\ Once(q) /\ source[q] \in Promises /\ q \in Promises
        /\ callback[source[q]] = q
    BY OnlyIsLast
  <2>2. CASE q = r
    <3>1. Called(q)' /\ ~PassesOn(q, w)' /\ outcome'[source'[q]] = w
      BY <1>1, <1>2, <1>3, <2>2 DEF Called, PassesOn
    <3>2. runs'[q] = 1 /\ outcome'[q] = "nothing" /\ q \in Range(stack')
      BY <1>2, <1>3, <1>4, <2>2 DEF Fresh
    <3> QED BY <1>3, <3>1, <3>2 DEF Once
  <2>3. CASE q # r
    <3>1. Called(q)' = Called(q)
      BY <1>1, <1>2, <1>3, <2>1, <2>3 DEF Called
    <3>2. runs'[q] = runs[q] /\ (q \in Range(stack') <=> q \in Range(stack))
      BY <1>3, <1>4, <2>1, <2>3
    <3> QED BY <1>3, <2>1, <3>1, <3>2 DEF Once, PassesOn
  <2> QED BY <2>2, <2>3
<1>14. NothingLost'
  BY <1>1, <1>2, <1>3 DEF IInv, NothingLost
<1> QED BY <1>6, <1>7, <1>8, <1>9, <1>10, <1>11, <1>12, <1>13, <1>14 DEF IInv

(* What the continuation of r throws, or the exception that its handler    *)
(* does not catch, leaves all that wait for it.                            *)
LEMMA UnwindKeepsIInv ==
    ASSUME IInv, NEW r \in 1 .. made, Unwind(r), settling' = 0,
           UNCHANGED <<chainVars, kept, outcome, runs, dead>>,
           outcome[r] = "nothing", source[r] # 0, outcome[source[r]] # "nothing",
           r \in Range(stack) \/ settling # 0,
           settling # 0 => settling = source[r] /\ callback[settling] = r,
           Only(r) => Once(r)'
    PROVE  IInv'
<1> USE PromiseAssumption DEF Promises
<1>1. /\ UNCHANGED <<made, source, callback, handlers, kept, outcome, runs, dead>>
      /\ threw' = threw \cup {r} \cup Range(stack)
      /\ stack' = <<>> /\ Range(stack') = {} /\ IsInjective(stack')
      /\ made \in Nat /\ made <= MaxPromises /\ r \in Promises
  BY Emptied DEF IInv, TypeOK, Unwind, chainVars
<1>2. \A q \in Range(stack) : q \in 1 .. made /\ runs[q] = 1
  BY Stacked DEF IInv, TypeOK, Nesting
<1>3. TypeOK'
  <2>1. stack' \in Seq(1 .. made')
    BY <1>1
  <2>2. threw' \subseteq 1 .. made'
    BY <1>1, <1>2 DEF IInv, TypeOK
  <2>3. /\ kept' \in [Promises -> {"nothing"} \cup Outcome]
        /\ outcome' \in [Promises -> {"nothing"} \cup Outcome]
        /\ runs' \in [Promises -> 0 .. 1] /\ dead' \in BOOLEAN
        /\ settling' \in 0 .. made'
    BY <1>1 DEF IInv, TypeOK
  <2>4. Linked'
    BY <1>1, SameLinks DEF IInv
  <2> QED BY <2>1, <2>2, <2>3, <2>4 DEF TypeOK, Linked
<1>4. Unmade'
  BY <1>1, <1>2 DEF IInv, Unmade, Fresh
<1>5. Continued' /\ Remembered'
  BY <1>1 DEF IInv, Continued, Remembered
<1>6. Ordered'
  <2> SUFFICES ASSUME NEW q \in Promises
               PROVE  /\ source[q] # 0 /\ ~Fresh(q)' => outcome[source[q]] # "nothing"
                      /\ source[q] = 0 => runs[q] = 0 /\ q \notin threw'
    BY <1>1 DEF Ordered
  <2>1. CASE q = r
    BY <2>1
  <2>2. CASE q # r
    BY <1>1, <1>2, <2>2 DEF IInv, Ordered, Fresh
  <2> QED BY <2>1, <2>2
<1>7. Pending' /\ Nesting'
  BY <1>1 DEF Pending, Nesting
<1>8. AtMostOnce'
  BY <1>1 DEF IInv, AtMostOnce
<1>9. ExactlyOnce'
  <2> SUFFICES ASSUME NEW q \in 1 .. made, source[q] # 0, Only(q), q # r PROVE Once(q)'
    BY SameChains DEF chainVars
  <2>1. Once(q) /\ callback[source[q]] = q
    BY OnlyIsLast
  <2>2. Called(q)' = Called(q)
    BY <1>1, <2>1 DEF Called
  <2>3. q \notin threw' /\ q \notin Range(stack') <=> q \notin threw /\ q \notin Range(stack)
    BY <1>1
  <2> QED BY <1>1, <2>1, <2>2, <2>3 DEF Once, PassesOn
<1>10. NothingLost'
  BY <1>1 DEF IInv, NothingLost
<1> QED BY <1>3, <1>4, <1>5, <1>6, <1>7, <1>8, <1>9, <1>10 DEF IInv

LEMMA EscapeHandlerKeepsIInv == ASSUME IInv, EscapeHandler PROVE IInv'
<1>1. PICK r \in 1 .. made : r = callback[settling]
  BY SettlingShape DEF EscapeHandler
<1>2. /\ settling \in 1 .. made /\ settling # 0 /\ source[r] = settling /\ r # settling /\ Fresh(r)
      /\ outcome[settling] = "foreign"
  <2>1. settling # 0 /\ callback[settling] # 0 /\ outcome[settling] = "foreign"
    BY DEF EscapeHandler
  <2> QED BY <1>1, <2>1, SettlingShape
<1>3. /\ Unwind(r) /\ settling' = 0 /\ UNCHANGED <<chainVars, kept, outcome, runs, dead>>
      /\ ~PassesOn(r, "foreign")
  BY <1>1 DEF EscapeHandler
<1>4. Once(r)'
  <2>1. /\ runs'[r] = 0 /\ outcome'[r] = "nothing" /\ source'[r] = settling
        /\ outcome'[settling] = "foreign" /\ r \in threw' /\ handlers' = handlers
    BY <1>2, <1>3 DEF Unwind, Fresh, chainVars
  <2> QED BY <1>3, <2>1 DEF Once, Called, PassesOn
<1>5. outcome[r] = "nothing" /\ source[r] # 0 /\ outcome[source[r]] # "nothing"
  BY <1>2 DEF Fresh
<1> QED BY <1>1, <1>2, <1>3, <1>4, <1>5, UnwindKeepsIInv

LEMMA EscapeKeepsIInv == ASSUME IInv, Escape PROVE IInv'
<1>1. /\ settling = 0 /\ stack # <<>> /\ Unwind(Head(stack))
      /\ UNCHANGED <<chainVars, kept, settling, outcome, runs, dead>>
      /\ stack \in Seq(1 .. made) /\ 1 .. made \subseteq Promises
  BY PromiseAssumption DEF IInv, TypeOK, Escape, Idle, Promises
<1>2. PICK r \in 1 .. made : r = Head(stack)
  BY <1>1, Popped
<1>3. r \in Range(stack) /\ Unwind(r)
  BY <1>1, <1>2, Popped
<1>4. r \in Promises /\ runs[r] = 1 /\ outcome[r] = "nothing" /\ r \notin threw
  BY <1>1, <1>3 DEF IInv, Nesting
<1>5. source[r] # 0 /\ outcome[source[r]] # "nothing"
  BY <1>4 DEF IInv, Ordered, Fresh
<1>6. ASSUME Only(r) PROVE Once(r)'
  <2>1. Once(r)
    BY <1>5, <1>6, OnlyIsLast
  <2>2. /\ outcome' = outcome /\ source' = source /\ settling' = settling /\ runs' = runs
        /\ handlers' = handlers /\ r \in threw'
    BY <1>1, <1>3 DEF Unwind, chainVars
  <2>3. Called(r)' = Called(r) /\ PassesOn(r, outcome[source[r]])' = PassesOn(r, outcome[source[r]])
    BY <2>2 DEF Called, PassesOn
  <2>4. ~PassesOn(r, outcome[source[r]]) /\ outcome[source[r]] # "foreign"
    BY <1>4, <2>1 DEF Once
  <2> QED BY <1>4, <2>1, <2>2, <2>3, <2>4 DEF Once
<1> QED BY <1>1, <1>3, <1>4, <1>5, <1>6, UnwindKeepsIInv

(* A continuation of p is attached.  If it is the only one of p, nothing   *)
(* of what p was settled with has gone to another.                         *)
LEMMA AttachKeepsIInv ==
    ASSUME IInv, NEW p \in Promises, NEW handles \in BOOLEAN, Attach(p, handles) PROVE IInv'
<1> USE PromiseAssumption DEF Promises
<1>0. PICK result \in Promises : result = made + 1 /\ made \in Nat
  BY DEF IInv, TypeOK, Attach
<1>b. /\ source \in [Promises -> 0 .. MaxPromises] /\ callback \in [Promises -> 0 .. MaxPromises]
      /\ \A q \in Promises : source[q] # 0 => source[q] < q /\ q <= made
      /\ \A q \in Promises : callback[q] # 0 => source[callback[q]] = q
  BY DEF IInv, TypeOK
<1>1. /\ made \in Nat /\ made < MaxPromises
      /\ p \in 1 .. made /\ p # result /\ settling = 0
      /\ made' = result /\ result = made + 1
      /\ UNCHANGED <<kept, stack, outcome, runs, threw, dead>>
  BY <1>0 DEF IInv, TypeOK, Attach, Idle, historyVars
<1>2. /\ source' \in [Promises -> 0 .. MaxPromises] /\ callback' \in [Promises -> 0 .. MaxPromises]
      /\ \A q \in Promises : source'[q] = IF q = result THEN p ELSE source[q]
      /\ \A q \in Promises : callback'[q] = IF q = p THEN result ELSE callback[q]
  BY <1>1, <1>b DEF Attach
<1>3. /\ handlers' \subseteq handlers \cup {result} /\ handlers \subseteq handlers'
      /\ settling' = IF RunsAtOnce(p) THEN p ELSE 0
  BY <1>0 DEF Attach
<1>4. /\ Fresh(result) /\ kept[result] = "nothing" /\ source[result] = 0 /\ callback[result] = 0
  BY <1>1 DEF IInv, Unmade
<1>5. \A q \in Promises : Fresh(q)' = Fresh(q)
  BY <1>1 DEF Fresh
<1>6. \A q \in Promises : source[q] # result
  <2> SUFFICES ASSUME NEW q \in Promises, source[q] = result PROVE FALSE
    OBVIOUS
  <2>1. source[q] < q /\ q <= made
    BY <1>1, <1>b
  <2> QED BY <1>1, <2>1
<1>7. TypeOK'
  <2>1. stack' \in Seq(1 .. made') /\ settling' \in 0 .. made' /\ threw' \subseteq 1 .. made'
    BY <1>1, <1>3 DEF IInv, TypeOK
  <2>2. \A q \in Promises : /\ source'[q] # 0 => source'[q] < q /\ q <= made'
                            /\ callback'[q] # 0 => source'[callback'[q]] = q
    <3> SUFFICES ASSUME NEW q \in Promises
                 PROVE  /\ source'[q] # 0 => source'[q] < q /\ q <= made'
                        /\ callback'[q] # 0 => source'[callback'[q]] = q
      OBVIOUS
    <3>1. source'[q] # 0 => source'[q] < q /\ q <= made'
      <4>1. CASE q = result
        BY <1>1, <1>2, <4>1
      <4>2. CASE q # result
        <5>1. source'[q] = source[q]
          BY <1>2, <4>2
        <5> QED BY <1>1, <1>b, <5>1
      <4> QED BY <4>1, <4>2
    <3>2. callback'[q] # 0 => source'[callback'[q]] = q
      <4>1. CASE q = p
        BY <1>2, <4>1
      <4>2. CASE q # p
        <5> SUFFICES ASSUME callback[q] # 0 PROVE source'[callback[q]] = q
          BY <1>2, <4>2
        <5>1. callback[q] \in Promises /\ source[callback[q]] = q
          BY <1>b
        <5> QED BY <1>2, <1>4, <5>1
      <4> QED BY <4>1, <4>2
    <3> QED BY <3>1, <3>2
  <2>3. handlers' \subseteq {q \in 1 .. made' : source'[q] # 0}
    <3>1. handlers \subseteq {q \in 1 .. made : source[q] # 0}
      BY DEF IInv, TypeOK
    <3>2. SUFFICES ASSUME NEW q \in handlers' PROVE q \in 1 .. made' /\ source'[q] # 0
      OBVIOUS
    <3>3. CASE q = result
      BY <1>1, <1>2, <3>3
    <3>4. CASE q \in handlers
      <4>1. q \in 1 .. made /\ q \in Promises /\ source[q] # 0 /\ q # result
        BY <1>1, <3>1, <3>4
      <4> QED BY <1>1, <1>2, <4>1
    <3> QED BY <1>3, <3>3, <3>4
  <2>4. /\ made' \in 0 .. MaxPromises /\ dead' \in BOOLEAN
        /\ kept' \in [Promises -> {"nothing"} \cup Outcome]
        /\ outcome' \in [Promises -> {"nothing"} \cup Outcome]
        /\ runs' \in [Promises -> 0 .. 1]
    BY <1>1 DEF IInv, TypeOK
  <2> QED BY <1>2, <2>1, <2>2, <2>3, <2>4 DEF TypeOK
<1>8. Unmade'
  <2> SUFFICES ASSUME NEW q \in Promises, q > made'
               PROVE  /\ Fresh(q)' /\ kept'[q] = "nothing"
                      /\ source'[q] = 0 /\ callback'[q] = 0
    BY DEF Unmade
  <2>1. q > made /\ q # p /\ q # result
    BY <1>1
  <2> QED BY <1>1, <1>2, <1>5, <2>1 DEF IInv, Unmade
<1>9. Continued' /\ Remembered'
  <2>1. Continued'
    <3> SUFFICES ASSUME NEW q \in Promises, source'[q] # 0 PROVE callback'[source'[q]] # 0
      BY DEF Continued
    <3>1. CASE q = result
      BY <1>1, <1>2, <3>1
    <3>2. CASE q # result
      <4>1. source'[q] = source[q]
        BY <1>2, <3>2
      <4>2. source[q] \in Promises
        BY <1>b, <4>1
      <4>3. callback[source[q]] # 0
        BY <4>1 DEF IInv, Continued
      <4> QED BY <1>1, <1>2, <4>1, <4>2, <4>3
    <3> QED BY <3>1, <3>2
  <2> QED BY <1>1, <2>1 DEF IInv, Remembered
<1>10. Ordered'
  <2> SUFFICES ASSUME NEW q \in Promises
               PROVE  /\ source'[q] # 0 /\ ~Fresh(q)' => outcome[source'[q]] # "nothing"
                      /\ source'[q] = 0 => runs[q] = 0 /\ q \notin threw
    BY <1>1 DEF Ordered
  <2>1. CASE q = result
    BY <1>1, <1>2, <1>4, <1>5, <2>1
  <2>2. CASE q # result
    BY <1>2, <1>5, <2>2 DEF IInv, Ordered
  <2> QED BY <2>1, <2>2
<1>11. Pending'
  <2> SUFFICES ASSUME settling' # 0
               PROVE  outcome'[p] # "nothing" /\ settling' = p /\ Fresh(result)' /\ callback'[p] = result
    BY DEF Pending
  <2>1. kept[p] # "nothing" /\ settling' = p
    BY <1>3 DEF RunsAtOnce
  <2> QED BY <1>1, <1>2, <1>4, <1>5, <2>1 DEF IInv, Remembered
<1>12. Nesting'
  BY <1>1 DEF IInv, Nesting
<1>13. AtMostOnce'
  <2> SUFFICES ASSUME NEW q \in Promises, runs[q] > 0
               PROVE  q # result
    BY <1>1, <1>2, <1>3 DEF IInv, AtMostOnce
  <2> QED BY <1>4 DEF Fresh
<1>14. NothingLost'
  <2> SUFFICES ASSUME NEW q \in 1 .. made', callback'[q] = 0 PROVE kept[q] = outcome[q]
    BY <1>1 DEF NothingLost
  <2>1. CASE q = result
    BY <1>4, <2>1 DEF Fresh
  <2>2. CASE q # result
    <3>1. q \in 1 .. made /\ q \in Promises /\ q # p /\ callback[q] = 0
      <4>1. q \in 1 .. made /\ q \in Promises
        BY <1>1, <2>2
      <4> QED BY <1>1, <1>2, <4>1
    <3> QED BY <1>1, <3>1 DEF IInv, NothingLost
  <2> QED BY <2>1, <2>2
<1>15. ExactlyOnce'
  <2> SUFFICES ASSUME NEW q \in 1 .. made', source'[q] # 0, Only(q)' PROVE Once(q)'
    BY DEF ExactlyOnce, Once
  <2>1. CASE q = result
    <3>1. callback[p] = 0
      <4> SUFFICES ASSUME callback[p] # 0 PROVE FALSE
        OBVIOUS
      <4>1. callback[p] \in 1 .. made /\ source[callback[p]] = p
        BY <1>1, <1>b
      <4>2. callback[p] # result /\ callback[p] \in Promises /\ callback[p] \in 1 .. made'
        BY <1>1, <4>1
      <4>3. source'[callback[p]] = p /\ source'[q] = p
        BY <1>2, <2>1, <4>1, <4>2
      <4> QED BY <2>1, <4>2, <4>3 DEF Only
    <3>2. kept[p] = outcome[p]
      BY <1>1, <3>1 DEF IInv, NothingLost
    <3>3. source'[q] = p /\ ~Called(q)'
      BY <1>1, <1>2, <1>3, <2>1, <3>2 DEF Called, RunsAtOnce
    <3>4. runs'[q] = 0 /\ outcome'[q] = "nothing"
      BY <1>1, <1>4, <2>1 DEF Fresh
    <3> QED BY <3>3, <3>4 DEF Once
  <2>2. CASE q # result
    <3>1. q \in 1 .. made /\ q \in Promises /\ source[q] = source'[q] /\ source[q] # p /\ Only(q)
      <4>1. q \in 1 .. made /\ q \in Promises
        BY <1>1, <2>2
      <4>2. source'[q] = source[q]
        BY <1>2, <2>2, <4>1
      <4>3. source'[result] = p /\ result \in 1 .. made'
        BY <1>1, <1>2
      <4>4. \A o \in 1 .. made : o \in 1 .. made' /\ source'[o] = source[o]
        BY <1>1, <1>2
      <4> QED BY <2>2, <4>1, <4>2, <4>3, <4>4 DEF Only
    <3>2. Once(q) /\ source[q] \in Promises
      BY <3>1, OnlyIsLast
    <3>3. Called(q)' = Called(q)
      BY <1>1, <1>3, <3>1, <3>2 DEF Called, IInv, TypeOK
    <3>4. q \in handlers' <=> q \in handlers
      BY <1>3, <2>2
    <3> QED BY <1>1, <3>1, <3>2, <3>3, <3>4 DEF Once, PassesOn
  <2> QED BY <2>1, <2>2
<1> QED BY <1>7, <1>8, <1>9, <1>10, <1>11, <1>12, <1>13, <1>14, <1>15 DEF IInv

LEMMA NextKeepsIInv == IInv /\ [Next]_vars => IInv'
<1> SUFFICES ASSUME IInv, [Next]_vars PROVE IInv'
  OBVIOUS
<1>1. CASE Make \/ MakeResolved
  BY <1>1, MakeKeepsIInv
<1>2. CASE \E p \in Promises, w \in Outcome : Begin(p, w)
  BY <1>2, BeginKeepsIInv
<1>3. CASE \E p \in Promises, handles \in BOOLEAN : Attach(p, handles)
  BY <1>3, AttachKeepsIInv
<1>4. CASE Keep \/ PassOn \/ Run
  BY <1>4, KeepKeepsIInv, PassOnKeepsIInv, RunKeepsIInv
<1>5. CASE EscapeHandler \/ Return \/ Escape
  BY <1>5, EscapeHandlerKeepsIInv, ReturnKeepsIInv, EscapeKeepsIInv
<1>6. CASE UNCHANGED vars
  BY <1>6 DEF vars, chainVars, historyVars, IInv, TypeOK, Unmade, Fresh, Continued, Remembered,
              Ordered, Pending, Nesting, AtMostOnce, ExactlyOnce, Only, Called, PassesOn,
              NothingLost
<1> QED BY <1>1, <1>2, <1>3, <1>4, <1>5, <1>6 DEF Next

LEMMA Inductive == Spec => []IInv
BY InitIInv, NextKeepsIInv, PTL DEF Spec

(***************************************************************************)
(* The theorems                                                            *)
(***************************************************************************)

(* The variables keep their types, and a result has an older source. *)
THEOREM PromiseTypes == Spec => []TypeOK
<1>1. IInv => TypeOK
  BY DEF IInv
<1> QED BY <1>1, Inductive, PTL

(* No continuation runs twice, or before its source was settled, or a      *)
(* function on an exception.                                               *)
THEOREM RunsAtMostOnce == Spec => []AtMostOnce
<1>1. IInv => AtMostOnce
  BY DEF IInv
<1> QED BY <1>1, Inductive, PTL

(* The only continuation of a settled promise runs exactly when it has     *)
(* something to take, and its result is settled when it has returned.      *)
THEOREM RunsExactlyOnce == Spec => []ExactlyOnce
<1>1. IInv => ExactlyOnce
  BY DEF IInv
<1> QED BY <1>1, Inductive, PTL

(* A value or an exception waits for a continuation that comes late. *)
THEOREM NothingIsLost == Spec => []NothingLost
<1>1. IInv => NothingLost
  BY DEF IInv
<1> QED BY <1>1, Inductive, PTL
=============================================================================
