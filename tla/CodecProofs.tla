----------------------------- MODULE CodecProofs -----------------------------
(***************************************************************************)
(* Proofs about Serialization and Codec, for every table of types, every   *)
(* width and every number of values of a byte.                             *)
(*                                                                         *)
(* The overloads are shown to keep one contract, Faithful, each from that  *)
(* of its parameters, and so every type keeps it (CodecFaithful); what     *)
(* RoundTrip, Canonical and SelfDelimiting say of messages follows.  Then  *)
(* the texts of types are taken apart, token by token: types of one text   *)
(* agree on what bytes mean (TextTells), which is SignatureAgrees.         *)
(***************************************************************************)
EXTENDS Codec, SequenceTheorems, WellFoundedInduction, TLAPS

(* Induction over the naturals, for a set in place of a predicate. *)
LEMMA SetInduction ==
    ASSUME NEW P, 0 \in P, \A n \in Nat : n \in P => n + 1 \in P
    PROVE  \A n \in Nat : n \in P
<1> DEFINE Bad == Nat \ P
<1> SUFFICES ASSUME Bad # {} PROVE FALSE
  OBVIOUS
<1>1. PICK x \in Bad : \A y \in Bad : ~ (<<y, x>> \in OpToRel(<, Nat))
  BY NatLessThanWellFounded, WFMin
<1>2. \A y \in Bad : ~(y < x)
  BY <1>1 DEF OpToRel
<1>3. x # 0 /\ x - 1 \in Nat
  OBVIOUS
<1>4. x - 1 \in P
  BY <1>2, <1>3
<1> QED BY <1>3, <1>4

(* A recursion that takes n steps has a solution. *)
Solves(f, n, S, first, Step) ==
    /\ f \in [0 .. n -> S]
    /\ f[0] = first
    /\ \A i \in 1 .. n : f[i] = Step[<<i, f[i - 1]>>]

LEMMA Recursion ==
    ASSUME NEW n \in Nat, NEW S, NEW first \in S, NEW Step \in [(1 .. n) \X S -> S]
    PROVE  \E f : Solves(f, n, S, first, Step)
<1> DEFINE Found(k) == \E f \in [0 .. k -> S] :
              /\ f[0] = first
              /\ \A i \in 1 .. k : f[i] = Step[<<i, f[i - 1]>>]
           P == {k \in Nat : k <= n => Found(k)}
<1>1. Found(0)
  <2> DEFINE f == [i \in 0 .. 0 |-> first]
  <2>1. f \in [0 .. 0 -> S] /\ f[0] = first /\ \A i \in 1 .. 0 : f[i] = Step[<<i, f[i - 1]>>]
    OBVIOUS
  <2> HIDE DEF f
  <2> QED BY <2>1
<1>2. ASSUME NEW k \in Nat, k + 1 <= n, Found(k) PROVE Found(k + 1)
  <2>1. PICK g \in [0 .. k -> S] : g[0] = first /\ \A i \in 1 .. k : g[i] = Step[<<i, g[i - 1]>>]
    BY <1>2
  <2> DEFINE f == [i \in 0 .. k + 1 |-> IF i = k + 1 THEN Step[<<k + 1, g[k]>>] ELSE g[i]]
  <2>2. Step[<<k + 1, g[k]>>] \in S
    <3>1. <<k + 1, g[k]>> \in (1 .. n) \X S
      BY <2>1, <1>2
    <3> QED BY <3>1
  <2>3. f \in [0 .. k + 1 -> S]
    BY <2>2
  <2>4. f[0] = first
    BY <2>1
  <2>5. ASSUME NEW i \in 1 .. k + 1 PROVE f[i] = Step[<<i, f[i - 1]>>]
    <3>1. CASE i = k + 1
      <4>1. f[i - 1] = g[k] /\ f[i] = Step[<<k + 1, g[k]>>]
        BY <3>1
      <4> HIDE DEF f
      <4> QED BY <3>1, <4>1
    <3>2. CASE i \in 1 .. k
      <4>1. f[i - 1] = g[i - 1] /\ f[i] = g[i] /\ g[i] = Step[<<i, g[i - 1]>>]
        BY <3>2, <2>1
      <4> HIDE DEF f
      <4> QED BY <4>1
    <3> QED BY <3>1, <3>2
  <2> HIDE DEF f
  <2> QED BY <2>3, <2>4, <2>5
<1> HIDE DEF Found
<1>3. 0 \in P /\ \A k \in Nat : k \in P => k + 1 \in P
  BY <1>1, <1>2
<1>4. n \in P
  <2> HIDE DEF P
  <2> QED BY <1>3, SetInduction
<1> QED BY <1>4 DEF Found, Solves

-----------------------------------------------------------------------------
LEMMA BaseType == Base \in Nat /\ Base > 1 /\ LengthWidth \in Nat /\ LengthWidth > 0
BY SerializationAssumption

(* Multiplication as the step of a recursion. *)
LEMMA TimesBase == \A x \in Nat : Base * x \in Nat
BY BaseType

LEMMA RadixExists ==
    ASSUME NEW n \in Nat
    PROVE  \E f \in [0 .. n -> Nat] :
              /\ f[0] = 1
              /\ \A i \in 1 .. n : f[i] = Base * f[i - 1]
<1> DEFINE Step == [x \in (1 .. n) \X Nat |-> Base * x[2]]
<1>1. Step \in [(1 .. n) \X Nat -> Nat]
  BY TimesBase
<1>2. \A i \in 1 .. n, x \in Nat : Step[<<i, x>>] = Base * x
  OBVIOUS
<1> HIDE DEF Step
<1>3. 1 \in Nat
  OBVIOUS
<1>4. PICK f : Solves(f, n, Nat, 1, Step)
  BY <1>1, <1>3, Recursion
<1>5. \A i \in 1 .. n : i - 1 \in 0 .. n
  OBVIOUS
<1> QED BY <1>2, <1>4, <1>5 DEF Solves

LEMMA RadixDef ==
    /\ Radix \in [Nat -> Nat]
    /\ Radix[0] = 1
    /\ \A w \in Nat : Radix[w + 1] = Base * Radix[w]
<1> DEFINE Powers(f, n) == /\ f \in [0 .. n -> Nat]
                           /\ f[0] = 1
                           /\ \A i \in 1 .. n : f[i] = Base * f[i - 1]
           F(n) == CHOOSE f : Powers(f, n)
           G == [n \in Nat |-> F(n)[n]]
<1>1. ASSUME NEW n \in Nat PROVE Powers(F(n), n)
  <2>1. \E f : Powers(f, n)
    <3> HIDE DEF F
    <3> QED BY RadixExists
  <2> HIDE DEF Powers
  <2> QED BY <2>1, Zenon
<1>2. ASSUME NEW n \in Nat PROVE F(n + 1)[n] = F(n)[n]
  <2> DEFINE f == F(n)
             g == F(n + 1)
             P == {k \in Nat : k <= n => f[k] = g[k]}
  <2>1. Powers(f, n) /\ Powers(g, n + 1)
    <3> HIDE DEF F, Powers
    <3> QED BY <1>1
  <2> HIDE DEF f, g
  <2>2. 0 \in P
    BY <2>1
  <2>3. \A k \in Nat : k \in P => k + 1 \in P
    BY <2>1
  <2>4. n \in P
    <3> HIDE DEF P
    <3> QED BY <2>2, <2>3, SetInduction
  <2> QED BY <2>4 DEF f, g
<1>3. \A n \in Nat : F(n)[n] \in Nat /\ F(n + 1)[n + 1] = Base * F(n)[n] /\ F(0)[0] = 1
  <2> SUFFICES ASSUME NEW n \in Nat
               PROVE  F(n)[n] \in Nat /\ F(n + 1)[n + 1] = Base * F(n)[n] /\ F(0)[0] = 1
    OBVIOUS
  <2>1. Powers(F(n), n) /\ Powers(F(n + 1), n + 1) /\ Powers(F(0), 0)
    <3> HIDE DEF F, Powers
    <3> QED BY <1>1
  <2>2. F(n + 1)[n] = F(n)[n]
    <3> HIDE DEF F, Powers
    <3> QED BY <1>2
  <2> DEFINE f == F(n)
             g == F(n + 1)
  <2>3. f[n] \in Nat
    <3> HIDE DEF F
    <3> QED BY <2>1
  <2>4. g[n + 1] = Base * g[(n + 1) - 1] /\ (n + 1) - 1 = n
    <3> HIDE DEF F
    <3> QED BY <2>1
  <2>5. F(0)[0] = 1
    <3> HIDE DEF F
    <3> QED BY <2>1
  <2> HIDE DEF F, Powers
  <2> QED BY <2>2, <2>3, <2>4, <2>5
<1> HIDE DEF F
<1>4. G = [n \in Nat |-> IF n = 0 THEN 1 ELSE Base * G[n - 1]]
  BY <1>3
<1> DEFINE Def(f) == [n \in Nat |-> IF n = 0 THEN 1 ELSE Base * f[n - 1]]
<1>5. Radix = Def(Radix)
  <2>1. G = Def(G)
    BY <1>4
  <2>2. Radix = CHOOSE f : f = Def(f)
    BY DEF Radix
  <2> HIDE DEF Def, G
  <2> QED BY <2>1, <2>2, Zenon
<1> HIDE DEF Powers, G
<1>6. Radix[0] = 1 /\ \A w \in Nat : Radix[w + 1] = Base * Radix[w]
  BY <1>5
<1>7. DOMAIN Radix = Nat /\ Radix = [n \in Nat |-> Radix[n]]
  BY <1>5
<1>8. \A w \in Nat : Radix[w] \in Nat
  <2> DEFINE P == {w \in Nat : Radix[w] \in Nat}
  <2>1. 0 \in P /\ \A w \in Nat : w \in P => w + 1 \in P
    BY <1>6, TimesBase
  <2> HIDE DEF P
  <2>2. \A w \in Nat : w \in P
    BY <2>1, SetInduction
  <2> QED BY <2>2 DEF P
<1> QED BY <1>6, <1>7, <1>8

LEMMA RadixPositive == \A w \in Nat : Radix[w] \in Nat /\ Radix[w] > 0
<1> DEFINE P == {w \in Nat : Radix[w] > 0}
<1>1. 0 \in P
  BY RadixDef
<1>2. ASSUME NEW w \in Nat, w \in P PROVE w + 1 \in P
  <2>1. ASSUME NEW r \in Nat, r > 0 PROVE Base * r > 0
    BY <2>1, BaseType
  <2> QED BY <1>2, <2>1, RadixDef
<1>3. \A w \in Nat : w \in P
  <2> HIDE DEF P
  <2> QED BY <1>1, <1>2, SetInduction
<1> QED BY <1>3, RadixDef

-----------------------------------------------------------------------------
(* Division. *)
LEMMA DivMod ==
    ASSUME NEW x \in Nat, NEW d \in Nat, d > 0
    PROVE  /\ x \div d \in Nat
           /\ x % d \in Nat /\ x % d < d
           /\ x = d * (x \div d) + (x % d)
OBVIOUS

LEMMA DivUnique ==
    ASSUME NEW d \in Nat, d > 0, NEW q \in Nat, NEW r \in Nat, r < d
    PROVE  (d * q + r) \div d = q /\ (d * q + r) % d = r
OBVIOUS

LEMMA DivDiv ==
    ASSUME NEW x \in Nat, NEW a \in Nat, a > 0, NEW b \in Nat, b > 0
    PROVE  (x \div a) \div b = x \div (b * a)
OBVIOUS

(* The digits before the last make the quotient of the division by Base.   *)
LEMMA Quotients ==
    ASSUME NEW n \in Nat, NEW w \in Nat
    PROVE  (n \div Radix[w]) \div Base = n \div Radix[w + 1]
<1> DEFINE a == Radix[w]
<1>1. a \in Nat /\ a > 0 /\ Radix[w + 1] = Base * a
  BY RadixDef, RadixPositive
<1>2. Base \in Nat /\ Base > 0
  BY BaseType
<1> HIDE DEF a
<1>3. (n \div a) \div Base = n \div (Base * a)
  BY <1>1, <1>2, DivDiv, Zenon
<1>4. (n \div a) \div Base = n \div Radix[w + 1]
  BY <1>1, <1>3, Zenon
<1> QED BY <1>4 DEF a

-----------------------------------------------------------------------------
(* What BigEndian computes, number by number. *)
Spells(f, bytes) ==
    /\ f \in [0 .. Len(bytes) -> Nat]
    /\ f[0] = 0
    /\ \A i \in 1 .. Len(bytes) : f[i] = Base * f[i - 1] + bytes[i]

LEMMA BigEndianDef ==
    ASSUME NEW bytes \in Bytes
    PROVE  \E f : Spells(f, bytes) /\ BigEndian(bytes) = f[Len(bytes)]
<1> DEFINE n == Len(bytes)
           Step == [x \in (1 .. n) \X Nat |-> Base * x[2] + bytes[x[1]]]
<1>1. n \in Nat /\ 0 \in Nat /\ \A i \in 1 .. n : bytes[i] \in Nat
  BY BaseType DEF Bytes, Byte
<1> HIDE DEF n
<1>2. \A i \in 1 .. n, x \in Nat : Base * x + bytes[i] \in Nat
  BY <1>1, TimesBase
<1>3. Step \in [(1 .. n) \X Nat -> Nat] /\ \A i \in 1 .. n, x \in Nat : Step[<<i, x>>] = Base * x + bytes[i]
  BY <1>2
<1>4. PICK f : Solves(f, n, Nat, 0, Step)
  <2> HIDE DEF Step
  <2> QED BY <1>1, <1>3, Recursion
<1> HIDE DEF Step
<1>5. \A i \in 1 .. n : i - 1 \in 0 .. n
  BY <1>1
<1>6. /\ f \in [0 .. n -> Nat] /\ f[0] = 0
      /\ \A i \in 1 .. n : f[i] = Base * f[i - 1] + bytes[i]
  BY <1>3, <1>4, <1>5 DEF Solves
<1> DEFINE Def(g) == [i \in 0 .. n |-> IF i = 0 THEN 0 ELSE Base * g[i - 1] + bytes[i]]
<1>7. f = Def(f)
  BY <1>1, <1>6
<1>8. ASSUME NEW g, g = Def(g) PROVE g[n] = f[n]
  <2> DEFINE P == {k \in Nat : k <= n => g[k] = f[k]}
  <2>1. 0 \in P
    BY <1>7, <1>8, <1>1
  <2>2. ASSUME NEW k \in Nat, k \in P PROVE k + 1 \in P
    BY <1>7, <1>8, <2>2, <1>1
  <2> HIDE DEF P
  <2>3. n \in P
    BY <2>1, <2>2, SetInduction, <1>1
  <2> QED BY <2>3 DEF P
<1>9. (CHOOSE g : g = Def(g)) = Def((CHOOSE g : g = Def(g)))
  <2> HIDE DEF Def
  <2> QED BY <1>7, Zenon
<1>10. BigEndian(bytes) = f[n]
  BY <1>8, <1>9 DEF BigEndian, n
<1> QED BY <1>6, <1>10 DEF Spells, n

(* A number that fits is spelled by its digits. *)
LEMMA DigitsType ==
    ASSUME NEW n \in Nat, NEW w \in Nat
    PROVE  Digits(n, w) \in Bytes /\ Len(Digits(n, w)) = w
<1>1. ASSUME NEW i \in 1 .. w PROVE (n \div Radix[w - i]) % Base \in Byte
  <2>1. Radix[w - i] \in Nat /\ Radix[w - i] > 0
    BY RadixPositive
  <2>2. n \div Radix[w - i] \in Nat
    BY <2>1, DivMod
  <2> QED BY <2>2, BaseType DEF Byte
<1>2. Digits(n, w) \in [1 .. w -> Byte]
  BY <1>1 DEF Digits
<1> QED BY <1>2 DEF Bytes

LEMMA DigitsSpell ==
    ASSUME NEW w \in Nat, NEW n \in 0 .. Radix[w] - 1
    PROVE  BigEndian(Digits(n, w)) = n
<1> DEFINE bytes == Digits(n, w)
<1>1. n \in Nat /\ bytes \in Bytes /\ Len(bytes) = w
  BY DigitsType, RadixPositive
<1>2. PICK f : Spells(f, bytes) /\ BigEndian(bytes) = f[w]
  BY <1>1, BigEndianDef
<1> DEFINE P == {i \in Nat : i <= w => f[i] = n \div Radix[w - i]}
<1>3. 0 \in P
  <2>1. Radix[w] \in Nat /\ Radix[w] > 0 /\ n < Radix[w]
    BY RadixPositive
  <2>2. n \div Radix[w] = 0
    BY <2>1, <1>1
  <2> QED BY <2>2, <1>2 DEF Spells
<1>4. ASSUME NEW i \in Nat, i \in P, i + 1 <= w PROVE i + 1 \in P
  <2> DEFINE j == w - (i + 1)
  <2>1. j \in Nat /\ w - i = j + 1
    BY <1>4
  <2>2. f[i + 1] = Base * f[i] + bytes[i + 1]
    BY <1>1, <1>2, <1>4 DEF Spells
  <2>3. f[i] = (n \div Radix[j]) \div Base
    BY <1>1, <1>4, <2>1, Quotients
  <2>4. bytes[i + 1] = (n \div Radix[j]) % Base
    BY <1>4 DEF Digits
  <2>5. n \div Radix[j] \in Nat
    BY <1>1, <2>1, RadixPositive, DivMod
  <2>6. f[i + 1] = n \div Radix[j]
    <3>1. \A q \in Nat : q = Base * (q \div Base) + (q % Base)
      BY DivMod, BaseType
    <3> HIDE DEF bytes
    <3> QED BY <2>2, <2>3, <2>4, <2>5, <3>1
  <2> QED BY <2>6
<1>5. w \in P
  <2>1. \A i \in Nat : i \in P => i + 1 \in P
    BY <1>4
  <2> HIDE DEF P
  <2> QED BY <1>3, <2>1, SetInduction
<1>6. f[w] = n \div 1
  BY <1>5, RadixDef
<1> QED BY <1>1, <1>2, <1>6

(* Any bytes are the digits of the number they spell. *)
LEMMA SpelledFits ==
    ASSUME NEW bytes \in Bytes
    PROVE  /\ BigEndian(bytes) \in 0 .. Radix[Len(bytes)] - 1
           /\ Digits(BigEndian(bytes), Len(bytes)) = bytes
<1> DEFINE w == Len(bytes)
           n == BigEndian(bytes)
<1>1. w \in Nat /\ \A i \in 1 .. w : bytes[i] \in Nat /\ bytes[i] < Base
  BY BaseType DEF Bytes, Byte
<1>2. PICK f : Spells(f, bytes) /\ n = f[w]
  BY BigEndianDef
<1> HIDE DEF w, n
<1>3. f \in [0 .. w -> Nat] /\ f[0] = 0 /\ \A i \in 1 .. w : f[i] = Base * f[i - 1] + bytes[i]
  BY <1>2 DEF Spells, w
<1>4. \A i \in Nat : i <= w => f[i] < Radix[i]
  <2> DEFINE P == {i \in Nat : i <= w => f[i] < Radix[i]}
  <2>1. 0 \in P
    BY <1>3, RadixDef
  <2>2. ASSUME NEW i \in Nat, i \in P, i + 1 <= w PROVE f[i + 1] < Radix[i + 1]
    <3>1. f[i + 1] = Base * f[i] + bytes[i + 1] /\ f[i] \in Nat /\ f[i] < Radix[i]
      BY <1>1, <1>3, <2>2
    <3>2. ASSUME NEW x \in Nat, NEW r \in Nat, x < r, NEW b \in Nat, b < Base
          PROVE  Base * x + b < Base * r
      <4>1. Base * x + Base <= Base * r
        BY <3>2, BaseType
      <4> QED BY <3>2, <4>1, BaseType
    <3>3. bytes[i + 1] \in Nat /\ bytes[i + 1] < Base
      BY <1>1, <2>2
    <3> QED BY <3>1, <3>2, <3>3, RadixDef
  <2>3. \A i \in Nat : i \in P => i + 1 \in P
    BY <2>2
  <2>4. \A i \in Nat : i \in P
    <3> HIDE DEF P
    <3> QED BY <2>1, <2>3, SetInduction
  <2> QED BY <2>4
<1>5. \A i \in 1 .. w : f[i] \div Base = f[i - 1] /\ f[i] % Base = bytes[i]
  <2> TAKE i \in 1 .. w
  <2>1. f[i] = Base * f[i - 1] + bytes[i] /\ f[i - 1] \in Nat /\ bytes[i] \in Nat /\ bytes[i] < Base
    BY <1>1, <1>3
  <2>2. \A q \in Nat, r \in Nat : r < Base => (Base * q + r) \div Base = q /\ (Base * q + r) % Base = r
    BY DivUnique, BaseType
  <2> QED BY <2>1, <2>2
<1>6. \A j \in Nat : j <= w => n \div Radix[j] = f[w - j]
  <2> DEFINE P == {j \in Nat : j <= w => n \div Radix[j] = f[w - j]}
  <2>1. 0 \in P
    <3>1. n \in Nat /\ n \div 1 = n
      BY <1>1, <1>2, <1>3
    <3> QED BY <3>1, <1>1, <1>2, RadixDef
  <2>2. ASSUME NEW j \in Nat, j \in P, j + 1 <= w PROVE n \div Radix[j + 1] = f[w - (j + 1)]
    <3>1. n \div Radix[j] = f[w - j] /\ w - j \in 1 .. w /\ n \in Nat
      BY <1>1, <1>2, <1>3, <2>2
    <3>2. f[w - j] \div Base = f[(w - j) - 1]
      BY <3>1, <1>5
    <3>3. (w - j) - 1 = w - (j + 1)
      BY <1>1
    <3> QED BY <3>1, <3>2, <3>3, Quotients
  <2>3. \A j \in Nat : j \in P => j + 1 \in P
    BY <2>2
  <2>4. \A j \in Nat : j \in P
    <3> HIDE DEF P
    <3> QED BY <2>1, <2>3, SetInduction
  <2> QED BY <2>4
<1>7. n \in 0 .. Radix[w] - 1
  <2>1. n \in Nat /\ n < Radix[w]
    BY <1>1, <1>2, <1>3, <1>4
  <2> QED BY <2>1, <1>1, RadixPositive
<1>8. Digits(n, w) = bytes
  <2>1. Digits(n, w) \in Bytes /\ Len(Digits(n, w)) = w
    BY <1>1, <1>7, DigitsType, RadixPositive
  <2>2. ASSUME NEW i \in 1 .. w PROVE Digits(n, w)[i] = bytes[i]
    <3>1. Digits(n, w)[i] = (n \div Radix[w - i]) % Base
      BY DEF Digits
    <3>2. n \div Radix[w - i] = f[w - (w - i)] /\ w - (w - i) = i
      BY <1>1, <1>6
    <3> QED BY <3>1, <3>2, <1>5
  <2> QED BY <2>1, <2>2, SeqEqual DEF Bytes, w
<1> QED BY <1>7, <1>8 DEF w, n

-----------------------------------------------------------------------------
(* What a codec promises. *)
ReadsBack(c) ==
    \A v \in c.values, rest \in Bytes :
        c.read[c.write[v] \o rest] = IF v \in c.readable THEN Value(v, rest) ELSE Throws

ReadsOnly(c) ==
    \A b \in Bytes :
        \/ c.read[b] = Throws
        \/ c.read[b] = Undefined
        \/ \E v \in c.readable, rest \in Bytes :
              c.read[b] = Value(v, rest) /\ b = c.write[v] \o rest

StaysUndefined(c) ==
    \A b, more \in Bytes : c.read[b] = Undefined => c.read[b \o more] = Undefined

Faithful(c) ==
    /\ c.readable \subseteq c.values
    /\ \A v \in c.values : c.write[v] \in Bytes
    /\ ReadsBack(c) /\ ReadsOnly(c) /\ StaysUndefined(c)

LEMMA ResultsDiffer ==
    /\ Throws # Undefined
    /\ Throws.status # "value" /\ Undefined.status # "value"
    /\ \A v, rest : /\ Value(v, rest).status = "value"
                    /\ Value(v, rest).value = v /\ Value(v, rest).rest = rest
                    /\ Value(v, rest) # Throws /\ Value(v, rest) # Undefined
<1>1. Throws.status = "throws" /\ Undefined.status = "undefined"
  BY DEF Throws, Undefined
<1>2. ASSUME NEW v, NEW rest
      PROVE  Value(v, rest).status = "value" /\ Value(v, rest).value = v /\ Value(v, rest).rest = rest
  BY DEF Value
<1>3. "value" # "throws" /\ "value" # "undefined" /\ "throws" # "undefined"
  OBVIOUS
<1>4. Throws # Undefined
  BY <1>1, <1>3
<1>5. Throws.status # "value" /\ Undefined.status # "value"
  BY <1>1, <1>3
<1>6. ASSUME NEW v, NEW rest PROVE Value(v, rest) # Throws /\ Value(v, rest) # Undefined
  BY <1>1, <1>2, <1>3
<1> QED BY <1>2, <1>4, <1>5, <1>6

(* Two sequences of bytes, one after the other, and where they are cut.    *)
LEMMA CutAt ==
    ASSUME NEW a \in Bytes, NEW b \in Bytes
    PROVE  /\ a \o b \in Bytes
           /\ Len(a \o b) = Len(a) + Len(b)
           /\ SubSeq(a \o b, 1, Len(a)) = a
           /\ SubSeq(a \o b, Len(a) + 1, Len(a \o b)) = b
<1> DEFINE s == a \o b
           m == Len(a)
           n == Len(s)
<1>1. /\ s \in Bytes /\ n = m + Len(b) /\ m \in Nat /\ Len(b) \in Nat
      /\ \A i \in 1 .. m + Len(b) : s[i] = IF i <= m THEN a[i] ELSE b[i - m]
  BY ConcatProperties DEF Bytes
<1>2. \A i \in 1 .. n : s[i] \in Byte
  BY <1>1 DEF Bytes
<1> HIDE DEF s, m, n
<1>3. /\ SubSeq(s, 1, m) \in Seq(Byte) /\ Len(SubSeq(s, 1, m)) = m
      /\ \A i \in 1 .. m : SubSeq(s, 1, m)[i] = s[1 + i - 1]
  BY <1>1, <1>2, SubSeqProperties
<1>4. /\ SubSeq(s, m + 1, n) \in Seq(Byte) /\ Len(SubSeq(s, m + 1, n)) = Len(b)
      /\ \A i \in 1 .. Len(b) : SubSeq(s, m + 1, n)[i] = s[m + 1 + i - 1]
  BY <1>1, <1>2, SubSeqProperties
<1>5. SubSeq(s, 1, m) = a
  <2>1. \A i \in 1 .. m : SubSeq(s, 1, m)[i] = a[i]
    BY <1>1, <1>3
  <2> QED BY <1>3, <2>1, SeqEqual DEF Bytes, m
<1>6. SubSeq(s, m + 1, n) = b
  <2>1. ASSUME NEW i \in 1 .. Len(b) PROVE SubSeq(s, m + 1, n)[i] = b[i]
    <3>1. m + 1 + i - 1 = m + i /\ m + i \in 1 .. m + Len(b) /\ ~(m + i <= m) /\ (m + i) - m = i
      BY <1>1
    <3>2. s[m + i] = b[i]
      BY <1>1, <3>1
    <3> QED BY <1>4, <3>1, <3>2
  <2> QED BY <1>4, <2>1, SeqEqual DEF Bytes
<1> QED BY <1>1, <1>5, <1>6 DEF s, m, n

LEMMA CutBytes ==
    ASSUME NEW b \in Bytes, NEW w \in Nat, w <= Len(b)
    PROVE  /\ SubSeq(b, 1, w) \in Bytes /\ Len(SubSeq(b, 1, w)) = w
           /\ SubSeq(b, w + 1, Len(b)) \in Bytes
           /\ Len(SubSeq(b, w + 1, Len(b))) = Len(b) - w
           /\ b = SubSeq(b, 1, w) \o SubSeq(b, w + 1, Len(b))
<1>1. Len(b) \in Nat /\ \A i \in 1 .. Len(b) : b[i] \in Byte
  BY DEF Bytes
<1>2. SubSeq(b, 1, w) \in Bytes /\ Len(SubSeq(b, 1, w)) = w
  BY <1>1, SubSeqProperties DEF Bytes
<1>3. SubSeq(b, w + 1, Len(b)) \in Bytes /\ Len(SubSeq(b, w + 1, Len(b))) = Len(b) - w
  BY <1>1, SubSeqProperties DEF Bytes
<1>4. SubSeq(b, 1, w) \o SubSeq(b, w + 1, Len(b)) = SubSeq(b, 1, Len(b))
  <2>1. 1 \in 1 .. Len(b) + 1 /\ w \in 1 - 1 .. Len(b) /\ Len(b) \in w .. Len(b)
    BY <1>1
  <2> QED BY <2>1, ConcatAdjacentSubSeq DEF Bytes
<1>5. SubSeq(b, 1, Len(b)) = b
  BY SubSeqFull DEF Bytes
<1> QED BY <1>2, <1>3, <1>4, <1>5

(* Sequences that can be joined. *)
Joinable(B) ==
    /\ <<>> \in B /\ Len(<<>>) = 0
    /\ \A a \in B : Len(a) \in Nat /\ (Len(a) = 0 => a = <<>>)
    /\ \A a, b \in B : a \o b \in B
    /\ \A a \in B : a \o <<>> = a /\ <<>> \o a = a
    /\ \A a, b, c \in B : (a \o b) \o c = a \o (b \o c)

LEMMA SequencesJoin == \A S : Joinable(Seq(S))
<1> SUFFICES ASSUME NEW S PROVE Joinable(Seq(S))
  OBVIOUS
<1>1. <<>> \in Seq(S) /\ Len(<<>>) = 0
  BY EmptySeq
<1>2. \A a \in Seq(S) : Len(a) \in Nat /\ (Len(a) = 0 => a = <<>>)
  BY EmptySeq
<1>3. \A a, b \in Seq(S) : a \o b \in Seq(S)
  BY ConcatProperties
<1>4. \A a \in Seq(S) : a \o <<>> = a /\ <<>> \o a = a
  BY ConcatEmptySeq
<1>5. \A a, b, c \in Seq(S) : (a \o b) \o c = a \o (b \o c)
  BY ConcatAssociative
<1> QED BY <1>1, <1>2, <1>3, <1>4, <1>5 DEF Joinable

LEMMA Joining ==
    /\ <<>> \in Bytes /\ Len(<<>>) = 0
    /\ \A a \in Bytes : Len(a) \in Nat /\ (Len(a) = 0 => a = <<>>)
    /\ \A a, b \in Bytes : a \o b \in Bytes
    /\ \A a \in Bytes : a \o <<>> = a /\ <<>> \o a = a
    /\ \A a, b, c \in Bytes : (a \o b) \o c = a \o (b \o c)
<1>1. Joinable(Bytes)
  BY SequencesJoin, Zenon DEF Bytes
<1> QED BY <1>1 DEF Joinable

-----------------------------------------------------------------------------
(* Numbers. *)
LEMMA ReadNumber ==
    ASSUME NEW w \in Nat, NEW n \in 0 .. Radix[w] - 1, NEW rest \in Bytes
    PROVE  ReadUnsigned(w, Digits(n, w) \o rest) = Value(n, rest)
<1> DEFINE a == Digits(n, w)
           b == a \o rest
<1>1. a \in Bytes /\ Len(a) = w /\ BigEndian(a) = n
  BY DigitsType, DigitsSpell, RadixPositive
<1> HIDE DEF a
<1>2. /\ Len(b) = w + Len(rest) /\ Len(rest) \in Nat
      /\ SubSeq(b, 1, w) = a /\ SubSeq(b, w + 1, Len(b)) = rest
  <2>1. Len(rest) \in Nat
    BY Joining
  <2>2. /\ Len(b) = Len(a) + Len(rest) /\ SubSeq(b, 1, Len(a)) = a
        /\ SubSeq(b, Len(a) + 1, Len(b)) = rest
    BY <1>1, CutAt
  <2> HIDE DEF b
  <2> QED BY <1>1, <2>1, <2>2
<1>3. ~(Len(b) < w)
  BY <1>2
<1>4. ReadUnsigned(w, b) = Value(n, rest)
  <2> HIDE DEF b
  <2> QED BY <1>1, <1>2, <1>3 DEF ReadUnsigned
<1> QED BY <1>4 DEF a

LEMMA NumberRead ==
    ASSUME NEW w \in Nat, NEW b \in Bytes
    PROVE  \/ ReadUnsigned(w, b) = Throws
           \/ \E n \in 0 .. Radix[w] - 1, rest \in Bytes :
                 ReadUnsigned(w, b) = Value(n, rest) /\ b = Digits(n, w) \o rest
<1>1. CASE Len(b) < w
  BY <1>1 DEF ReadUnsigned
<1>2. CASE ~(Len(b) < w)
  <2> DEFINE a    == SubSeq(b, 1, w)
             rest == SubSeq(b, w + 1, Len(b))
  <2>1. w <= Len(b)
    BY <1>2, Joining
  <2>2. a \in Bytes /\ Len(a) = w /\ rest \in Bytes /\ b = a \o rest
    BY <2>1, CutBytes
  <2>3. ReadUnsigned(w, b) = Value(BigEndian(a), rest)
    BY <1>2 DEF ReadUnsigned
  <2> HIDE DEF a, rest
  <2>4. BigEndian(a) \in 0 .. Radix[w] - 1 /\ Digits(BigEndian(a), w) = a
    BY <2>2, SpelledFits
  <2> QED BY <2>2, <2>3, <2>4
<1> QED BY <1>1, <1>2

LEMMA UnsignedParts ==
    ASSUME NEW w
    PROVE  /\ Unsigned(w).values = 0 .. Radix[w] - 1
           /\ Unsigned(w).readable = 0 .. Radix[w] - 1
           /\ \A n \in 0 .. Radix[w] - 1 : Unsigned(w).write[n] = Digits(n, w)
           /\ \A b \in Bytes : Unsigned(w).read[b] = ReadUnsigned(w, b)
BY DEF Unsigned, Overloads

(* Unsigned integers of any width, which the lengths of strings and        *)
(* vectors and the indices of variants are as well.                        *)
THEOREM UnsignedFaithful ==
    ASSUME NEW w \in Nat
    PROVE  Faithful(Unsigned(w))
<1> DEFINE c == Unsigned(w)
           All == 0 .. Radix[w] - 1
<1>1. /\ c.values = All /\ c.readable = All
      /\ \A n \in All : c.write[n] = Digits(n, w)
      /\ \A b \in Bytes : c.read[b] = ReadUnsigned(w, b)
  BY UnsignedParts
<1>2. \A n \in All : n \in Nat /\ Digits(n, w) \in Bytes
  BY DigitsType, RadixPositive
<1> HIDE DEF c
<1>3. ReadsBack(c)
  <2> SUFFICES ASSUME NEW n \in All, NEW rest \in Bytes
               PROVE  c.read[c.write[n] \o rest] = Value(n, rest)
    BY <1>1 DEF ReadsBack
  <2>1. Digits(n, w) \o rest \in Bytes
    BY <1>2, Joining
  <2>2. ReadUnsigned(w, Digits(n, w) \o rest) = Value(n, rest)
    BY ReadNumber
  <2> QED BY <1>1, <2>1, <2>2
<1>4. ReadsOnly(c)
  <2> SUFFICES ASSUME NEW b \in Bytes, c.read[b] # Throws
               PROVE  \E v \in c.readable, rest \in Bytes :
                         c.read[b] = Value(v, rest) /\ b = c.write[v] \o rest
    BY DEF ReadsOnly
  <2>1. PICK n \in All, rest \in Bytes : ReadUnsigned(w, b) = Value(n, rest) /\ b = Digits(n, w) \o rest
    BY <1>1, NumberRead
  <2> HIDE DEF All
  <2>2. c.read[b] = Value(n, rest) /\ b = c.write[n] \o rest
    BY <1>1, <2>1
  <2> QED BY <1>1, <2>2
<1>5. StaysUndefined(c)
  BY <1>1, NumberRead, ResultsDiffer DEF StaysUndefined
<1> QED BY <1>1, <1>2, <1>3, <1>4, <1>5 DEF Faithful, c

-----------------------------------------------------------------------------
(* All other codecs read one part, choose by its value how the second part *)
(* is read, and join the two: c is f, then S[x], joined by J[x].           *)
ChainRead(r, S, J) ==
    IF r.status = "value"
    THEN LET q == S[r.value].read[r.rest]
         IN  IF q.status = "value" THEN Value(J[r.value][q.value], q.rest) ELSE q
    ELSE r

Chained(c, f, S, J) ==
    /\ c.readable \subseteq c.values
    /\ \A v \in c.values : \E x \in f.values : \E y \in S[x].values : v = J[x][y]
    /\ \A x \in f.values : \A y \in S[x].values :
          /\ J[x][y] \in c.values
          /\ c.write[J[x][y]] = f.write[x] \o S[x].write[y]
          /\ J[x][y] \in c.readable <=> x \in f.readable /\ y \in S[x].readable
    /\ \A b \in Bytes : c.read[b] = ChainRead(f.read[b], S, J)

LEMMA ChainStops ==
    ASSUME NEW S, NEW J
    PROVE  ChainRead(Throws, S, J) = Throws /\ ChainRead(Undefined, S, J) = Undefined
BY ResultsDiffer DEF ChainRead

LEMMA ChainStep ==
    ASSUME NEW S, NEW J, NEW x, NEW rest
    PROVE  /\ S[x].read[rest] = Throws => ChainRead(Value(x, rest), S, J) = Throws
           /\ S[x].read[rest] = Undefined => ChainRead(Value(x, rest), S, J) = Undefined
           /\ \A y, left : S[x].read[rest] = Value(y, left)
                 => ChainRead(Value(x, rest), S, J) = Value(J[x][y], left)
<1>1. ChainRead(Value(x, rest), S, J)
                = IF S[x].read[rest].status = "value"
                  THEN Value(J[x][S[x].read[rest].value], S[x].read[rest].rest)
                  ELSE S[x].read[rest]
  BY ResultsDiffer DEF ChainRead
<1> QED BY <1>1, ResultsDiffer

(* A codec that reads one part and then, knowing its value, a second one,  *)
(* is faithful if both are.  All the overloads for templates are of this   *)
(* form.                                                                   *)
THEOREM ChainedFaithful ==
    ASSUME NEW c, NEW f, NEW S, NEW J,
           Faithful(f), \A x \in f.values : Faithful(S[x]), Chained(c, f, S, J)
    PROVE  Faithful(c)
<1>1. ASSUME NEW x \in f.values, NEW y \in S[x].values
      PROVE  /\ f.write[x] \in Bytes /\ S[x].write[y] \in Bytes
             /\ c.write[J[x][y]] = f.write[x] \o S[x].write[y]
             /\ c.write[J[x][y]] \in Bytes
  <2>1. f.write[x] \in Bytes /\ S[x].write[y] \in Bytes
    BY DEF Faithful
  <2>2. c.write[J[x][y]] = f.write[x] \o S[x].write[y]
    BY DEF Chained
  <2> QED BY <2>1, <2>2, Joining
<1>2. ASSUME NEW v \in c.values
      PROVE  \E x \in f.values : \E y \in S[x].values : v = J[x][y]
  BY DEF Chained
<1>3. \A v \in c.values : c.write[v] \in Bytes
  BY <1>1, <1>2
<1>4. ReadsBack(c)
  <2> SUFFICES ASSUME NEW v \in c.values, NEW rest \in Bytes
               PROVE  c.read[c.write[v] \o rest] = IF v \in c.readable THEN Value(v, rest) ELSE Throws
    BY DEF ReadsBack
  <2>1. PICK x \in f.values : \E y \in S[x].values : v = J[x][y]
    BY <1>2
  <2>2. PICK y \in S[x].values : v = J[x][y]
    BY <2>1
  <2> DEFINE left == S[x].write[y] \o rest
             all  == c.write[v] \o rest
  <2>3. left \in Bytes /\ all \in Bytes /\ all = f.write[x] \o left
    <3>1. /\ c.write[v] = f.write[x] \o S[x].write[y]
          /\ f.write[x] \in Bytes /\ S[x].write[y] \in Bytes /\ c.write[v] \in Bytes
      BY <1>1, <2>2
    <3>2. left \in Bytes /\ all \in Bytes
      BY <3>1, Joining
    <3>3. (f.write[x] \o S[x].write[y]) \o rest = f.write[x] \o (S[x].write[y] \o rest)
      BY <3>1, Joining
    <3> QED BY <3>1, <3>2, <3>3
  <2>4. f.read[all] = IF x \in f.readable THEN Value(x, left) ELSE Throws
    BY <2>3 DEF Faithful, ReadsBack
  <2>5. S[x].read[left] = IF y \in S[x].readable THEN Value(y, rest) ELSE Throws
    BY DEF Faithful, ReadsBack
  <2>6. c.read[all] = ChainRead(f.read[all], S, J)
    BY <2>3 DEF Chained
  <2>7. v \in c.readable <=> x \in f.readable /\ y \in S[x].readable
    BY <2>2 DEF Chained
  <2> HIDE DEF left, all
  <2>8. CASE x \in f.readable /\ y \in S[x].readable
    <3>1. ChainRead(Value(x, left), S, J) = Value(J[x][y], rest)
      BY <2>5, <2>8, ChainStep
    <3> QED BY <2>2, <2>4, <2>6, <2>7, <2>8, <3>1 DEF all
  <2>9. CASE x \in f.readable /\ y \notin S[x].readable
    <3>1. ChainRead(Value(x, left), S, J) = Throws
      BY <2>5, <2>9, ChainStep
    <3> QED BY <2>4, <2>6, <2>7, <2>9, <3>1 DEF all
  <2>10. CASE x \notin f.readable
    BY <2>4, <2>6, <2>7, <2>10, ChainStops DEF all
  <2> QED BY <2>8, <2>9, <2>10
<1>5. ReadsOnly(c)
  <2> SUFFICES ASSUME NEW b \in Bytes, c.read[b] # Throws, c.read[b] # Undefined
               PROVE  \E v \in c.readable, rest \in Bytes :
                         c.read[b] = Value(v, rest) /\ b = c.write[v] \o rest
    BY DEF ReadsOnly
  <2>1. c.read[b] = ChainRead(f.read[b], S, J)
    BY DEF Chained
  <2>2. f.read[b] # Throws /\ f.read[b] # Undefined
    BY <2>1, ChainStops
  <2>3. PICK x \in f.readable, left \in Bytes : f.read[b] = Value(x, left) /\ b = f.write[x] \o left
    BY <2>2 DEF Faithful, ReadsOnly
  <2>4. x \in f.values /\ Faithful(S[x])
    BY DEF Faithful
  <2>5. S[x].read[left] # Throws /\ S[x].read[left] # Undefined
    <3>1. c.read[b] = ChainRead(Value(x, left), S, J)
      BY <2>1, <2>3
    <3> QED BY <3>1, ChainStep
  <2>6. PICK y \in S[x].readable, rest \in Bytes :
           S[x].read[left] = Value(y, rest) /\ left = S[x].write[y] \o rest
    BY <2>4, <2>5 DEF Faithful, ReadsOnly
  <2>7. y \in S[x].values
    BY <2>4 DEF Faithful
  <2>8. c.read[b] = Value(J[x][y], rest)
    <3>1. c.read[b] = ChainRead(Value(x, left), S, J)
      BY <2>1, <2>3
    <3>2. S[x].read[left] = Value(y, rest)
      BY <2>6
    <3> QED BY <3>1, <3>2, ChainStep
  <2>9. J[x][y] \in c.readable
    BY <2>4, <2>7 DEF Chained
  <2>10. b = c.write[J[x][y]] \o rest
    <3>1. /\ c.write[J[x][y]] = f.write[x] \o S[x].write[y]
          /\ f.write[x] \in Bytes /\ S[x].write[y] \in Bytes
      BY <1>1, <2>4, <2>7
    <3>2. (f.write[x] \o S[x].write[y]) \o rest = f.write[x] \o (S[x].write[y] \o rest)
      BY <3>1, Joining
    <3> QED BY <2>3, <2>6, <3>1, <3>2
  <2> QED BY <2>8, <2>9, <2>10
<1>6. StaysUndefined(c)
  <2> SUFFICES ASSUME NEW b \in Bytes, NEW more \in Bytes, c.read[b] = Undefined
               PROVE  c.read[b \o more] = Undefined
    BY DEF StaysUndefined
  <2>1. b \o more \in Bytes
    BY Joining
  <2>2. c.read[b] = ChainRead(f.read[b], S, J) /\ c.read[b \o more] = ChainRead(f.read[b \o more], S, J)
    BY <2>1 DEF Chained
  <2>3. CASE f.read[b] = Undefined
    <3>1. f.read[b \o more] = Undefined
      BY <2>3 DEF Faithful, StaysUndefined
    <3> QED BY <2>2, <3>1, ChainStops
  <2>4. CASE f.read[b] # Undefined
    <3>1. f.read[b] # Throws
      BY <2>2, ChainStops, ResultsDiffer
    <3>2. PICK x \in f.readable, left \in Bytes : f.read[b] = Value(x, left) /\ b = f.write[x] \o left
      BY <2>4, <3>1 DEF Faithful, ReadsOnly
    <3>3. x \in f.values /\ Faithful(S[x]) /\ f.write[x] \in Bytes
      BY DEF Faithful
    <3>4. S[x].read[left] = Undefined
      <4>1. S[x].read[left] # Throws
        BY <2>2, <3>2, ChainStep, ResultsDiffer
      <4>2. \A y, rest : S[x].read[left] # Value(y, rest)
        BY <2>2, <3>2, ChainStep, ResultsDiffer
      <4> QED BY <3>3, <4>1, <4>2 DEF Faithful, ReadsOnly
    <3>5. S[x].read[left \o more] = Undefined
      BY <3>3, <3>4 DEF Faithful, StaysUndefined
    <3>6. b \o more = f.write[x] \o (left \o more) /\ left \o more \in Bytes
      BY <3>2, <3>3, Joining
    <3>7. f.read[b \o more] = Value(x, left \o more)
      BY <3>3, <3>6 DEF Faithful, ReadsBack
    <3> QED BY <2>2, <3>5, <3>7, ChainStep
  <2> QED BY <2>3, <2>4
<1> QED BY <1>3, <1>4, <1>5, <1>6 DEF Faithful, Chained

-----------------------------------------------------------------------------
(* What FlattenSeq computes, sequence by sequence. *)
Flattens(f, seqs, B) ==
    /\ f \in [0 .. Len(seqs) -> B]
    /\ f[0] = <<>>
    /\ \A i \in 1 .. Len(seqs) : f[i] = f[i - 1] \o seqs[i]

LEMMA FlattenDef ==
    ASSUME NEW B, Joinable(B), NEW seqs \in Seq(B)
    PROVE  \E f : Flattens(f, seqs, B) /\ FlattenSeq(seqs) = f[Len(seqs)]
<1> DEFINE n == Len(seqs)
           Step == [x \in (1 .. n) \X B |-> x[2] \o seqs[x[1]]]
<1>1. n \in Nat /\ <<>> \in B /\ \A i \in 1 .. n : seqs[i] \in B
  BY DEF Joinable
<1>2. n = 0 => seqs = <<>>
  BY EmptySeq
<1> HIDE DEF n
<1>3. \A i \in 1 .. n, b \in B : b \o seqs[i] \in B
  BY <1>1 DEF Joinable
<1>4. Step \in [(1 .. n) \X B -> B] /\ \A i \in 1 .. n, b \in B : Step[<<i, b>>] = b \o seqs[i]
  BY <1>3
<1>5. PICK f : Solves(f, n, B, <<>>, Step)
  <2> HIDE DEF Step
  <2> QED BY <1>1, <1>4, Recursion
<1> HIDE DEF Step
<1>6. \A i \in 1 .. n : i - 1 \in 0 .. n
  BY <1>1
<1>7. /\ f \in [0 .. n -> B] /\ f[0] = <<>>
      /\ \A i \in 1 .. n : f[i] = f[i - 1] \o seqs[i]
  BY <1>4, <1>5, <1>6 DEF Solves
<1>8. CASE n = 0
  BY <1>2, <1>7, <1>8 DEF FlattenSeq, Flattens, n
<1>9. CASE n # 0
  <2> DEFINE h == [i \in 1 .. n |-> f[i]]
             Def(g) == [i \in 1 .. n |-> IF i = 1 THEN seqs[i] ELSE g[i - 1] \o seqs[i]]
  <2>1. f[1] = seqs[1]
    <3>1. 1 \in 1 .. n /\ 1 - 1 = 0
      BY <1>1, <1>9
    <3>2. f[1] = f[1 - 1] \o seqs[1]
      BY <1>7, <3>1
    <3>3. f[1] = <<>> \o seqs[1] /\ seqs[1] \in B
      BY <1>1, <1>7, <3>1, <3>2
    <3> QED BY <3>3 DEF Joinable
  <2>2. h = Def(h)
    <3>1. ASSUME NEW i \in 1 .. n
          PROVE  f[i] = IF i = 1 THEN seqs[i] ELSE h[i - 1] \o seqs[i]
      <4>1. CASE i = 1
        BY <2>1, <4>1
      <4>2. CASE i # 1
        <5>1. f[i] = f[i - 1] \o seqs[i]
          BY <1>7
        <5>2. i - 1 \in 1 .. n
          BY <1>1, <4>2
        <5>3. h[i - 1] = f[i - 1]
          BY <5>2
        <5> HIDE DEF h
        <5> QED BY <4>2, <5>1, <5>3, Zenon
      <4> QED BY <4>1, <4>2
    <3> QED BY <3>1, Zenon
  <2>3. ASSUME NEW g, g = Def(g) PROVE g[n] = f[n]
    <3> DEFINE P == {k \in Nat : k + 1 <= n => g[k + 1] = f[k + 1]}
    <3>1. 0 \in P
      BY <2>1, <2>3, <1>1
    <3>2. ASSUME NEW k \in Nat, k \in P PROVE k + 1 \in P
      <4> SUFFICES ASSUME k + 2 <= n PROVE g[k + 2] = f[k + 2]
        OBVIOUS
      <4>1. k + 2 \in 1 .. n /\ k + 2 # 1 /\ (k + 2) - 1 = k + 1
        BY <1>1
      <4>2. g[k + 2] = g[k + 1] \o seqs[k + 2]
        <5>1. g[k + 2] = g[(k + 2) - 1] \o seqs[k + 2]
          BY <2>3, <4>1, Zenon
        <5> QED BY <4>1, <5>1, Zenon
      <4>3. f[k + 2] = f[k + 1] \o seqs[k + 2]
        <5>1. f[k + 2] = f[(k + 2) - 1] \o seqs[k + 2]
          BY <1>7, <4>1, Zenon
        <5> QED BY <4>1, <5>1, Zenon
      <4>4. g[k + 1] = f[k + 1]
        BY <1>1, <3>2
      <4> QED BY <4>2, <4>3, <4>4, Zenon
    <3> HIDE DEF P
    <3>3. n - 1 \in P
      BY <3>1, <3>2, SetInduction, <1>1, <1>9
    <3> QED BY <3>3, <1>1 DEF P
  <2>4. (CHOOSE g : g = Def(g)) = Def((CHOOSE g : g = Def(g)))
    <3> HIDE DEF Def, h
    <3> QED BY <2>2, Zenon
  <2>5. FlattenSeq(seqs) = f[n]
    BY <2>3, <2>4, <1>9 DEF FlattenSeq, n
  <2> QED BY <1>7, <2>5 DEF Flattens, n
<1> QED BY <1>8, <1>9

LEMMA FlattenAppend ==
    ASSUME NEW B, Joinable(B), NEW seqs \in Seq(B), NEW last \in B
    PROVE  /\ FlattenSeq(seqs) \in B
           /\ FlattenSeq(Append(seqs, last)) = FlattenSeq(seqs) \o last
<1> DEFINE n == Len(seqs)
           all == Append(seqs, last)
<1>1. /\ all \in Seq(B) /\ n \in Nat /\ Len(all) = n + 1 /\ all[n + 1] = last
      /\ \A i \in 1 .. n : all[i] = seqs[i]
  BY AppendProperties
<1>2. PICK f : Flattens(f, seqs, B) /\ FlattenSeq(seqs) = f[n]
  BY FlattenDef
<1> HIDE DEF all
<1>3. PICK g : Flattens(g, all, B) /\ FlattenSeq(all) = g[n + 1]
  BY <1>1, FlattenDef
<1>4. /\ f \in [0 .. n -> B] /\ f[0] = <<>>
      /\ \A i \in 1 .. n : f[i] = f[i - 1] \o seqs[i]
  BY <1>2 DEF Flattens
<1>5. g[0] = <<>> /\ \A i \in 1 .. n + 1 : g[i] = g[i - 1] \o all[i]
  BY <1>1, <1>3 DEF Flattens
<1> HIDE DEF n
<1>6. g[n] = f[n]
  <2> DEFINE P == {k \in Nat : k <= n => g[k] = f[k]}
  <2>1. 0 \in P
    BY <1>4, <1>5
  <2>2. ASSUME NEW k \in Nat, k \in P PROVE k + 1 \in P
    <3> SUFFICES ASSUME k + 1 <= n PROVE g[k + 1] = f[k + 1]
      OBVIOUS
    <3>1. k + 1 \in 1 .. n /\ k + 1 \in 1 .. n + 1 /\ (k + 1) - 1 = k
      BY <1>1
    <3>2. g[k + 1] = g[k] \o seqs[k + 1]
      BY <1>1, <1>5, <3>1, Zenon
    <3>3. f[k + 1] = f[k] \o seqs[k + 1]
      BY <1>4, <3>1, Zenon
    <3>4. g[k] = f[k]
      BY <1>1, <2>2
    <3> QED BY <3>2, <3>3, <3>4, Zenon
  <2> HIDE DEF P
  <2>3. n \in P
    BY <2>1, <2>2, SetInduction, <1>1
  <2> QED BY <2>3 DEF P
<1>7. g[n + 1] = g[n] \o last
  <2>1. n + 1 \in 1 .. n + 1 /\ (n + 1) - 1 = n
    BY <1>1
  <2> QED BY <1>1, <1>5, <2>1, Zenon
<1> QED BY <1>1, <1>2, <1>3, <1>4, <1>6, <1>7 DEF all

LEMMA FlattenNothing == FlattenSeq(<<>>) = <<>>
BY EmptySeq DEF FlattenSeq

-----------------------------------------------------------------------------
(* Elements one after the other. *)
LEMMA NoElements ==
    ASSUME NEW part
    PROVE  Elements(part, <<>>) = <<>>
<1>1. [i \in 1 .. Len(<<>>) |-> part.write[<<>>[i]]] = <<>>
  OBVIOUS
<1> QED BY <1>1, FlattenNothing DEF Elements

LEMMA MoreElements ==
    ASSUME NEW part, NEW V, \A v \in V : part.write[v] \in Bytes,
           NEW x \in Seq(V), NEW y \in V
    PROVE  /\ Elements(part, x) \in Bytes
           /\ Elements(part, Append(x, y)) = Elements(part, x) \o part.write[y]
<1> DEFINE seqs == [i \in 1 .. Len(x) |-> part.write[x[i]]]
           z == Append(x, y)
           longer == [i \in 1 .. Len(z) |-> part.write[z[i]]]
           last == part.write[y]
<1>1. Len(x) \in Nat /\ \A i \in 1 .. Len(x) : x[i] \in V
  OBVIOUS
<1>2. seqs \in Seq(Bytes) /\ Len(seqs) = Len(x) /\ last \in Bytes
  <2>1. seqs \in [1 .. Len(x) -> Bytes]
    BY <1>1
  <2> QED BY <2>1, <1>1
<1>3. Len(z) = Len(x) + 1 /\ z[Len(x) + 1] = y /\ \A i \in 1 .. Len(x) : z[i] = x[i]
  BY AppendProperties
<1>4. longer = Append(seqs, last)
  <2> HIDE DEF z
  <2>1. longer \in Seq(Bytes) /\ Len(longer) = Len(x) + 1
    <3>1. \A i \in 1 .. Len(x) + 1 : z[i] \in V
      BY <1>1, <1>3
    <3>2. longer \in [1 .. Len(x) + 1 -> Bytes]
      BY <1>3, <3>1
    <3> QED BY <3>2, <1>1
  <2>2. /\ Append(seqs, last) \in Seq(Bytes) /\ Len(Append(seqs, last)) = Len(x) + 1
        /\ Append(seqs, last)[Len(x) + 1] = last
        /\ \A i \in 1 .. Len(x) : Append(seqs, last)[i] = seqs[i]
    <3> HIDE DEF seqs, last
    <3> QED BY <1>2, AppendProperties
  <2>3. ASSUME NEW i \in 1 .. Len(x) + 1 PROVE longer[i] = Append(seqs, last)[i]
    BY <1>1, <1>3, <2>2
  <2> HIDE DEF longer, seqs, last
  <2> QED BY <2>1, <2>2, <2>3, SeqEqual
<1>5. FlattenSeq(seqs) \in Bytes /\ FlattenSeq(Append(seqs, last)) = FlattenSeq(seqs) \o last
  <2>1. Joinable(Bytes)
    BY SequencesJoin, Zenon DEF Bytes
  <2> HIDE DEF seqs, last
  <2> QED BY <1>2, <2>1, FlattenAppend
<1> QED BY <1>4, <1>5 DEF Elements

(* What reading elements gives, and one more step of it. *)
Results(V) == {Throws, Undefined} \cup {Value(v[1], v[2]) : v \in Seq(V) \X Bytes}

AppendRead(part, r) ==
    IF r.status = "value"
    THEN IF part.read[r.rest].status = "value"
         THEN Value(Append(r.value, part.read[r.rest].value), part.read[r.rest].rest)
         ELSE part.read[r.rest]
    ELSE r

LEMMA AppendReads ==
    ASSUME NEW part
    PROVE  /\ AppendRead(part, Throws) = Throws /\ AppendRead(part, Undefined) = Undefined
           /\ \A x, rest : part.read[rest] = Throws => AppendRead(part, Value(x, rest)) = Throws
           /\ \A x, rest : part.read[rest] = Undefined => AppendRead(part, Value(x, rest)) = Undefined
           /\ \A x, rest, y, left : part.read[rest] = Value(y, left)
                 => AppendRead(part, Value(x, rest)) = Value(Append(x, y), left)
<1>1. AppendRead(part, Throws) = Throws /\ AppendRead(part, Undefined) = Undefined
  BY ResultsDiffer DEF AppendRead
<1>2. ASSUME NEW x, NEW rest
      PROVE  AppendRead(part, Value(x, rest))
                = IF part.read[rest].status = "value"
                  THEN Value(Append(x, part.read[rest].value), part.read[rest].rest)
                  ELSE part.read[rest]
  BY ResultsDiffer DEF AppendRead
<1>3. ASSUME NEW x, NEW rest, part.read[rest] = Throws
      PROVE  AppendRead(part, Value(x, rest)) = Throws
  BY <1>2, <1>3, ResultsDiffer
<1>4. ASSUME NEW x, NEW rest, part.read[rest] = Undefined
      PROVE  AppendRead(part, Value(x, rest)) = Undefined
  BY <1>2, <1>4, ResultsDiffer
<1>5. ASSUME NEW x, NEW rest, NEW y, NEW left, part.read[rest] = Value(y, left)
      PROVE  AppendRead(part, Value(x, rest)) = Value(Append(x, y), left)
  BY <1>2, <1>5, ResultsDiffer
<1> QED BY <1>1, <1>3, <1>4, <1>5

LEMMA ResultsMembers ==
    ASSUME NEW V
    PROVE  /\ Throws \in Results(V) /\ Undefined \in Results(V)
           /\ \A v \in Seq(V), rest \in Bytes : Value(v, rest) \in Results(V)
           /\ \A r \in Results(V) : \/ r = Throws
                                    \/ r = Undefined
                                    \/ \E v \in Seq(V), rest \in Bytes : r = Value(v, rest)
<1>1. ASSUME NEW v \in Seq(V), NEW rest \in Bytes PROVE Value(v, rest) \in Results(V)
  <2> DEFINE p == <<v, rest>>
  <2>1. p \in Seq(V) \X Bytes /\ Value(p[1], p[2]) = Value(v, rest)
    OBVIOUS
  <2> HIDE DEF p
  <2> QED BY <2>1 DEF Results
<1>2. ASSUME NEW r \in Results(V), r # Throws, r # Undefined
      PROVE  \E v \in Seq(V), rest \in Bytes : r = Value(v, rest)
  <2>1. PICK p \in Seq(V) \X Bytes : r = Value(p[1], p[2])
    BY <1>2 DEF Results
  <2> QED BY <2>1
<1> QED BY <1>1, <1>2 DEF Results

LEMMA AppendReadType ==
    ASSUME NEW part, Faithful(part), NEW r \in Results(part.readable)
    PROVE  AppendRead(part, r) \in Results(part.readable)
<1>1. CASE r = Throws \/ r = Undefined
  BY <1>1, AppendReads, ResultsMembers
<1>2. CASE \E v \in Seq(part.readable), rest \in Bytes : r = Value(v, rest)
  <2>1. PICK v \in Seq(part.readable), rest \in Bytes : r = Value(v, rest)
    BY <1>2
  <2>2. CASE part.read[rest] = Throws
    BY <2>1, <2>2, AppendReads, ResultsMembers
  <2>3. CASE part.read[rest] = Undefined
    BY <2>1, <2>3, AppendReads, ResultsMembers
  <2>4. CASE \E y \in part.readable, left \in Bytes : part.read[rest] = Value(y, left)
    <3>1. PICK y \in part.readable, left \in Bytes : part.read[rest] = Value(y, left)
      BY <2>4
    <3>2. Append(v, y) \in Seq(part.readable)
      OBVIOUS
    <3>3. AppendRead(part, r) = Value(Append(v, y), left)
      BY <2>1, <3>1, AppendReads
    <3> QED BY <3>2, <3>3, ResultsMembers
  <2> QED BY <2>2, <2>3, <2>4 DEF Faithful, ReadsOnly
<1> QED BY <1>1, <1>2, ResultsMembers

ReadsUpTo(f, part, n, bytes) ==
    /\ f \in [0 .. n -> Results(part.readable)]
    /\ f[0] = Value(<<>>, bytes)
    /\ \A i \in 1 .. n : f[i] = AppendRead(part, f[i - 1])

LEMMA ReadElementsDef ==
    ASSUME NEW part, Faithful(part), NEW n \in Nat, NEW bytes \in Bytes
    PROVE  \E f : ReadsUpTo(f, part, n, bytes) /\ ReadElements(part, n, bytes) = f[n]
<1> DEFINE S == Results(part.readable)
           Step == [x \in (1 .. n) \X S |-> AppendRead(part, x[2])]
           first == Value(<<>>, bytes)
<1>1. first \in S
  BY ResultsMembers, EmptySeq
<1>2. \A r \in S : AppendRead(part, r) \in S
  BY AppendReadType
<1> HIDE DEF S, first
<1>3. Step \in [(1 .. n) \X S -> S] /\ \A i \in 1 .. n, r \in S : Step[<<i, r>>] = AppendRead(part, r)
  BY <1>2
<1>4. PICK f : Solves(f, n, S, first, Step)
  <2> HIDE DEF Step
  <2> QED BY <1>1, <1>3, Recursion
<1> HIDE DEF Step
<1>5. \A i \in 1 .. n : i - 1 \in 0 .. n
  OBVIOUS
<1>6. /\ f \in [0 .. n -> S] /\ f[0] = first
      /\ \A i \in 1 .. n : f[i] = AppendRead(part, f[i - 1])
  BY <1>3, <1>4, <1>5 DEF Solves
<1> DEFINE Def(g) == [i \in 0 .. n |-> IF i = 0 THEN first ELSE AppendRead(part, g[i - 1])]
<1>7. f = Def(f)
  BY <1>6
<1>8. ASSUME NEW g, g = Def(g) PROVE g[n] = f[n]
  <2> DEFINE P == {k \in Nat : k <= n => g[k] = f[k]}
  <2>1. 0 \in P
    BY <1>6, <1>8
  <2>2. ASSUME NEW k \in Nat, k \in P PROVE k + 1 \in P
    BY <1>6, <1>8, <2>2
  <2> HIDE DEF P
  <2>3. n \in P
    BY <2>1, <2>2, SetInduction
  <2> QED BY <2>3 DEF P
<1>9. (CHOOSE g : g = Def(g)) = Def((CHOOSE g : g = Def(g)))
  <2> HIDE DEF Def
  <2> QED BY <1>7, Zenon
<1>10. ReadElements(part, n, bytes) = (CHOOSE g : g = Def(g))[n]
  BY DEF ReadElements, AppendRead, Then, first
<1> QED BY <1>6, <1>8, <1>9, <1>10 DEF ReadsUpTo, S, first

LEMMA ReadElementsSteps ==
    ASSUME NEW part, Faithful(part), NEW n \in Nat, NEW bytes \in Bytes
    PROVE  /\ ReadElements(part, 0, bytes) = Value(<<>>, bytes)
           /\ ReadElements(part, n + 1, bytes) = AppendRead(part, ReadElements(part, n, bytes))
<1>1. ReadElements(part, 0, bytes) = Value(<<>>, bytes)
  <2>1. PICK f : ReadsUpTo(f, part, 0, bytes) /\ ReadElements(part, 0, bytes) = f[0]
    BY ReadElementsDef
  <2> QED BY <2>1 DEF ReadsUpTo
<1>2. PICK f : ReadsUpTo(f, part, n, bytes) /\ ReadElements(part, n, bytes) = f[n]
  BY ReadElementsDef
<1>3. PICK g : ReadsUpTo(g, part, n + 1, bytes) /\ ReadElements(part, n + 1, bytes) = g[n + 1]
  BY ReadElementsDef
<1>4. g[n] = f[n]
  <2> DEFINE P == {k \in Nat : k <= n => g[k] = f[k]}
  <2>1. 0 \in P
    BY <1>2, <1>3 DEF ReadsUpTo
  <2>2. ASSUME NEW k \in Nat, k \in P PROVE k + 1 \in P
    BY <1>2, <1>3, <2>2 DEF ReadsUpTo
  <2> HIDE DEF P
  <2>3. n \in P
    BY <2>1, <2>2, SetInduction
  <2> QED BY <2>3 DEF P
<1>5. n + 1 \in 1 .. n + 1 /\ (n + 1) - 1 = n
  OBVIOUS
<1>6. g[n + 1] = AppendRead(part, g[(n + 1) - 1])
  BY <1>3, <1>5 DEF ReadsUpTo
<1> QED BY <1>1, <1>2, <1>3, <1>4, <1>5, <1>6

(* The values of an array of so many elements, grown from its end. *)
LEMMA Grown ==
    ASSUME NEW V, NEW n \in Nat
    PROVE  /\ \A x \in [1 .. n -> V] : x \in Seq(V) /\ Len(x) = n
           /\ \A x \in [1 .. n -> V], y \in V : Append(x, y) \in [1 .. n + 1 -> V]
<1>1. ASSUME NEW x \in [1 .. n -> V] PROVE x \in Seq(V) /\ Len(x) = n
  OBVIOUS
<1>2. ASSUME NEW x \in [1 .. n -> V], NEW y \in V PROVE Append(x, y) \in [1 .. n + 1 -> V]
  <2>1. x \in Seq(V) /\ Len(x) = n
    BY <1>1
  <2> DEFINE z == Append(x, y)
  <2>2. z \in Seq(V) /\ Len(z) = n + 1
    BY <2>1, AppendProperties
  <2> HIDE DEF z
  <2>3. z \in [1 .. Len(z) -> V]
    BY <2>2
  <2> QED BY <2>2, <2>3 DEF z
<1> QED BY <1>1, <1>2

Grows(v, n, V) == \E x \in [1 .. n -> V] : \E y \in V : v = Append(x, y)

LEMMA Shrunk ==
    ASSUME NEW V, NEW n \in Nat, NEW v, v \in [1 .. n + 1 -> V]
    PROVE  Grows(v, n, V)
<1> DEFINE x == [i \in 1 .. n |-> v[i]]
           y == v[n + 1]
<1>1. x \in [1 .. n -> V] /\ y \in V /\ x \in Seq(V) /\ Len(x) = n /\ \A i \in 1 .. n : x[i] = v[i]
  OBVIOUS
<1> HIDE DEF x
<1>2. /\ Append(x, y) \in Seq(V) /\ Len(Append(x, y)) = n + 1
      /\ Append(x, y)[n + 1] = y /\ \A i \in 1 .. n : Append(x, y)[i] = x[i]
  BY <1>1, AppendProperties
<1>3. v \in Seq(V) /\ Len(v) = n + 1
  OBVIOUS
<1>4. \A i \in 1 .. n + 1 : v[i] = Append(x, y)[i]
  BY <1>1, <1>2
<1>5. v = Append(x, y)
  BY <1>2, <1>3, <1>4, SeqEqual
<1> QED BY <1>1, <1>5 DEF Grows

LEMMA ArrayParts ==
    ASSUME NEW part, NEW n
    PROVE  /\ Array(part, n).values = [1 .. n -> part.values]
           /\ Array(part, n).readable = [1 .. n -> part.readable]
           /\ \A v \in [1 .. n -> part.values] : Array(part, n).write[v] = Elements(part, v)
           /\ \A b \in Bytes : Array(part, n).read[b] = ReadElements(part, n, b)
BY DEF Array, Overloads

LEMMA ArrayOfNone ==
    ASSUME NEW part, Faithful(part)
    PROVE  Faithful(Array(part, 0))
<1> DEFINE c == Array(part, 0)
<1>1. ASSUME NEW V PROVE [1 .. 0 -> V] = {<<>>}
  <2>1. ASSUME NEW x \in [1 .. 0 -> V] PROVE x = <<>>
    BY EmptySeq, Grown
  <2>2. <<>> \in [1 .. 0 -> V]
    <3>1. <<>> \in [1 .. Len(<<>>) -> V] /\ Len(<<>>) = 0
      BY EmptySeq
    <3> QED BY <3>1
  <2> QED BY <2>1, <2>2
<1>2. /\ c.values = {<<>>} /\ c.readable = {<<>>} /\ c.write[<<>>] = <<>>
      /\ \A b \in Bytes : c.read[b] = Value(<<>>, b)
  <2>1. c.values = {<<>>} /\ c.readable = {<<>>}
    BY <1>1, ArrayParts
  <2>2. c.write[<<>>] = <<>>
    BY <1>1, ArrayParts, NoElements
  <2>3. \A b \in Bytes : c.read[b] = Value(<<>>, b)
    BY ArrayParts, ReadElementsSteps
  <2> QED BY <2>1, <2>2, <2>3
<1> HIDE DEF c
<1>3. ReadsBack(c)
  BY <1>2, Joining DEF ReadsBack
<1>4. ReadsOnly(c)
  <2> SUFFICES ASSUME NEW b \in Bytes
               PROVE  \E v \in c.readable, rest \in Bytes :
                         c.read[b] = Value(v, rest) /\ b = c.write[v] \o rest
    BY DEF ReadsOnly
  <2>1. c.read[b] = Value(<<>>, b) /\ b = c.write[<<>>] \o b
    BY <1>2, Joining
  <2> QED BY <1>2, <2>1
<1>5. StaysUndefined(c)
  BY <1>2, ResultsDiffer DEF StaysUndefined
<1> QED BY <1>2, <1>3, <1>4, <1>5, Joining DEF Faithful, c

LEMMA ArrayOfMore ==
    ASSUME NEW part, Faithful(part), NEW n \in Nat, Faithful(Array(part, n))
    PROVE  Faithful(Array(part, n + 1))
<1> DEFINE f == Array(part, n)
           c == Array(part, n + 1)
           S == [x \in f.values |-> part]
           J == [x \in f.values |-> [y \in part.values |-> Append(x, y)]]
<1>1. /\ f.values = [1 .. n -> part.values] /\ f.readable = [1 .. n -> part.readable]
      /\ \A v \in f.values : f.write[v] = Elements(part, v)
      /\ \A b \in Bytes : f.read[b] = ReadElements(part, n, b)
  BY ArrayParts
<1>2. /\ c.values = [1 .. n + 1 -> part.values] /\ c.readable = [1 .. n + 1 -> part.readable]
      /\ \A v \in c.values : c.write[v] = Elements(part, v)
      /\ \A b \in Bytes : c.read[b] = ReadElements(part, n + 1, b)
  BY ArrayParts
<1> HIDE DEF f, c
<1>3. \A x \in f.values : S[x] = part /\ \A y \in part.values : J[x][y] = Append(x, y)
  OBVIOUS
<1> HIDE DEF S, J
<1>4. part.readable \subseteq part.values /\ f.readable \subseteq f.values /\ c.readable \subseteq c.values
  BY <1>1, <1>2 DEF Faithful
<1>5. \A v \in c.values : \E x \in f.values : \E y \in S[x].values : v = J[x][y]
  <2> TAKE v \in c.values
  <2>1. PICK x \in [1 .. n -> part.values] : \E y \in part.values : v = Append(x, y)
    <3>1. v \in [1 .. n + 1 -> part.values]
      BY <1>2
    <3>2. Grows(v, n, part.values)
      BY <3>1, Shrunk
    <3> QED BY <3>2 DEF Grows
  <2>2. PICK y \in part.values : v = Append(x, y)
    BY <2>1
  <2>3. x \in f.values /\ y \in S[x].values /\ v = J[x][y]
    BY <1>1, <1>3, <2>2
  <2> QED BY <2>3
<1>6. ASSUME NEW x \in f.values, NEW y \in S[x].values
      PROVE  /\ J[x][y] \in c.values
             /\ c.write[J[x][y]] = f.write[x] \o S[x].write[y]
             /\ J[x][y] \in c.readable <=> x \in f.readable /\ y \in S[x].readable
  <2>1. y \in part.values /\ S[x] = part /\ J[x][y] = Append(x, y)
    BY <1>3
  <2>2. Append(x, y) \in c.values
    BY <1>1, <1>2, <2>1, Grown
  <2>3. c.write[Append(x, y)] = f.write[x] \o part.write[y]
    <3>1. x \in Seq(part.values) /\ \A v \in part.values : part.write[v] \in Bytes
      BY <1>1, Grown DEF Faithful
    <3>2. Elements(part, Append(x, y)) = Elements(part, x) \o part.write[y]
      BY <2>1, <3>1, MoreElements
    <3> QED BY <1>1, <1>2, <2>2, <3>2
  <2>4. Append(x, y) \in c.readable <=> x \in f.readable /\ y \in part.readable
    <3>1. ASSUME x \in f.readable, y \in part.readable PROVE Append(x, y) \in c.readable
      BY <1>1, <1>2, <3>1, Grown
    <3>2. ASSUME Append(x, y) \in c.readable PROVE x \in f.readable /\ y \in part.readable
      <4>1. x \in [1 .. n -> part.values] /\ x \in Seq(part.values) /\ Len(x) = n
        BY <1>1, Grown
      <4>2. /\ Append(x, y)[n + 1] = y
            /\ \A i \in 1 .. n : Append(x, y)[i] = x[i]
        BY <4>1, <2>1, AppendProperties
      <4>3. Append(x, y) \in [1 .. n + 1 -> part.readable]
        BY <1>2, <3>2
      <4> DEFINE z == Append(x, y)
      <4> HIDE DEF z
      <4>4. \A i \in 1 .. n + 1 : z[i] \in part.readable
        BY <4>3 DEF z
      <4>5. z[n + 1] = y /\ \A i \in 1 .. n : z[i] = x[i]
        BY <4>2 DEF z
      <4>6. n + 1 \in 1 .. n + 1 /\ \A i \in 1 .. n : i \in 1 .. n + 1
        OBVIOUS
      <4>7. y \in part.readable /\ \A i \in 1 .. n : x[i] \in part.readable
        BY <4>4, <4>5, <4>6
      <4> QED BY <1>1, <4>1, <4>7
    <3> QED BY <3>1, <3>2
  <2> QED BY <2>1, <2>2, <2>3, <2>4
<1>7. ASSUME NEW b \in Bytes PROVE c.read[b] = ChainRead(f.read[b], S, J)
  <2>1. c.read[b] = AppendRead(part, f.read[b])
    BY <1>1, <1>2, ReadElementsSteps
  <2>2. CASE f.read[b] = Throws \/ f.read[b] = Undefined
    BY <2>1, <2>2, AppendReads, ChainStops
  <2>3. CASE \E x \in f.readable, rest \in Bytes : f.read[b] = Value(x, rest)
    <3>1. PICK x \in f.readable, rest \in Bytes : f.read[b] = Value(x, rest)
      BY <2>3
    <3>2. x \in f.values /\ S[x] = part /\ \A y \in part.values : J[x][y] = Append(x, y)
      BY <1>3, <1>4
    <3>3. CASE part.read[rest] = Throws \/ part.read[rest] = Undefined
      BY <2>1, <3>1, <3>2, <3>3, AppendReads, ChainStep
    <3>4. CASE \E y \in part.readable, left \in Bytes : part.read[rest] = Value(y, left)
      <4>1. PICK y \in part.readable, left \in Bytes : part.read[rest] = Value(y, left)
        BY <3>4
      <4>2. AppendRead(part, f.read[b]) = Value(Append(x, y), left)
        BY <3>1, <4>1, AppendReads
      <4>3. ChainRead(f.read[b], S, J) = Value(J[x][y], left)
        BY <3>1, <3>2, <4>1, ChainStep
      <4>4. J[x][y] = Append(x, y)
        BY <1>4, <3>2
      <4> QED BY <2>1, <4>2, <4>3, <4>4
    <3> QED BY <3>3, <3>4 DEF Faithful, ReadsOnly
  <2> QED BY <2>2, <2>3 DEF Faithful, ReadsOnly, f
<1>8. Chained(c, f, S, J)
  BY <1>4, <1>5, <1>6, <1>7 DEF Chained
<1>9. Faithful(f) /\ \A x \in f.values : Faithful(S[x])
  BY <1>3 DEF f
<1>10. Faithful(c)
  BY <1>8, <1>9, ChainedFaithful
<1> QED BY <1>10 DEF c

(* A fixed number of elements, one after the other: induction over the     *)
(* number, each element being chained to those before it.                  *)
THEOREM ArrayFaithful ==
    ASSUME NEW part, Faithful(part), NEW n \in Nat
    PROVE  Faithful(Array(part, n))
<1> DEFINE P == {k \in Nat : Faithful(Array(part, k))}
<1>1. 0 \in P
  BY ArrayOfNone
<1>2. ASSUME NEW k \in Nat, k \in P PROVE k + 1 \in P
  BY <1>2, ArrayOfMore
<1>3. n \in P
  <2> HIDE DEF P
  <2> QED BY <1>1, <1>2, SetInduction
<1> QED BY <1>3

-----------------------------------------------------------------------------
(* The overloads one by one. *)
LEMMA NothingParts ==
    /\ Nothing.values = {<<>>} /\ Nothing.readable = {<<>>} /\ Nothing.write[<<>>] = <<>>
    /\ \A b \in Bytes : Nothing.read[b] = Value(<<>>, b)
BY DEF Nothing, Overloads

(* void and the empty tuple, at which the tuples end.                      *)
THEOREM NothingFaithful == Faithful(Nothing)
<1>1. ReadsBack(Nothing)
  BY NothingParts, Joining DEF ReadsBack
<1>2. ReadsOnly(Nothing)
  <2> SUFFICES ASSUME NEW b \in Bytes
               PROVE  \E v \in Nothing.readable, rest \in Bytes :
                         Nothing.read[b] = Value(v, rest) /\ b = Nothing.write[v] \o rest
    BY DEF ReadsOnly
  <2>1. Nothing.read[b] = Value(<<>>, b) /\ b = Nothing.write[<<>>] \o b
    BY NothingParts, Joining
  <2> QED BY <2>1, NothingParts
<1>3. StaysUndefined(Nothing)
  BY NothingParts, ResultsDiffer DEF StaysUndefined
<1> QED BY <1>1, <1>2, <1>3, NothingParts, Joining DEF Faithful

(* A type of which nothing can be read. *)
Never(values, write, result) ==
    [values |-> values, readable |-> {}, write |-> write, read |-> [b \in Bytes |-> result]]

LEMMA NeverParts ==
    ASSUME NEW V, NEW write, NEW r
    PROVE  /\ Never(V, write, r).values = V /\ Never(V, write, r).readable = {}
           /\ Never(V, write, r).write = write
           /\ \A b \in Bytes : Never(V, write, r).read[b] = r
BY DEF Never

LEMMA ThrowingFaithful ==
    ASSUME NEW values, NEW write, \A v \in values : write[v] \in Bytes
    PROVE  Faithful(Never(values, write, Throws))
<1> DEFINE c == Never(values, write, Throws)
<1>1. /\ c.values = values /\ c.readable = {} /\ c.write = write
      /\ \A b \in Bytes : c.read[b] = Throws
  BY NeverParts
<1> HIDE DEF c
<1>2. ReadsBack(c)
  BY <1>1, Joining DEF ReadsBack
<1>3. ReadsOnly(c) /\ StaysUndefined(c)
  BY <1>1, ResultsDiffer DEF ReadsOnly, StaysUndefined
<1>4. Faithful(c)
  BY <1>1, <1>2, <1>3 DEF Faithful
<1> QED BY <1>4 DEF c

LEMMA UndefinedFaithful == Faithful(Never({}, <<>>, Undefined))
<1> DEFINE c == Never({}, <<>>, Undefined)
<1>1. /\ c.values = {} /\ c.readable = {}
      /\ \A b \in Bytes : c.read[b] = Undefined
  BY NeverParts
<1> HIDE DEF c
<1>2. ReadsBack(c) /\ ReadsOnly(c)
  BY <1>1 DEF ReadsBack, ReadsOnly
<1>3. StaysUndefined(c)
  BY <1>1, Joining DEF StaysUndefined
<1>4. Faithful(c)
  BY <1>1, <1>2, <1>3 DEF Faithful
<1> QED BY <1>4 DEF c

(* Two's complement: every integer of the width has its own residue. *)
LEMMA WrapUnwrap ==
    ASSUME NEW w \in Nat
    PROVE  /\ \A n \in -(Radix[w] \div 2) .. (Radix[w] - 1) \div 2 :
                 n % Radix[w] \in 0 .. Radix[w] - 1 /\ Wrap(n % Radix[w], w) = n
           /\ \A n \in 0 .. Radix[w] - 1 :
                 /\ Wrap(n, w) \in -(Radix[w] \div 2) .. (Radix[w] - 1) \div 2
                 /\ Wrap(n, w) % Radix[w] = n
<1> DEFINE r == Radix[w]
<1>1. r \in Nat /\ r > 0
  BY RadixPositive
<1> HIDE DEF r
<1>2. ASSUME NEW n \in -(r \div 2) .. (r - 1) \div 2
      PROVE  n % r \in 0 .. r - 1 /\ (IF 2 * (n % r) < r THEN n % r ELSE (n % r) - r) = n
  <2>1. CASE n >= 0
    <3>1. n < r /\ 2 * n < r /\ n \in Nat
      BY <1>1, <2>1
    <3>2. n % r = n
      BY <1>1, <3>1
    <3> QED BY <1>1, <3>1, <3>2
  <2>2. CASE n < 0
    <3>1. n + r \in Nat /\ n + r < r /\ ~(2 * (n + r) < r)
      BY <1>1, <2>2
    <3>2. n % r = n + r
      BY <1>1, <3>1
    <3> QED BY <1>1, <3>1, <3>2
  <2> QED BY <2>1, <2>2
<1>3. ASSUME NEW n \in 0 .. r - 1
      PROVE  /\ (IF 2 * n < r THEN n ELSE n - r) \in -(r \div 2) .. (r - 1) \div 2
             /\ (IF 2 * n < r THEN n ELSE n - r) % r = n
  <2>1. CASE 2 * n < r
    BY <1>1, <2>1
  <2>2. CASE ~(2 * n < r)
    <3>1. n - r \in -(r \div 2) .. (r - 1) \div 2
      BY <1>1, <2>2
    <3>2. (n - r) % r = n
      BY <1>1
    <3> QED BY <2>2, <3>1, <3>2
  <2> QED BY <2>1, <2>2
<1> QED BY <1>2, <1>3 DEF r, Wrap

LEMMA SignedParts ==
    ASSUME NEW w
    PROVE  LET All == -(Radix[w] \div 2) .. (Radix[w] - 1) \div 2 IN
           /\ Signed(w).values = All /\ Signed(w).readable = All
           /\ \A n \in All : Signed(w).write[n] = Digits(n % Radix[w], w)
           /\ \A b \in Bytes : Signed(w).read[b]
                 = IF ReadUnsigned(w, b).status = "value"
                   THEN Value(Wrap(ReadUnsigned(w, b).value, w), ReadUnsigned(w, b).rest)
                   ELSE ReadUnsigned(w, b)
BY DEF Signed, Overloads, Then

(* Signed integers of any width, in two's complement.                      *)
THEOREM SignedFaithful ==
    ASSUME NEW w \in Nat
    PROVE  Faithful(Signed(w))
<1> DEFINE f == Unsigned(w)
           c == Signed(w)
           All == -(Radix[w] \div 2) .. (Radix[w] - 1) \div 2
           S == [n \in f.values |-> Nothing]
           J == [n \in f.values |-> [v \in {<<>>} |-> Wrap(n, w)]]
<1>1. /\ f.values = 0 .. Radix[w] - 1 /\ f.readable = f.values
      /\ \A n \in f.values : f.write[n] = Digits(n, w)
      /\ \A b \in Bytes : f.read[b] = ReadUnsigned(w, b)
      /\ Faithful(f)
  BY UnsignedParts, UnsignedFaithful
<1>2. /\ c.values = All /\ c.readable = All
      /\ \A n \in All : c.write[n] = Digits(n % Radix[w], w)
      /\ \A b \in Bytes : c.read[b]
            = IF ReadUnsigned(w, b).status = "value"
              THEN Value(Wrap(ReadUnsigned(w, b).value, w), ReadUnsigned(w, b).rest)
              ELSE ReadUnsigned(w, b)
  BY SignedParts
<1>3. \A n \in f.values : S[n] = Nothing /\ J[n][<<>>] = Wrap(n, w)
  OBVIOUS
<1> HIDE DEF f, c, S, J
<1>4. ASSUME NEW v \in c.values PROVE \E x \in f.values : \E y \in S[x].values : v = J[x][y]
  <2> DEFINE x == v % Radix[w]
  <2>1. x \in f.values /\ Wrap(x, w) = v
    BY <1>1, <1>2, WrapUnwrap
  <2> HIDE DEF x
  <2>2. <<>> \in S[x].values /\ v = J[x][<<>>]
    BY <1>3, <2>1, NothingParts
  <2> QED BY <2>1, <2>2
<1>5. ASSUME NEW x \in f.values, NEW y \in S[x].values
      PROVE  /\ J[x][y] \in c.values
             /\ c.write[J[x][y]] = f.write[x] \o S[x].write[y]
             /\ J[x][y] \in c.readable <=> x \in f.readable /\ y \in S[x].readable
  <2>1. y = <<>> /\ S[x] = Nothing /\ J[x][y] = Wrap(x, w)
    BY <1>3, NothingParts
  <2>2. Wrap(x, w) \in All /\ Wrap(x, w) % Radix[w] = x
    BY <1>1, WrapUnwrap
  <2>3. c.write[Wrap(x, w)] = f.write[x]
    BY <1>1, <1>2, <2>2
  <2>4. f.write[x] \in Bytes
    BY <1>1 DEF Faithful
  <2>5. f.write[x] \o S[x].write[y] = f.write[x]
    BY <2>1, <2>4, NothingParts, Joining
  <2> QED BY <1>1, <1>2, <2>1, <2>2, <2>3, <2>5, NothingParts
<1>6. ASSUME NEW b \in Bytes PROVE c.read[b] = ChainRead(f.read[b], S, J)
  <2>1. CASE f.read[b] = Throws \/ f.read[b] = Undefined
    BY <1>1, <1>2, <2>1, ChainStops, ResultsDiffer
  <2>2. CASE \E n \in f.readable, rest \in Bytes : f.read[b] = Value(n, rest)
    <3>1. PICK n \in f.readable, rest \in Bytes : f.read[b] = Value(n, rest)
      BY <2>2
    <3>2. c.read[b] = Value(Wrap(n, w), rest)
      BY <1>1, <1>2, <3>1, ResultsDiffer
    <3>3. S[n].read[rest] = Value(<<>>, rest) /\ J[n][<<>>] = Wrap(n, w)
      BY <1>1, <1>3, <3>1, NothingParts
    <3> QED BY <3>1, <3>2, <3>3, ChainStep
  <2> QED BY <1>1, <2>1, <2>2 DEF Faithful, ReadsOnly
<1>7. Chained(c, f, S, J)
  BY <1>2, <1>4, <1>5, <1>6 DEF Chained
<1>8. Faithful(c)
  BY <1>1, <1>3, <1>7, ChainedFaithful, NothingFaithful
<1> QED BY <1>8 DEF c

LEMMA BoolParts ==
    /\ Bool.values = {0, 1} /\ Bool.readable = {0, 1}
    /\ \A n \in {0, 1} : Bool.write[n] = Digits(n, 1)
    /\ \A b \in Bytes : Bool.read[b]
          = IF ReadUnsigned(1, b).status = "value"
            THEN IF ReadUnsigned(1, b).value \in {0, 1}
                 THEN Value(ReadUnsigned(1, b).value, ReadUnsigned(1, b).rest)
                 ELSE Undefined
            ELSE ReadUnsigned(1, b)
BY DEF Bool, Overloads, ReadBool, Then

(* A bool: other bytes than 0 and 1 are undefined, whatever follows them.  *)
THEOREM BoolFaithful == Faithful(Bool)
<1> DEFINE f == Unsigned(1)
           Bad == Never({}, <<>>, Undefined)
           S == [n \in f.values |-> IF n \in {0, 1} THEN Nothing ELSE Bad]
           J == [n \in f.values |-> [v \in {<<>>} |-> n]]
<1>1. /\ f.values = 0 .. Radix[1] - 1 /\ f.readable = f.values
      /\ \A n \in f.values : f.write[n] = Digits(n, 1)
      /\ \A b \in Bytes : f.read[b] = ReadUnsigned(1, b)
      /\ Faithful(f)
  BY UnsignedParts, UnsignedFaithful
<1>2. 0 \in f.values /\ 1 \in f.values
  <2>1. Radix[0] = 1 /\ Radix[0 + 1] = Base * Radix[0] /\ 0 + 1 = 1
    BY RadixDef
  <2>2. Radix[1] = Base
    BY <2>1, BaseType
  <2> QED BY <1>1, <2>2, BaseType
<1>3. \A n \in f.values : S[n] = (IF n \in {0, 1} THEN Nothing ELSE Bad) /\ J[n][<<>>] = n
  OBVIOUS
<1>4. Bad.values = {} /\ Faithful(Bad) /\ \A b \in Bytes : Bad.read[b] = Undefined
  BY UndefinedFaithful, NeverParts
<1> HIDE DEF f, S, J, Bad
<1>5. ASSUME NEW v \in Bool.values PROVE \E x \in f.values : \E y \in S[x].values : v = J[x][y]
  <2>1. v \in f.values /\ v \in {0, 1}
    BY <1>2, BoolParts
  <2>2. <<>> \in S[v].values /\ v = J[v][<<>>]
    BY <1>3, <2>1, NothingParts
  <2> QED BY <2>1, <2>2
<1>6. ASSUME NEW x \in f.values, NEW y \in S[x].values
      PROVE  /\ J[x][y] \in Bool.values
             /\ Bool.write[J[x][y]] = f.write[x] \o S[x].write[y]
             /\ J[x][y] \in Bool.readable <=> x \in f.readable /\ y \in S[x].readable
  <2>1. x \in {0, 1} /\ S[x] = Nothing
    BY <1>3, <1>4
  <2>2. y = <<>> /\ J[x][y] = x
    BY <1>3, <2>1, NothingParts
  <2>3. Bool.write[x] = f.write[x]
    BY <1>1, <2>1, BoolParts
  <2>4. f.write[x] \in Bytes
    BY <1>1 DEF Faithful
  <2>5. f.write[x] \o S[x].write[y] = f.write[x]
    BY <2>1, <2>2, <2>4, NothingParts, Joining
  <2> QED BY <1>1, <2>1, <2>2, <2>3, <2>5, NothingParts, BoolParts
<1>7. ASSUME NEW b \in Bytes PROVE Bool.read[b] = ChainRead(f.read[b], S, J)
  <2>1. CASE f.read[b] = Throws \/ f.read[b] = Undefined
    BY <1>1, <2>1, ChainStops, ResultsDiffer, BoolParts
  <2>2. CASE \E n \in f.readable, rest \in Bytes : f.read[b] = Value(n, rest)
    <3>1. PICK n \in f.readable, rest \in Bytes : f.read[b] = Value(n, rest)
      BY <2>2
    <3>2. Bool.read[b] = IF n \in {0, 1} THEN Value(n, rest) ELSE Undefined
      BY <1>1, <3>1, ResultsDiffer, BoolParts
    <3>3. CASE n \in {0, 1}
      <4>1. S[n].read[rest] = Value(<<>>, rest) /\ J[n][<<>>] = n
        BY <1>1, <1>3, <3>1, <3>3, NothingParts
      <4> QED BY <3>1, <3>2, <3>3, <4>1, ChainStep
    <3>4. CASE n \notin {0, 1}
      <4>1. S[n].read[rest] = Undefined
        BY <1>1, <1>3, <1>4, <3>1, <3>4
      <4> QED BY <3>1, <3>2, <3>4, <4>1, ChainStep
    <3> QED BY <3>3, <3>4
  <2> QED BY <1>1, <2>1, <2>2 DEF Faithful, ReadsOnly
<1>8. Chained(Bool, f, S, J)
  BY <1>5, <1>6, <1>7, BoolParts DEF Chained
<1>9. \A x \in f.values : Faithful(S[x])
  BY <1>3, <1>4, NothingFaithful
<1> QED BY <1>1, <1>8, <1>9, ChainedFaithful

(* So many bytes as they are. *)
Raw(n) ==
    Overloads({v \in Bytes : Len(v) = n}, {v \in Bytes : Len(v) = n},
          LAMBDA v : v,
          LAMBDA b : IF n > Len(b) THEN Throws ELSE Value(SubSeq(b, 1, n), SubSeq(b, n + 1, Len(b))))

LEMMA RawFaithful ==
    ASSUME NEW n \in Nat
    PROVE  /\ Raw(n).values = {v \in Bytes : Len(v) = n} /\ Raw(n).readable = Raw(n).values
           /\ \A v \in Raw(n).values : Raw(n).write[v] = v
           /\ \A b \in Bytes : Raw(n).read[b]
                 = IF n > Len(b) THEN Throws ELSE Value(SubSeq(b, 1, n), SubSeq(b, n + 1, Len(b)))
           /\ Faithful(Raw(n))
<1> DEFINE c == Raw(n)
<1>1. /\ c.values = {v \in Bytes : Len(v) = n} /\ c.readable = c.values
      /\ \A v \in c.values : c.write[v] = v
      /\ \A b \in Bytes : c.read[b]
            = IF n > Len(b) THEN Throws ELSE Value(SubSeq(b, 1, n), SubSeq(b, n + 1, Len(b)))
  BY DEF Raw, Overloads
<1> HIDE DEF c
<1>2. ReadsBack(c)
  <2> SUFFICES ASSUME NEW v \in c.values, NEW rest \in Bytes
               PROVE  c.read[v \o rest] = Value(v, rest)
    BY <1>1 DEF ReadsBack
  <2> DEFINE b == v \o rest
  <2>1. v \in Bytes /\ Len(v) = n /\ Len(rest) \in Nat
    BY <1>1, Joining
  <2>2. /\ b \in Bytes /\ Len(b) = Len(v) + Len(rest)
        /\ SubSeq(b, 1, Len(v)) = v /\ SubSeq(b, Len(v) + 1, Len(b)) = rest
    BY <2>1, CutAt
  <2> HIDE DEF b
  <2>3. ~(n > Len(b))
    BY <2>1, <2>2
  <2>4. c.read[b] = Value(v, rest)
    BY <1>1, <2>1, <2>2, <2>3
  <2> QED BY <2>4 DEF b
<1>3. ReadsOnly(c)
  <2> SUFFICES ASSUME NEW b \in Bytes, c.read[b] # Throws
               PROVE  \E v \in c.readable, rest \in Bytes :
                         c.read[b] = Value(v, rest) /\ b = c.write[v] \o rest
    BY DEF ReadsOnly
  <2> DEFINE v    == SubSeq(b, 1, n)
             rest == SubSeq(b, n + 1, Len(b))
  <2>1. c.read[b] = Value(v, rest) /\ n <= Len(b)
    BY <1>1, Joining
  <2>2. v \in Bytes /\ Len(v) = n /\ rest \in Bytes /\ b = v \o rest
    BY <2>1, CutBytes
  <2> HIDE DEF v, rest
  <2>3. v \in c.readable /\ c.write[v] = v
    BY <1>1, <2>2
  <2> QED BY <2>1, <2>2, <2>3
<1>4. StaysUndefined(c)
  BY <1>1, ResultsDiffer DEF StaysUndefined
<1>5. Faithful(c)
  BY <1>1, <1>2, <1>3, <1>4 DEF Faithful
<1> QED BY <1>1, <1>5 DEF c

LEMMA StringParts ==
    /\ String.values = {v \in Bytes : Len(v) < Radix[LengthWidth]}
    /\ String.readable = String.values
    /\ \A v \in String.values : String.write[v] = Digits(Len(v), LengthWidth) \o v
    /\ \A b \in Bytes : String.read[b]
          = IF ReadUnsigned(LengthWidth, b).status = "value"
            THEN IF ReadUnsigned(LengthWidth, b).value > Len(ReadUnsigned(LengthWidth, b).rest)
                 THEN Throws
                 ELSE Value(SubSeq(ReadUnsigned(LengthWidth, b).rest, 1, ReadUnsigned(LengthWidth, b).value),
                            SubSeq(ReadUnsigned(LengthWidth, b).rest,
                                   ReadUnsigned(LengthWidth, b).value + 1,
                                   Len(ReadUnsigned(LengthWidth, b).rest)))
            ELSE ReadUnsigned(LengthWidth, b)
BY DEF String, Overloads, ReadString, Then

(* A string: its length and that many bytes, where more than there are     *)
(* must be refused before they are read.                                   *)
THEOREM StringFaithful == Faithful(String)
<1> DEFINE w == LengthWidth
           f == Unsigned(w)
           S == [n \in f.values |-> Raw(n)]
           J == [n \in f.values |-> [v \in Raw(n).values |-> v]]
<1>0. w \in Nat /\ Radix[w] \in Nat
  BY BaseType, RadixPositive
<1>1. /\ f.values = 0 .. Radix[w] - 1 /\ f.readable = f.values
      /\ \A n \in f.values : n \in Nat /\ f.write[n] = Digits(n, w)
      /\ \A b \in Bytes : f.read[b] = ReadUnsigned(w, b)
      /\ Faithful(f)
  BY <1>0, UnsignedParts, UnsignedFaithful
<1>2. \A n \in f.values : S[n] = Raw(n) /\ \A v \in Raw(n).values : J[n][v] = v
  OBVIOUS
<1> HIDE DEF f, S, J
<1>3. ASSUME NEW v \in String.values PROVE \E x \in f.values : \E y \in S[x].values : v = J[x][y]
  <2> DEFINE x == Len(v)
  <2>1. v \in Bytes /\ x \in f.values
    BY <1>0, <1>1, StringParts, Joining
  <2>2. v \in Raw(x).values
    BY <1>1, <2>1, RawFaithful
  <2> HIDE DEF x
  <2>3. v \in S[x].values /\ v = J[x][v]
    BY <1>2, <2>1, <2>2
  <2> QED BY <2>1, <2>3
<1>4. ASSUME NEW x \in f.values, NEW y \in S[x].values
      PROVE  /\ J[x][y] \in String.values
             /\ String.write[J[x][y]] = f.write[x] \o S[x].write[y]
             /\ J[x][y] \in String.readable <=> x \in f.readable /\ y \in S[x].readable
  <2>1. S[x] = Raw(x) /\ J[x][y] = y /\ y \in Raw(x).values
    BY <1>2
  <2>2. y \in Bytes /\ Len(y) = x /\ Raw(x).write[y] = y /\ y \in Raw(x).readable
    BY <1>1, <2>1, RawFaithful
  <2>3. y \in String.values
    BY <1>0, <1>1, <2>2, StringParts
  <2>4. String.write[y] = f.write[x] \o y
    BY <1>1, <2>2, <2>3, StringParts
  <2> QED BY <1>1, <2>1, <2>2, <2>3, <2>4, StringParts
<1>5. ASSUME NEW b \in Bytes PROVE String.read[b] = ChainRead(f.read[b], S, J)
  <2>1. CASE f.read[b] = Throws \/ f.read[b] = Undefined
    BY <1>1, <2>1, ChainStops, ResultsDiffer, StringParts
  <2>2. CASE \E n \in f.readable, rest \in Bytes : f.read[b] = Value(n, rest)
    <3>1. PICK n \in f.readable, rest \in Bytes : f.read[b] = Value(n, rest)
      BY <2>2
    <3>2. String.read[b] = IF n > Len(rest) THEN Throws
                           ELSE Value(SubSeq(rest, 1, n), SubSeq(rest, n + 1, Len(rest)))
      BY <1>1, <3>1, ResultsDiffer, StringParts
    <3>3. n \in f.values /\ n \in Nat /\ S[n] = Raw(n)
      BY <1>1, <1>2, <3>1
    <3>4. String.read[b] = S[n].read[rest]
      BY <3>2, <3>3, RawFaithful
    <3>5. CASE S[n].read[rest] = Throws \/ S[n].read[rest] = Undefined
      BY <3>1, <3>4, <3>5, ChainStep
    <3>6. CASE \E v \in S[n].readable, left \in Bytes : S[n].read[rest] = Value(v, left)
      <4>1. PICK v \in S[n].readable, left \in Bytes : S[n].read[rest] = Value(v, left)
        BY <3>6
      <4>2. J[n][v] = v
        BY <1>2, <3>3, <4>1, RawFaithful
      <4>3. ChainRead(f.read[b], S, J) = Value(J[n][v], left)
        BY <3>1, <4>1, ChainStep
      <4> QED BY <3>4, <4>1, <4>2, <4>3
    <3>7. Faithful(S[n])
      BY <3>3, RawFaithful
    <3> QED BY <3>5, <3>6, <3>7 DEF Faithful, ReadsOnly
  <2> QED BY <1>1, <2>1, <2>2 DEF Faithful, ReadsOnly
<1>6. Chained(String, f, S, J)
  BY <1>3, <1>4, <1>5, StringParts DEF Chained
<1>7. \A x \in f.values : Faithful(S[x])
  BY <1>1, <1>2, RawFaithful
<1> QED BY <1>1, <1>6, <1>7, ChainedFaithful

(* A number of elements, and the elements. *)
Counts(c, f, part) ==
    /\ f.values \subseteq Nat /\ f.readable = f.values
    /\ c.values = {v \in Seq(part.values) : Len(v) \in f.values}
    /\ c.readable = {v \in Seq(part.readable) : Len(v) \in f.values}
    /\ \A v \in c.values : c.write[v] = f.write[Len(v)] \o Elements(part, v)
    /\ \A b \in Bytes :
          /\ f.read[b].status # "value" => c.read[b] = f.read[b]
          /\ f.read[b].status = "value" => c.read[b] = ReadElements(part, f.read[b].value, f.read[b].rest)

LEMMA SeqArray ==
    ASSUME NEW V, NEW n \in Nat
    PROVE  \A v : v \in [1 .. n -> V] <=> v \in Seq(V) /\ Len(v) = n
OBVIOUS

LEMMA CountedFaithful ==
    ASSUME NEW c, NEW f, NEW part, Faithful(f), Faithful(part), Counts(c, f, part)
    PROVE  Faithful(c)
<1> DEFINE S == [n \in f.values |-> Array(part, n)]
           J == [n \in f.values |-> [v \in [1 .. n -> part.values] |-> v]]
<1>1. f.values \subseteq Nat /\ f.readable = f.values /\ part.readable \subseteq part.values
  BY DEF Counts, Faithful
<1>2. ASSUME NEW n \in f.values
      PROVE  S[n] = Array(part, n) /\ \A v \in [1 .. n -> part.values] : J[n][v] = v
  OBVIOUS
<1> HIDE DEF S, J
<1>3. c.readable \subseteq c.values
  <2>1. Seq(part.readable) \subseteq Seq(part.values)
    BY <1>1
  <2> QED BY <2>1 DEF Counts
<1>4. ASSUME NEW v \in c.values PROVE \E x \in f.values : \E y \in S[x].values : v = J[x][y]
  <2> DEFINE x == Len(v)
  <2>1. v \in Seq(part.values) /\ x \in f.values
    BY DEF Counts
  <2>2. v \in [1 .. x -> part.values]
    BY <2>1
  <2> HIDE DEF x
  <2>3. v \in S[x].values /\ v = J[x][v]
    BY <1>2, <2>1, <2>2, ArrayParts
  <2> QED BY <2>1, <2>3
<1>5. ASSUME NEW x \in f.values, NEW y \in S[x].values
      PROVE  /\ J[x][y] \in c.values
             /\ c.write[J[x][y]] = f.write[x] \o S[x].write[y]
             /\ J[x][y] \in c.readable <=> x \in f.readable /\ y \in S[x].readable
  <2>1. S[x] = Array(part, x) /\ y \in [1 .. x -> part.values]
    BY <1>2, ArrayParts
  <2>2. J[x][y] = y /\ S[x].write[y] = Elements(part, y) /\ S[x].readable = [1 .. x -> part.readable]
    BY <1>2, <2>1, ArrayParts
  <2>3. y \in Seq(part.values) /\ Len(y) = x
    BY <1>1, <2>1
  <2>4. y \in c.values
    BY <2>3 DEF Counts
  <2>5. c.write[y] = f.write[x] \o Elements(part, y)
    BY <2>3, <2>4 DEF Counts
  <2>6. y \in c.readable <=> y \in Seq(part.readable)
    BY <2>3 DEF Counts
  <2>7. y \in [1 .. x -> part.readable] <=> y \in Seq(part.readable)
    BY <1>1, <2>3, SeqArray
  <2> QED BY <1>1, <2>2, <2>4, <2>5, <2>6, <2>7
<1>6. ASSUME NEW b \in Bytes PROVE c.read[b] = ChainRead(f.read[b], S, J)
  <2>1. CASE f.read[b] = Throws \/ f.read[b] = Undefined
    BY <2>1, ChainStops, ResultsDiffer DEF Counts
  <2>2. CASE \E n \in f.readable, rest \in Bytes : f.read[b] = Value(n, rest)
    <3>1. PICK n \in f.readable, rest \in Bytes : f.read[b] = Value(n, rest)
      BY <2>2
    <3>2. c.read[b] = ReadElements(part, n, rest)
      BY <3>1, ResultsDiffer DEF Counts
    <3>3. n \in f.values /\ n \in Nat /\ S[n] = Array(part, n) /\ Faithful(S[n])
      BY <1>1, <1>2, <3>1, ArrayFaithful
    <3>4. c.read[b] = S[n].read[rest]
      BY <3>2, <3>3, ArrayParts
    <3>5. CASE S[n].read[rest] = Throws \/ S[n].read[rest] = Undefined
      BY <3>1, <3>4, <3>5, ChainStep
    <3>6. CASE \E v \in S[n].readable, left \in Bytes : S[n].read[rest] = Value(v, left)
      <4>1. PICK v \in S[n].readable, left \in Bytes : S[n].read[rest] = Value(v, left)
        BY <3>6
      <4>2. v \in [1 .. n -> part.values]
        <5>1. v \in S[n].values
          BY <3>3, <4>1 DEF Faithful
        <5> QED BY <3>3, <5>1, ArrayParts
      <4>3. J[n][v] = v
        BY <1>2, <3>3, <4>2
      <4>4. ChainRead(f.read[b], S, J) = Value(J[n][v], left)
        BY <3>1, <4>1, ChainStep
      <4> QED BY <3>4, <4>1, <4>3, <4>4
    <3> QED BY <3>3, <3>5, <3>6 DEF Faithful, ReadsOnly
  <2> QED BY <2>1, <2>2 DEF Faithful, ReadsOnly
<1>7. Chained(c, f, S, J)
  BY <1>3, <1>4, <1>5, <1>6 DEF Chained
<1>8. \A x \in f.values : Faithful(S[x])
  BY <1>1, <1>2, ArrayFaithful
<1> QED BY <1>7, <1>8, ChainedFaithful

LEMMA VectorCounts ==
    ASSUME NEW part
    PROVE  Counts(Vector(part), Unsigned(LengthWidth), part)
<1> DEFINE c == Vector(part)
           f == Unsigned(LengthWidth)
           most == Radix[LengthWidth] - 1
<1>1. LengthWidth \in Nat /\ Radix[LengthWidth] \in Nat /\ Radix[LengthWidth] > 0
  BY BaseType, RadixPositive
<1>2. /\ f.values = 0 .. most /\ f.readable = f.values
      /\ \A n \in f.values : f.write[n] = Digits(n, LengthWidth)
      /\ \A b \in Bytes : f.read[b] = ReadUnsigned(LengthWidth, b)
  BY <1>1, UnsignedParts
<1>3. /\ c.values = UpTo(most, part.values) /\ c.readable = UpTo(most, part.readable)
      /\ \A v \in c.values : c.write[v] = Digits(Len(v), LengthWidth) \o Elements(part, v)
      /\ \A b \in Bytes : c.read[b]
            = IF ReadUnsigned(LengthWidth, b).status = "value"
              THEN ReadElements(part, ReadUnsigned(LengthWidth, b).value, ReadUnsigned(LengthWidth, b).rest)
              ELSE ReadUnsigned(LengthWidth, b)
  BY DEF Vector, Overloads, Then
<1>4. ASSUME NEW V PROVE UpTo(most, V) = {v \in Seq(V) : Len(v) \in f.values}
  <2>1. \A v \in Seq(V) : Len(v) \in Nat
    OBVIOUS
  <2> QED BY <1>1, <1>2, <2>1 DEF UpTo
<1> HIDE DEF c, f
<1>5. f.values \subseteq Nat
  BY <1>1, <1>2
<1>6. \A v \in c.values : c.write[v] = f.write[Len(v)] \o Elements(part, v)
  BY <1>2, <1>3, <1>4
<1>7. Counts(c, f, part)
  BY <1>2, <1>3, <1>4, <1>5, <1>6 DEF Counts
<1> QED BY <1>7 DEF c, f

(* A vector: its length and its elements.                                  *)
THEOREM VectorFaithful ==
    ASSUME NEW part, Faithful(part)
    PROVE  Faithful(Vector(part))
BY VectorCounts, CountedFaithful, UnsignedFaithful, BaseType

LEMMA OptionalCounts ==
    ASSUME NEW part
    PROVE  Counts(Optional(part), Bool, part)
<1> DEFINE c == Optional(part)
<1>1. \A b \in Bytes : Bool.read[b] = ReadBool(b)
  BY DEF Bool, Overloads
<1>2. /\ c.values = UpTo(1, part.values) /\ c.readable = UpTo(1, part.readable)
      /\ \A v \in c.values : c.write[v] = Digits(Len(v), 1) \o Elements(part, v)
      /\ \A b \in Bytes : c.read[b]
            = IF ReadBool(b).status = "value"
              THEN ReadElements(part, ReadBool(b).value, ReadBool(b).rest)
              ELSE ReadBool(b)
  BY DEF Optional, Overloads, Then
<1>3. ASSUME NEW V PROVE UpTo(1, V) = {v \in Seq(V) : Len(v) \in Bool.values}
  <2>1. ASSUME NEW v \in Seq(V) PROVE Len(v) <= 1 <=> Len(v) \in {0, 1}
    <3>1. Len(v) \in Nat
      OBVIOUS
    <3>2. \A k \in Nat : k <= 1 <=> k = 0 \/ k = 1
      OBVIOUS
    <3>3. Len(v) <= 1 <=> Len(v) = 0 \/ Len(v) = 1
      BY <3>1, <3>2, Zenon
    <3> QED BY <3>3, Zenon
  <2> QED BY <2>1, BoolParts, Zenon DEF UpTo
<1> HIDE DEF c
<1>4. ASSUME NEW v \in c.values PROVE c.write[v] = Bool.write[Len(v)] \o Elements(part, v)
  <2>1. Len(v) \in {0, 1}
    BY <1>2, <1>3, BoolParts
  <2>2. Bool.write[Len(v)] = Digits(Len(v), 1)
    BY <2>1, BoolParts
  <2> QED BY <1>2, <2>2
<1>5. Counts(c, Bool, part)
  BY <1>1, <1>2, <1>3, <1>4, BoolParts DEF Counts
<1> QED BY <1>5 DEF c

(* An optional: whether there is a value, and the value.                   *)
THEOREM OptionalFaithful ==
    ASSUME NEW part, Faithful(part)
    PROVE  Faithful(Optional(part))
BY OptionalCounts, CountedFaithful, BoolFaithful

(* A pair, a struct or a tuple that is not empty.                          *)
THEOREM PairFaithful ==
    ASSUME NEW first, NEW second, Faithful(first), Faithful(second)
    PROVE  Faithful(Pair(first, second))
<1> DEFINE c == Pair(first, second)
           S == [x \in first.values |-> second]
           J == [x \in first.values |-> [y \in second.values |-> <<x, y>>]]
<1>1. /\ c.values = first.values \X second.values
      /\ c.readable = first.readable \X second.readable
      /\ \A v \in c.values : c.write[v] = first.write[v[1]] \o second.write[v[2]]
      /\ \A b \in Bytes : c.read[b]
            = IF first.read[b].status = "value"
              THEN IF second.read[first.read[b].rest].status = "value"
                   THEN Value(<<first.read[b].value, second.read[first.read[b].rest].value>>,
                              second.read[first.read[b].rest].rest)
                   ELSE second.read[first.read[b].rest]
              ELSE first.read[b]
  BY DEF Pair, Overloads, Then
<1>2. \A x \in first.values : S[x] = second /\ \A y \in second.values : J[x][y] = <<x, y>>
  OBVIOUS
<1> HIDE DEF c, S, J
<1>3. first.readable \subseteq first.values /\ second.readable \subseteq second.values
  BY DEF Faithful
<1>4. c.readable \subseteq c.values
  BY <1>1, <1>3
<1>5. ASSUME NEW v \in c.values PROVE \E x \in first.values : \E y \in S[x].values : v = J[x][y]
  <2>1. v[1] \in first.values /\ v[2] \in second.values /\ v = <<v[1], v[2]>>
    BY <1>1
  <2>2. v[2] \in S[v[1]].values /\ v = J[v[1]][v[2]]
    BY <1>2, <2>1
  <2> QED BY <2>1, <2>2
<1>6. ASSUME NEW x \in first.values, NEW y \in S[x].values
      PROVE  /\ J[x][y] \in c.values
             /\ c.write[J[x][y]] = first.write[x] \o S[x].write[y]
             /\ J[x][y] \in c.readable <=> x \in first.readable /\ y \in S[x].readable
  <2>1. S[x] = second /\ y \in second.values /\ J[x][y] = <<x, y>>
    BY <1>2
  <2> DEFINE v == <<x, y>>
  <2>2. v \in c.values /\ v[1] = x /\ v[2] = y
    BY <1>1, <2>1
  <2>3. v \in c.readable <=> x \in first.readable /\ y \in second.readable
    BY <1>1
  <2> HIDE DEF v
  <2>4. c.write[v] = first.write[x] \o second.write[y]
    BY <1>1, <2>2
  <2> QED BY <2>1, <2>2, <2>3, <2>4 DEF v
<1>7. ASSUME NEW b \in Bytes PROVE c.read[b] = ChainRead(first.read[b], S, J)
  <2>1. CASE first.read[b] = Throws \/ first.read[b] = Undefined
    <3>1. first.read[b].status # "value"
      BY <2>1, ResultsDiffer
    <3>2. c.read[b] = first.read[b]
      BY <1>1, <3>1
    <3> QED BY <2>1, <3>2, ChainStops
  <2>2. CASE \E x \in first.readable, rest \in Bytes : first.read[b] = Value(x, rest)
    <3>1. PICK x \in first.readable, rest \in Bytes : first.read[b] = Value(x, rest)
      BY <2>2
    <3>2. S[x] = second
      BY <1>2, <1>3
    <3>3. c.read[b] = IF second.read[rest].status = "value"
                      THEN Value(<<x, second.read[rest].value>>, second.read[rest].rest)
                      ELSE second.read[rest]
      BY <1>1, <3>1, ResultsDiffer
    <3>4. CASE second.read[rest] = Throws \/ second.read[rest] = Undefined
      BY <3>1, <3>2, <3>3, <3>4, ChainStep, ResultsDiffer
    <3>5. CASE \E y \in second.readable, left \in Bytes : second.read[rest] = Value(y, left)
      <4>1. PICK y \in second.readable, left \in Bytes : second.read[rest] = Value(y, left)
        BY <3>5
      <4>2. J[x][y] = <<x, y>>
        BY <1>2, <1>3
      <4>3. c.read[b] = Value(<<x, y>>, left)
        BY <3>3, <4>1, ResultsDiffer
      <4>4. ChainRead(first.read[b], S, J) = Value(J[x][y], left)
        BY <3>1, <3>2, <4>1, ChainStep
      <4> QED BY <4>2, <4>3, <4>4
    <3> QED BY <3>4, <3>5 DEF Faithful, ReadsOnly
  <2> QED BY <2>1, <2>2 DEF Faithful, ReadsOnly
<1>8. Chained(c, first, S, J)
  BY <1>4, <1>5, <1>6, <1>7 DEF Chained
<1>9. Faithful(c)
  BY <1>2, <1>8, ChainedFaithful
<1> QED BY <1>9 DEF c

(* What an alternative of a variant holds. *)
LEMMA AlternativesDef ==
    ASSUME NEW parts, Len(parts) \in Nat
    PROVE  \A v : v \in Alternatives(parts)
                    <=> \E i \in 1 .. Len(parts) : v \in {i - 1} \X parts[i].values
<1> DEFINE n == Len(parts)
           U == UNION {parts[i].values : i \in 1 .. n}
           S == SUBSET (Nat \X U)
           Step == [x \in (1 .. n) \X S |-> x[2] \cup ({x[1] - 1} \X parts[x[1]].values)]
<1>1. ASSUME NEW i \in 1 .. n, NEW s \in S PROVE s \cup ({i - 1} \X parts[i].values) \in S
  <2>1. parts[i].values \subseteq U /\ i - 1 \in Nat
    OBVIOUS
  <2> QED BY <2>1
<1>2. n \in Nat /\ {} \in S
  OBVIOUS
<1> HIDE DEF n, S
<1>3. /\ Step \in [(1 .. n) \X S -> S]
      /\ \A i \in 1 .. n, s \in S : Step[<<i, s>>] = s \cup ({i - 1} \X parts[i].values)
  BY <1>1
<1>4. PICK f : Solves(f, n, S, {}, Step)
  <2> HIDE DEF Step
  <2> QED BY <1>2, <1>3, Recursion
<1> HIDE DEF Step
<1>5. \A i \in 1 .. n : i - 1 \in 0 .. n
  BY <1>2
<1>6. /\ f \in [0 .. n -> S] /\ f[0] = {}
      /\ \A i \in 1 .. n : f[i] = f[i - 1] \cup ({i - 1} \X parts[i].values)
  BY <1>3, <1>4, <1>5 DEF Solves
<1> DEFINE Def(g) == [i \in 0 .. n |-> IF i = 0 THEN {} ELSE g[i - 1] \cup ({i - 1} \X parts[i].values)]
<1>7. f = Def(f)
  BY <1>6
<1>8. ASSUME NEW g, g = Def(g)
      PROVE  \A v : v \in g[n] <=> \E i \in 1 .. n : v \in {i - 1} \X parts[i].values
  <2> DEFINE P == {k \in Nat : k <= n =>
                      \A v : v \in g[k] <=> \E i \in 1 .. k : v \in {i - 1} \X parts[i].values}
  <2>1. 0 \in P
    BY <1>2, <1>8
  <2>2. ASSUME NEW k \in Nat, k \in P PROVE k + 1 \in P
    <3> SUFFICES ASSUME k + 1 <= n, NEW v
                 PROVE  v \in g[k + 1] <=> \E i \in 1 .. k + 1 : v \in {i - 1} \X parts[i].values
      OBVIOUS
    <3>1. k + 1 \in 0 .. n /\ k + 1 # 0 /\ (k + 1) - 1 = k
      BY <1>2
    <3> DEFINE last == {(k + 1) - 1} \X parts[k + 1].values
    <3>2. g[k + 1] = g[k] \cup last
      <4>1. g[k + 1] = g[(k + 1) - 1] \cup last
        BY <1>8, <3>1, Zenon
      <4> QED BY <3>1, <4>1, Zenon
    <3>3. v \in g[k] <=> \E i \in 1 .. k : v \in {i - 1} \X parts[i].values
      BY <1>2, <2>2
    <3>4. \A i : i \in 1 .. k + 1 <=> i \in 1 .. k \/ i = k + 1
      OBVIOUS
    <3> DEFINE In(i) == v \in {i - 1} \X parts[i].values
    <3>5. v \in g[k + 1] <=> v \in g[k] \/ In(k + 1)
      BY <3>2, Zenon
    <3>6. v \in g[k] <=> \E i \in 1 .. k : In(i)
      BY <3>3
    <3> HIDE DEF In
    <3>7. v \in g[k + 1] <=> \E i \in 1 .. k + 1 : In(i)
      BY <3>4, <3>5, <3>6
    <3> QED BY <3>7 DEF In
  <2> HIDE DEF P
  <2>3. n \in P
    BY <2>1, <2>2, SetInduction, <1>2
  <2> QED BY <2>3, <1>2 DEF P
<1>9. (CHOOSE g : g = Def(g)) = Def((CHOOSE g : g = Def(g)))
  <2> HIDE DEF Def
  <2> QED BY <1>7, Zenon
<1>10. Alternatives(parts) = (CHOOSE g : g = Def(g))[n]
  BY DEF Alternatives, n
<1> HIDE DEF Def
<1>11. \A v : v \in Alternatives(parts) <=> \E i \in 1 .. n : v \in {i - 1} \X parts[i].values
  BY <1>8, <1>9, <1>10
<1> QED BY <1>11 DEF n

LEMMA VariantParts ==
    ASSUME NEW parts
    PROVE  /\ Variant(parts).values = Alternatives(parts)
           /\ Variant(parts).readable = {0} \X parts[1].readable
           /\ \A v \in Alternatives(parts) :
                 Variant(parts).write[v] = Digits(v[1], 1) \o parts[v[1] + 1].write[v[2]]
           /\ \A b \in Bytes : Variant(parts).read[b]
                 = IF ReadUnsigned(1, b).status = "value"
                   THEN IF ReadUnsigned(1, b).value = 0
                        THEN IF parts[1].read[ReadUnsigned(1, b).rest].status = "value"
                             THEN Value(<<0, parts[1].read[ReadUnsigned(1, b).rest].value>>,
                                        parts[1].read[ReadUnsigned(1, b).rest].rest)
                             ELSE parts[1].read[ReadUnsigned(1, b).rest]
                        ELSE Throws
                   ELSE ReadUnsigned(1, b)
BY DEF Variant, Overloads, Then

(* A variant of at most Base alternatives, of which only the first is      *)
(* readable: any other index is refused.                                   *)
THEOREM VariantFaithful ==
    ASSUME NEW parts, Len(parts) \in 1 .. Base,
           \A i \in 1 .. Len(parts) : Faithful(parts[i])
    PROVE  Faithful(Variant(parts))
<1> DEFINE n == Len(parts)
           c == Variant(parts)
           f == Unsigned(1)
           Other(x) == IF x < n THEN Never(parts[x + 1].values, parts[x + 1].write, Throws)
                                ELSE Never({}, <<>>, Throws)
           S == [x \in f.values |-> IF x = 0 THEN parts[1] ELSE Other(x)]
           J == [x \in f.values |-> [y \in S[x].values |-> <<x, y>>]]
<1>0. n \in Nat /\ n > 0 /\ n <= Base /\ Faithful(parts[1])
  BY BaseType
<1>1. /\ f.values = 0 .. Base - 1 /\ f.readable = f.values
      /\ \A x \in f.values : f.write[x] = Digits(x, 1)
      /\ \A b \in Bytes : f.read[b] = ReadUnsigned(1, b)
      /\ Faithful(f)
  <2>1. Radix[0] = 1 /\ Radix[0 + 1] = Base * Radix[0] /\ 0 + 1 = 1
    BY RadixDef
  <2>2. Radix[1] = Base
    BY <2>1, BaseType
  <2> QED BY <2>2, UnsignedParts, UnsignedFaithful
<1>2. ASSUME NEW x \in f.values
      PROVE  /\ x = 0 => S[x] = parts[1]
             /\ x # 0 => S[x] = Other(x)
             /\ \A y \in S[x].values : J[x][y] = <<x, y>>
  OBVIOUS
<1> HIDE DEF n, c, f, S, J
<1>3. ASSUME NEW x \in f.values, x < n
      PROVE  /\ x + 1 \in 1 .. n /\ Faithful(parts[x + 1]) /\ Faithful(S[x])
             /\ S[x].values = parts[x + 1].values
             /\ S[x].write = parts[x + 1].write
             /\ x # 0 => S[x].readable = {} /\ \A b \in Bytes : S[x].read[b] = Throws
  <2>1. x + 1 \in 1 .. n
    BY <1>0, <1>1, <1>3, BaseType
  <2>2. Faithful(parts[x + 1])
    BY <2>1 DEF n
  <2>3. CASE x = 0
    BY <1>2, <2>1, <2>2, <2>3
  <2>4. CASE x # 0
    <3>1. S[x] = Never(parts[x + 1].values, parts[x + 1].write, Throws)
      BY <1>2, <1>3, <2>4
    <3>2. Faithful(S[x])
      BY <2>2, <3>1, ThrowingFaithful DEF Faithful
    <3> QED BY <2>1, <2>2, <3>1, <3>2, NeverParts
  <2> QED BY <2>3, <2>4
<1>4. ASSUME NEW x \in f.values, ~(x < n)
      PROVE  Faithful(S[x]) /\ S[x].values = {} /\ \A b \in Bytes : S[x].read[b] = Throws
  <2>1. S[x] = Never({}, <<>>, Throws)
    BY <1>0, <1>2, <1>4
  <2> QED BY <2>1, NeverParts, ThrowingFaithful
<1>5. \A v : v \in c.values <=> \E i \in 1 .. n : v \in {i - 1} \X parts[i].values
  <2>1. c.values = Alternatives(parts)
    BY VariantParts DEF c
  <2>2. \A v : v \in Alternatives(parts) <=> \E i \in 1 .. n : v \in {i - 1} \X parts[i].values
    BY <1>0, AlternativesDef DEF n
  <2> QED BY <2>1, <2>2, Zenon
<1>6. /\ c.readable = {0} \X parts[1].readable
      /\ \A v \in c.values : c.write[v] = Digits(v[1], 1) \o parts[v[1] + 1].write[v[2]]
  BY VariantParts DEF c
<1>7. c.readable \subseteq c.values
  <2> SUFFICES ASSUME NEW v \in c.readable PROVE v \in c.values
    OBVIOUS
  <2>1. v \in {0} \X parts[1].values
    BY <1>0, <1>6 DEF Faithful
  <2>2. 1 \in 1 .. n /\ 1 - 1 = 0
    BY <1>0
  <2> QED BY <1>5, <2>1, <2>2
<1>8. ASSUME NEW v \in c.values PROVE \E x \in f.values : \E y \in S[x].values : v = J[x][y]
  <2>1. PICK i \in 1 .. n : v \in {i - 1} \X parts[i].values
    BY <1>5
  <2> DEFINE x == i - 1
             y == v[2]
  <2>2. v = <<x, y>> /\ y \in parts[i].values
    BY <2>1
  <2>3. x \in f.values /\ x < n /\ x + 1 = i
    BY <1>0, <1>1, BaseType
  <2> HIDE DEF x, y
  <2>4. y \in S[x].values
    BY <1>3, <2>2, <2>3
  <2>5. v = J[x][y]
    BY <1>2, <2>2, <2>3, <2>4
  <2> QED BY <2>3, <2>4, <2>5
<1>9. ASSUME NEW x \in f.values, NEW y \in S[x].values
      PROVE  /\ J[x][y] \in c.values
             /\ c.write[J[x][y]] = f.write[x] \o S[x].write[y]
             /\ J[x][y] \in c.readable <=> x \in f.readable /\ y \in S[x].readable
  <2> DEFINE v == <<x, y>>
  <2>1. x < n
    BY <1>4
  <2>2. x + 1 \in 1 .. n /\ y \in parts[x + 1].values /\ S[x].write = parts[x + 1].write
    BY <1>3, <2>1
  <2>3. (x + 1) - 1 = x
    BY <1>1, BaseType
  <2>4. v \in c.values
    BY <1>5, <2>2, <2>3
  <2>5. v[1] = x /\ v[2] = y
    OBVIOUS
  <2>6. v \in c.readable <=> x = 0 /\ y \in parts[1].readable
    BY <1>6
  <2> HIDE DEF v
  <2>7. c.write[v] = f.write[x] \o S[x].write[y]
    BY <1>1, <1>6, <2>2, <2>4, <2>5
  <2>8. y \in S[x].readable <=> x = 0 /\ y \in parts[1].readable
    <3>1. CASE x = 0
      BY <1>2, <3>1
    <3>2. CASE x # 0
      BY <1>3, <2>1, <3>2
    <3> QED BY <3>1, <3>2
  <2>9. J[x][y] = v
    BY <1>2 DEF v
  <2> QED BY <1>1, <2>4, <2>6, <2>7, <2>8, <2>9
<1>10. ASSUME NEW b \in Bytes PROVE c.read[b] = ChainRead(f.read[b], S, J)
  <2> DEFINE r == ReadUnsigned(1, b)
  <2>1. /\ r.status # "value" => c.read[b] = r
        /\ r.status = "value" /\ r.value # 0 => c.read[b] = Throws
        /\ r.status = "value" /\ r.value = 0 /\ parts[1].read[r.rest].status # "value"
              => c.read[b] = parts[1].read[r.rest]
        /\ r.status = "value" /\ r.value = 0 /\ parts[1].read[r.rest].status = "value"
              => c.read[b] = Value(<<0, parts[1].read[r.rest].value>>, parts[1].read[r.rest].rest)
    <3>1. c.read[b]
                 = IF r.status = "value"
                   THEN IF r.value = 0
                        THEN IF parts[1].read[r.rest].status = "value"
                             THEN Value(<<0, parts[1].read[r.rest].value>>, parts[1].read[r.rest].rest)
                             ELSE parts[1].read[r.rest]
                        ELSE Throws
                   ELSE r
      BY VariantParts DEF c
    <3> HIDE DEF r
    <3> QED BY <3>1, Zenon
  <2>2. f.read[b] = r
    BY <1>1
  <2> HIDE DEF r
  <2>3. CASE f.read[b] = Throws \/ f.read[b] = Undefined
    BY <2>1, <2>2, <2>3, ChainStops, ResultsDiffer
  <2>4. CASE \E x \in f.readable, rest \in Bytes : f.read[b] = Value(x, rest)
    <3>1. PICK x \in f.readable, rest \in Bytes : f.read[b] = Value(x, rest)
      BY <2>4
    <3>2. r.status = "value" /\ r.value = x /\ r.rest = rest /\ x \in f.values
      BY <1>1, <2>2, <3>1, ResultsDiffer
    <3>3. CASE x # 0
      <4>1. c.read[b] = Throws
        BY <2>1, <3>2, <3>3
      <4>2. S[x].read[rest] = Throws
        BY <1>3, <1>4, <3>2, <3>3
      <4> QED BY <3>1, <4>1, <4>2, ChainStep
    <3>4. CASE x = 0
      <4>1. S[x] = parts[1]
        BY <1>2, <3>2, <3>4
      <4>2. CASE parts[1].read[rest] = Throws \/ parts[1].read[rest] = Undefined
        <5>1. c.read[b] = parts[1].read[rest]
          BY <2>1, <3>2, <3>4, <4>2, ResultsDiffer
        <5> QED BY <3>1, <4>1, <4>2, <5>1, ChainStep
      <4>3. CASE \E y \in parts[1].readable, left \in Bytes : parts[1].read[rest] = Value(y, left)
        <5>1. PICK y \in parts[1].readable, left \in Bytes : parts[1].read[rest] = Value(y, left)
          BY <4>3
        <5>2. c.read[b] = Value(<<x, y>>, left)
          BY <2>1, <3>2, <3>4, <5>1, ResultsDiffer
        <5>3. y \in S[x].values
          BY <1>0, <4>1 DEF Faithful
        <5>4. J[x][y] = <<x, y>>
          BY <1>2, <3>2, <5>3
        <5>5. ChainRead(f.read[b], S, J) = Value(J[x][y], left)
          BY <3>1, <4>1, <5>1, ChainStep
        <5> QED BY <5>2, <5>4, <5>5
      <4> QED BY <1>0, <4>2, <4>3 DEF Faithful, ReadsOnly
    <3> QED BY <3>3, <3>4
  <2> QED BY <1>1, <2>3, <2>4 DEF Faithful, ReadsOnly
<1>11. Chained(c, f, S, J)
  BY <1>7, <1>8, <1>9, <1>10 DEF Chained
<1>12. \A x \in f.values : Faithful(S[x])
  BY <1>3, <1>4
<1>13. Faithful(c)
  BY <1>1, <1>11, <1>12, ChainedFaithful
<1> QED BY <1>13 DEF c

-----------------------------------------------------------------------------
(* The codec of a type is that of the overloads for it: its parts come     *)
(* before it in the table.                                                 *)
LEMMA TypesShape ==
    /\ Len(Table) \in Nat /\ Types = 1 .. Len(Table)
    /\ \A t \in Types : /\ Table[t].parts \in Seq(Nat) /\ Table[t].size \in Nat
                        /\ \A i \in DOMAIN Table[t].parts : Table[t].parts[i] \in 1 .. t - 1
                        /\ WellFormed(Table[t])
<1>1. Table \in Seq([kind : STRING, size : Nat, parts : Seq(Nat)])
  BY TableAssumption
<1>2. Len(Table) \in Nat /\ Types = 1 .. Len(Table)
  BY <1>1 DEF Types
<1>3. ASSUME NEW t \in Types PROVE Table[t] \in [kind : STRING, size : Nat, parts : Seq(Nat)]
  <2> DEFINE R == [kind : STRING, size : Nat, parts : Seq(Nat)]
  <2>1. Table \in Seq(R) /\ t \in 1 .. Len(Table)
    BY <1>1, <1>2
  <2> HIDE DEF R
  <2>2. Table[t] \in R
    BY <2>1
  <2> QED BY <2>2 DEF R
<1> QED BY <1>2, <1>3, TableAssumption

Parts(f, t) == [i \in DOMAIN Table[t].parts |-> f[Table[t].parts[i]]]

Codecs(f, n) == f = [t \in 1 .. n |-> OverloadsFor(Table[t], Parts(f, t))]

LEMMA CodecsExist ==
    ASSUME NEW n \in Nat, n <= Len(Table)
    PROVE  \E f : Codecs(f, n)
<1> DEFINE P == {k \in Nat : k <= Len(Table) => \E f : Codecs(f, k)}
<1>1. 0 \in P
  <2> DEFINE f == [t \in 1 .. 0 |-> <<>>]
  <2>1. Codecs(f, 0)
    BY DEF Codecs
  <2> QED BY <2>1
<1>2. ASSUME NEW k \in Nat, k \in P PROVE k + 1 \in P
  <2> SUFFICES ASSUME k + 1 <= Len(Table) PROVE \E f : Codecs(f, k + 1)
    OBVIOUS
  <2>1. PICK f : Codecs(f, k)
    BY <1>2, TypesShape
  <2> DEFINE g == [t \in 1 .. k + 1 |-> IF t = k + 1 THEN OverloadsFor(Table[t], Parts(f, t)) ELSE f[t]]
  <2>2. \A t \in 1 .. k : g[t] = f[t]
    OBVIOUS
  <2>3. g = [t \in 1 .. k + 1 |-> OverloadsFor(Table[t], Parts(f, t))]
    <3>1. \A t \in 1 .. k : f[t] = OverloadsFor(Table[t], Parts(f, t))
      BY <2>1 DEF Codecs
    <3> QED BY <3>1
  <2> HIDE DEF g
  <2>4. ASSUME NEW t \in 1 .. k + 1 PROVE Parts(f, t) = Parts(g, t)
    <3>1. \A i \in DOMAIN Table[t].parts : Table[t].parts[i] \in 1 .. k
      BY TypesShape
    <3> QED BY <2>2, <3>1 DEF Parts
  <2>5. Codecs(g, k + 1)
    BY <2>3, <2>4 DEF Codecs
  <2> QED BY <2>5
<1>3. n \in P
  <2> HIDE DEF P
  <2> QED BY <1>1, <1>2, SetInduction
<1> QED BY <1>3

LEMMA CodecDef == \A t \in Types : CodecOf[t] = OverloadsFor(Table[t], Parts(CodecOf, t))
<1> DEFINE Def(f) == [t \in Types |-> OverloadsFor(Table[t], [i \in DOMAIN Table[t].parts |-> f[Table[t].parts[i]]])]
<1>1. PICK f : Codecs(f, Len(Table))
  BY CodecsExist, TypesShape
<1>2. f = Def(f)
  BY <1>1, TypesShape DEF Codecs, Parts
<1>3. CodecOf = CHOOSE g : g = Def(g)
  BY DEF CodecOf
<1>4. CodecOf = Def(CodecOf)
  <2> HIDE DEF Def
  <2> QED BY <1>2, <1>3, Zenon
<1> QED BY <1>4 DEF Parts

(* The overloads of a well-formed type are as faithful as those of its     *)
(* parts.                                                                  *)
LEMMA OverloadsFaithful ==
    ASSUME NEW t \in Types, NEW parts,
           parts \in [DOMAIN Table[t].parts -> {parts[i] : i \in DOMAIN Table[t].parts}],
           \A i \in DOMAIN Table[t].parts : Faithful(parts[i])
    PROVE  Faithful(OverloadsFor(Table[t], parts))
<1> DEFINE type0 == Table[t]
           n == Len(type0.parts)
<1>1. /\ type0.parts \in Seq(Nat) /\ type0.size \in Nat /\ n \in Nat
      /\ DOMAIN type0.parts = 1 .. n /\ WellFormed(type0)
  BY TypesShape
<1>2. Len(parts) = n /\ DOMAIN parts = 1 .. n /\ \A i \in 1 .. n : Faithful(parts[i])
  BY <1>1
<1>3. parts = <<>> <=> n = 0
  BY <1>1, <1>2
<1>4. parts # <<>> => n # 0
  BY <1>3
<1> SUFFICES Faithful(OverloadsFor(type0, parts))
  OBVIOUS
<1> HIDE DEF type0, n
<1>5. CASE type0.kind = "int"
  <2>1. OverloadsFor(type0, parts) = Signed(type0.size)
    BY <1>5 DEF OverloadsFor
  <2> QED BY <1>1, <2>1, SignedFaithful
<1>6. CASE type0.kind \in {"uint", "byte"}
  <2>1. OverloadsFor(type0, parts) = Unsigned(IF type0.kind = "byte" THEN 1 ELSE type0.size)
    BY <1>6 DEF OverloadsFor
  <2> QED BY <1>1, <2>1, UnsignedFaithful
<1>7. CASE type0.kind = "bool"
  <2>1. OverloadsFor(type0, parts) = Bool
    BY <1>7 DEF OverloadsFor
  <2> QED BY <2>1, BoolFaithful
<1>8. CASE type0.kind = "string"
  <2>1. OverloadsFor(type0, parts) = String
    BY <1>8 DEF OverloadsFor
  <2> QED BY <2>1, StringFaithful
<1>9. CASE type0.kind \in {"vector", "array", "optional"}
  <2>1. n = 1 /\ Faithful(parts[1])
    BY <1>1, <1>2, <1>9 DEF WellFormed, n
  <2>2. CASE type0.kind = "vector"
    <3>1. OverloadsFor(type0, parts) = Vector(parts[1])
      BY <2>2 DEF OverloadsFor
    <3> QED BY <2>1, <3>1, VectorFaithful
  <2>3. CASE type0.kind = "array"
    <3>1. OverloadsFor(type0, parts) = Array(parts[1], type0.size)
      BY <2>3 DEF OverloadsFor
    <3> QED BY <1>1, <2>1, <3>1, ArrayFaithful
  <2>4. CASE type0.kind = "optional"
    <3>1. OverloadsFor(type0, parts) = Optional(parts[1])
      BY <2>4 DEF OverloadsFor
    <3> QED BY <2>1, <3>1, OptionalFaithful
  <2> QED BY <1>9, <2>2, <2>3, <2>4
<1>10. CASE type0.kind = "variant"
  <2>1. n \in 1 .. Base
    BY <1>1, <1>10 DEF WellFormed, n
  <2>2. OverloadsFor(type0, parts) = Variant(parts)
    BY <1>10 DEF OverloadsFor
  <2> QED BY <1>2, <2>1, <2>2, VariantFaithful
<1>11. CASE type0.kind \in {"void", "tuple"} /\ parts = <<>>
  <2>1. OverloadsFor(type0, parts) = Nothing
    BY <1>11 DEF OverloadsFor
  <2> QED BY <2>1, NothingFaithful
<1>12. CASE type0.kind = "pair" \/ (type0.kind \in {"void", "tuple"} /\ parts # <<>>)
  <2>1. n = 2
    <3>1. type0.kind = "pair" => n = 2
      BY <1>1 DEF WellFormed, n
    <3>2. type0.kind = "tuple" => n = 0 \/ n = 2
      BY <1>1, EmptySeq DEF WellFormed, n
    <3>3. type0.kind = "void" => n = 0
      BY <1>1 DEF WellFormed, n, Templates
    <3> QED BY <1>4, <1>12, <3>1, <3>2, <3>3
  <2>2. OverloadsFor(type0, parts) = Pair(parts[1], parts[2])
    BY <1>12 DEF OverloadsFor
  <2> QED BY <1>2, <2>1, <2>2, PairFaithful
<1>13. type0.kind \in {"int", "uint", "byte", "bool", "string", "void", "vector", "array",
                       "optional", "variant", "pair", "tuple"}
  BY <1>1 DEF WellFormed, Numbers, Templates
<1> QED BY <1>5, <1>6, <1>7, <1>8, <1>9, <1>10, <1>11, <1>12, <1>13

(* Every type of the table, however it is nested, is written and read      *)
(* faithfully.                                                             *)
THEOREM CodecFaithful == \A t \in Types : Faithful(CodecOf[t])
<1> DEFINE P == {n \in Nat : \A t \in Types : t <= n => Faithful(CodecOf[t])}
<1>1. 0 \in P
  BY TypesShape
<1>2. ASSUME NEW n \in Nat, n \in P PROVE n + 1 \in P
  <2> SUFFICES ASSUME NEW t \in Types, t <= n + 1 PROVE Faithful(CodecOf[t])
    OBVIOUS
  <2> DEFINE parts == Parts(CodecOf, t)
  <2>1. ASSUME NEW i \in DOMAIN Table[t].parts PROVE Faithful(parts[i])
    <3>1. Table[t].parts[i] \in Types /\ Table[t].parts[i] <= n
      BY TypesShape
    <3>2. Faithful(CodecOf[Table[t].parts[i]])
      BY <1>2, <3>1
    <3> QED BY <3>2 DEF Parts
  <2>2. parts \in [DOMAIN Table[t].parts -> {parts[i] : i \in DOMAIN Table[t].parts}]
    BY DEF Parts
  <2>3. CodecOf[t] = OverloadsFor(Table[t], parts)
    BY CodecDef
  <2> HIDE DEF parts
  <2> QED BY <2>1, <2>2, <2>3, OverloadsFaithful
<1>3. Len(Table) \in P
  <2> HIDE DEF P
  <2> QED BY <1>1, <1>2, SetInduction, TypesShape
<1> QED BY <1>3, TypesShape

-----------------------------------------------------------------------------
(* A frame: the size of its first field, and its other fields.             *)
Rest(t) == CodecOf[Table[t].parts[2]]

LEMMA PairValues ==
    ASSUME NEW first, NEW second
    PROVE  Pair(first, second).values = first.values \X second.values
BY DEF Pair, Overloads

LEMMA FrameShape ==
    ASSUME NEW t \in Frames
    PROVE  /\ t \in Types /\ SizeWidth(t) \in Nat /\ Faithful(Rest(t))
           /\ CodecOf[t].values = (0 .. Radix[SizeWidth(t)] - 1) \X Rest(t).values
           /\ \A n \in 0 .. Radix[SizeWidth(t)] - 1, r \in Rest(t).values :
                 Serialize(t, <<n, r>>) = Digits(n, SizeWidth(t)) \o Rest(t).write[r]
<1> DEFINE w    == SizeWidth(t)
           size == CodecOf[Table[t].parts[1]]
<1>1. /\ t \in Types /\ Table[t].kind = "tuple" /\ Table[t].parts # <<>>
      /\ Table[Table[t].parts[1]].kind = "uint"
  BY MessagesAssumption
<1>2. Len(Table[t].parts) = 2 /\ DOMAIN Table[t].parts = 1 .. 2
  <2>1. Table[t].parts \in Seq(Nat) /\ (Table[t].parts = <<>> \/ Len(Table[t].parts) = 2)
    BY <1>1, TypesShape DEF WellFormed
  <2> QED BY <1>1, <2>1, EmptySeq
<1>3. Table[t].parts[1] \in Types /\ Table[t].parts[2] \in Types
  BY <1>1, <1>2, TypesShape
<1>4. size = Unsigned(w) /\ w \in Nat
  <2>1. OverloadsFor(Table[Table[t].parts[1]], Parts(CodecOf, Table[t].parts[1])) = Unsigned(w)
    BY <1>1 DEF OverloadsFor, SizeWidth
  <2> QED BY <1>3, <2>1, CodecDef, TypesShape DEF SizeWidth
<1>5. Faithful(Rest(t))
  BY <1>3, CodecFaithful DEF Rest
<1>6. CodecOf[t] = Pair(size, Rest(t))
  <2> DEFINE parts == Parts(CodecOf, t)
  <2>1. parts[1] = size /\ parts[2] = Rest(t)
    BY <1>2 DEF Parts, Rest
  <2>2. parts # <<>>
    BY <1>2, EmptySeq DEF Parts
  <2> HIDE DEF parts
  <2>3. OverloadsFor(Table[t], parts) = Pair(parts[1], parts[2])
    BY <1>1, <2>2 DEF OverloadsFor
  <2> QED BY <1>1, <2>1, <2>3, CodecDef DEF parts
<1> HIDE DEF w, size
<1>7. size.values = 0 .. Radix[w] - 1 /\ \A n \in size.values : size.write[n] = Digits(n, w)
  BY <1>4, UnsignedParts
<1>8. CodecOf[t].values = size.values \X Rest(t).values
  BY <1>6, PairValues
<1>9. ASSUME NEW n \in size.values, NEW r \in Rest(t).values
      PROVE  Serialize(t, <<n, r>>) = Digits(n, w) \o Rest(t).write[r]
  <2>1. CodecOf[t].write[<<n, r>>] = size.write[n] \o Rest(t).write[r]
    <3> DEFINE rest == Rest(t)
    <3>1. n \in size.values /\ r \in rest.values
      OBVIOUS
    <3> HIDE DEF rest
    <3>2. Pair(size, rest).write[<<n, r>>] = size.write[n] \o rest.write[r]
      <4> DEFINE v == <<n, r>>
      <4>1. v \in size.values \X rest.values /\ v[1] = n /\ v[2] = r
        BY <3>1
      <4> HIDE DEF v
      <4>2. Pair(size, rest).write[v] = size.write[v[1]] \o rest.write[v[2]]
        BY <4>1 DEF Pair, Overloads
      <4> QED BY <4>1, <4>2 DEF v
    <3> QED BY <1>6, <3>2 DEF rest
  <2>2. size.write[n] = Digits(n, w)
    BY <1>7
  <2> QED BY <2>1, <2>2 DEF Serialize
<1> QED BY <1>1, <1>4, <1>5, <1>7, <1>8, <1>9 DEF w

(* Whatever its size field holds, a frame has the same length, and that is *)
(* what Sized puts there.                                                  *)
LEMMA SizedFrame ==
    ASSUME NEW t \in Frames, NEW v \in CodecOf[t].values
    PROVE  LET n == SizeWidth(t) + Len(Rest(t).write[v[2]])
           IN  /\ n \in Nat
               /\ Sized(t, v) = <<n % Radix[SizeWidth(t)], v[2]>>
               /\ Sized(t, v) \in CodecOf[t].values
               /\ Len(Serialize(t, Sized(t, v))) = n
               /\ n < Radix[SizeWidth(t)] =>
                     Serialize(t, Sized(t, v)) = Digits(n, SizeWidth(t)) \o Rest(t).write[v[2]]
<1> DEFINE w == SizeWidth(t)
           r == v[2]
           b == Rest(t).write[r]
           n == w + Len(b)
           All == 0 .. Radix[w] - 1
<1>1. /\ w \in Nat /\ v = <<v[1], r>> /\ v[1] \in All /\ r \in Rest(t).values
      /\ CodecOf[t].values = All \X Rest(t).values
  BY FrameShape
<1>2. b \in Bytes /\ Len(b) \in Nat
  <2>1. b \in Bytes
    BY <1>1, FrameShape DEF Faithful
  <2> QED BY <2>1, Joining
<1>3. \A m \in All : Serialize(t, <<m, r>>) = Digits(m, w) \o b
  BY <1>1, FrameShape
<1>4. Radix[w] \in Nat /\ Radix[w] > 0 /\ 0 \in All
  BY <1>1, RadixPositive
<1> HIDE DEF w, r, b
<1>5. ASSUME NEW m \in All PROVE Len(Serialize(t, <<m, r>>)) = n
  <2>1. Digits(m, w) \in Bytes /\ Len(Digits(m, w)) = w
    BY <1>1, <1>4, DigitsType
  <2>2. Len(Digits(m, w) \o b) = Len(Digits(m, w)) + Len(b)
    BY <1>2, <2>1, CutAt
  <2> QED BY <1>3, <2>1, <2>2
<1>6. n \in Nat /\ n % Radix[w] \in All
  <2>1. n \in Nat
    BY <1>1, <1>2
  <2> HIDE DEF n
  <2> QED BY <1>4, <2>1
<1>7. Sized(t, v) = <<n % Radix[w], r>>
  <2>1. \A m : [v EXCEPT ![1] = m] = <<m, r>>
    BY <1>1
  <2>2. Sized(t, v) = [v EXCEPT ![1] = Len(Serialize(t, [v EXCEPT ![1] = 0])) % Radix[w]]
    BY DEF Sized, w
  <2>3. Len(Serialize(t, [v EXCEPT ![1] = 0])) = n
    BY <1>4, <1>5, <2>1
  <2> HIDE DEF n
  <2> QED BY <2>1, <2>2, <2>3
<1> HIDE DEF n
<1>8. Sized(t, v) \in CodecOf[t].values
  BY <1>1, <1>6, <1>7
<1>9. Len(Serialize(t, Sized(t, v))) = n
  BY <1>5, <1>6, <1>7
<1>10. n < Radix[w] => Serialize(t, Sized(t, v)) = Digits(n, w) \o b
  <2> SUFFICES ASSUME n < Radix[w] PROVE Serialize(t, Sized(t, v)) = Digits(n, w) \o b
    OBVIOUS
  <2>1. n % Radix[w] = n
    BY <1>4, <1>6
  <2> QED BY <1>3, <1>6, <1>7, <2>1
<1> QED BY <1>6, <1>7, <1>8, <1>9, <1>10 DEF n, w, r, b

-----------------------------------------------------------------------------
(* What was sent are the bytes of a value of its type, the size field of a *)
(* frame filled in; what is received are some bytes.                       *)
CodecInv ==
    /\ type \in Messages
    /\ \E v \in Values(type) : value = IF type \in Frames THEN Sized(type, v) ELSE v
    /\ sent = Serialize(type, value)
    /\ wire \in Bytes

LEMMA MessageFaithful ==
    ASSUME CodecInv
    PROVE  /\ type \in Types /\ Faithful(CodecOf[type]) /\ value \in CodecOf[type].values
           /\ sent = CodecOf[type].write[value] /\ sent \in Bytes
<1>1. type \in Types /\ \A v \in Values(type) : v \in CodecOf[type].values
  BY MessagesAssumption DEF CodecInv
<1>2. Faithful(CodecOf[type])
  BY <1>1, CodecFaithful
<1>3. PICK v \in Values(type) : value = IF type \in Frames THEN Sized(type, v) ELSE v
  BY DEF CodecInv
<1>4. value \in CodecOf[type].values
  <2>1. CASE type \in Frames
    <3>1. Sized(type, v) \in CodecOf[type].values
      BY <1>1, <2>1, SizedFrame
    <3> QED BY <1>3, <2>1, <3>1
  <2>2. CASE type \notin Frames
    BY <1>1, <1>3, <2>2
  <2> QED BY <2>1, <2>2
<1>5. sent = CodecOf[type].write[value]
  BY DEF CodecInv, Serialize
<1> QED BY <1>1, <1>2, <1>4, <1>5 DEF Faithful

(* What is sent is always what serialize() makes of a value of its type,   *)
(* however the bytes that are read were changed.                           *)
THEOREM CodecInvariant == Spec => []CodecInv
<1>1. Init => CodecInv
  <2> SUFFICES ASSUME Init PROVE CodecInv
    OBVIOUS
  <2>1. /\ type \in Messages /\ sent = Serialize(type, value) /\ wire = sent
        /\ \E v \in Values(type) : value = IF type \in Frames THEN Sized(type, v) ELSE v
    BY DEF Init
  <2>2. PICK v \in Values(type) : value = IF type \in Frames THEN Sized(type, v) ELSE v
    BY <2>1
  <2>3. type \in Types /\ v \in CodecOf[type].values
    BY <2>1, MessagesAssumption
  <2>4. value \in CodecOf[type].values
    <3>1. CASE type \in Frames
      <4>1. Sized(type, v) \in CodecOf[type].values
        BY <2>3, <3>1, SizedFrame
      <4> QED BY <2>2, <3>1, <4>1
    <3>2. CASE type \notin Frames
      BY <2>2, <2>3, <3>2
    <3> QED BY <3>1, <3>2
  <2>5. wire \in Bytes
    BY <2>1, <2>3, <2>4, CodecFaithful DEF Faithful, Serialize
  <2> QED BY <2>1, <2>5 DEF CodecInv
<1>2. CodecInv /\ [Next]_vars => CodecInv'
  <2> SUFFICES ASSUME CodecInv, [Next]_vars PROVE CodecInv'
    OBVIOUS
  <2>1. CASE UNCHANGED vars
    BY <2>1 DEF CodecInv, vars
  <2>2. CASE Next
    <3>1. ASSUME NEW bytes \in Bytes, Change(bytes) PROVE CodecInv'
      BY <3>1 DEF CodecInv, Change
    <3>2. Len(wire) \in Nat /\ wire \in Seq(Byte) /\ DOMAIN wire = 1 .. Len(wire)
      BY DEF CodecInv, Bytes
    <3>3. CASE Cut
      <4>1. wire # <<>> /\ Change(Front(wire))
        BY <3>3 DEF Cut
      <4>2. Len(wire) - 1 \in Nat /\ Len(wire) - 1 <= Len(wire)
        BY <3>2, <4>1, EmptySeq
      <4>3. Front(wire) \in Bytes
        BY <4>2, CutBytes DEF CodecInv, Front
      <4> QED BY <3>1, <4>1, <4>3
    <3>4. ASSUME NEW b \in Byte, Extend(b) PROVE CodecInv'
      <4>1. Append(wire, b) \in Bytes
        BY <3>2, AppendProperties DEF Bytes
      <4> QED BY <3>1, <3>4, <4>1 DEF Extend
    <3>5. ASSUME NEW b \in Byte, NEW i \in DOMAIN wire, Garble(i, b) PROVE CodecInv'
      <4>1. [wire EXCEPT ![i] = b] \in Bytes
        BY <3>2 DEF Bytes
      <4> QED BY <3>1, <3>5, <4>1 DEF Garble
    <3> QED BY <2>2, <3>3, <3>4, <3>5 DEF Next
  <2> QED BY <2>1, <2>2
<1> QED BY <1>1, <1>2, PTL DEF Spec

(* What deserialize() makes of any bytes. *)
LEMMA Deserialized ==
    ASSUME NEW t \in Types, NEW b \in Bytes, NEW v
    PROVE  /\ CodecOf[t].read[b] = Throws => Deserialize(t, b) = Throws
           /\ CodecOf[t].read[b] = Undefined => Deserialize(t, b) = Undefined
           /\ \A rest : CodecOf[t].read[b] = Value(v, rest) =>
                 Deserialize(t, b) = IF rest = <<>> THEN Value(v, <<>>) ELSE Throws
<1>1. Deserialize(t, b) = IF CodecOf[t].read[b].status = "value"
                          THEN IF CodecOf[t].read[b].rest = <<>> THEN CodecOf[t].read[b] ELSE Throws
                          ELSE CodecOf[t].read[b]
  BY DEF Deserialize, NoJunk, Then
<1> QED BY <1>1, ResultsDiffer

(* What was serialized is deserialized again, but a variant that does not  *)
(* hold its first alternative is refused.                                  *)
THEOREM CodecRoundTrip == Spec => []RoundTrip
<1>1. CodecInv => RoundTrip
  <2> SUFFICES ASSUME CodecInv, wire = sent
               PROVE  IF value \in CodecOf[type].readable
                      THEN Is(Deserialize(type, wire), value)
                      ELSE Deserialize(type, wire) = Throws
    BY DEF RoundTrip
  <2> DEFINE c == CodecOf[type]
  <2>1. /\ type \in Types /\ Faithful(c) /\ value \in c.values
        /\ sent = c.write[value] /\ sent \in Bytes
    BY MessageFaithful
  <2>2. wire = c.write[value] \o <<>> /\ wire \in Bytes /\ <<>> \in Bytes
    BY <2>1, Joining
  <2>3. c.read[c.write[value] \o <<>>] = IF value \in c.readable THEN Value(value, <<>>) ELSE Throws
    BY <2>1, <2>2 DEF Faithful, ReadsBack
  <2> HIDE DEF c
  <2>4. c.read[wire] = IF value \in c.readable THEN Value(value, <<>>) ELSE Throws
    BY <2>2, <2>3
  <2>5. CASE value \in c.readable
    <3>1. Deserialize(type, wire) = Value(value, <<>>)
      BY <2>1, <2>2, <2>4, <2>5, Deserialized DEF c
    <3> QED BY <2>5, <3>1, ResultsDiffer DEF Is, c
  <2>6. CASE value \notin c.readable
    BY <2>1, <2>2, <2>4, <2>6, Deserialized DEF c
  <2> QED BY <2>5, <2>6 DEF c
<1> QED BY <1>1, CodecInvariant, PTL

(* Only the bytes that serialize() makes of a value are read as it.        *)
THEOREM CodecCanonical == Spec => []Canonical
<1>1. CodecInv => Canonical
  <2> SUFFICES ASSUME CodecInv, Deserialize(type, wire).status = "value"
               PROVE  Serialize(type, Deserialize(type, wire).value) = wire
    BY DEF Canonical
  <2> DEFINE c == CodecOf[type]
  <2>1. type \in Types /\ Faithful(c) /\ wire \in Bytes
    BY MessageFaithful DEF CodecInv
  <2>2. c.read[wire] # Throws /\ c.read[wire] # Undefined
    BY <2>1, Deserialized, ResultsDiffer
  <2>3. PICK v \in c.readable, rest \in Bytes : c.read[wire] = Value(v, rest) /\ wire = c.write[v] \o rest
    BY <2>1, <2>2 DEF Faithful, ReadsOnly
  <2>4. Deserialize(type, wire) = IF rest = <<>> THEN Value(v, <<>>) ELSE Throws
    BY <2>1, <2>3, Deserialized
  <2>5. rest = <<>> /\ Deserialize(type, wire).value = v
    BY <2>4, ResultsDiffer
  <2>6. wire = c.write[v]
    BY <2>1, <2>3, <2>5, Joining DEF Faithful
  <2> QED BY <2>5, <2>6 DEF Serialize
<1> QED BY <1>1, CodecInvariant, PTL

(* Bytes of which other bytes are the beginning, or which begin them. *)
LEMMA PrefixSplits ==
    ASSUME NEW a \in Bytes, NEW b \in Bytes, IsPrefix(a, b), a # b
    PROVE  \E more \in Bytes : more # <<>> /\ b = a \o more
<1> DEFINE w    == Len(a)
           more == SubSeq(b, w + 1, Len(b))
<1>1. w \in Nat /\ w <= Len(b) /\ SubSeq(a, 1, w) = SubSeq(b, 1, w)
  BY Joining DEF IsPrefix
<1>2. SubSeq(a, 1, w) = a
  BY SubSeqFull DEF Bytes
<1>3. more \in Bytes /\ b = SubSeq(b, 1, w) \o more
  BY <1>1, CutBytes
<1> HIDE DEF w, more
<1>4. b = a \o more
  BY <1>1, <1>2, <1>3
<1>5. more # <<>>
  BY <1>4, Joining
<1> QED BY <1>3, <1>4, <1>5

(* A message cut short, or with bytes after its end, is refused.           *)
THEOREM CodecSelfDelimiting == Spec => []SelfDelimiting
<1>1. CodecInv => SelfDelimiting
  <2> SUFFICES ASSUME CodecInv, wire # sent, IsPrefix(wire, sent) \/ IsPrefix(sent, wire)
               PROVE  Deserialize(type, wire) = Throws
    BY DEF SelfDelimiting
  <2> DEFINE c == CodecOf[type]
  <2>1. /\ type \in Types /\ Faithful(c) /\ value \in c.values
        /\ sent = c.write[value] /\ sent \in Bytes /\ wire \in Bytes
    BY MessageFaithful DEF CodecInv
  <2> HIDE DEF c
  <2>2. ASSUME NEW rest \in Bytes
        PROVE  c.read[sent \o rest] = IF value \in c.readable THEN Value(value, rest) ELSE Throws
    BY <2>1 DEF Faithful, ReadsBack
  <2>3. CASE IsPrefix(wire, sent)
    <3>1. PICK more \in Bytes : more # <<>> /\ sent = wire \o more
      BY <2>1, <2>3, PrefixSplits
    <3>2. c.read[sent] = IF value \in c.readable THEN Value(value, <<>>) ELSE Throws
      <4>1. <<>> \in Bytes /\ sent \o <<>> = sent
        BY <2>1, Joining
      <4>2. c.read[sent \o <<>>] = IF value \in c.readable THEN Value(value, <<>>) ELSE Throws
        BY <2>2, <4>1
      <4> QED BY <4>1, <4>2
    <3>3. CASE c.read[wire] = Throws
      BY <2>1, <3>3, Deserialized DEF c
    <3>4. CASE c.read[wire] = Undefined
      <4>1. c.read[sent] = Undefined
        BY <2>1, <3>1, <3>4 DEF Faithful, StaysUndefined
      <4> QED BY <3>2, <4>1, ResultsDiffer
    <3>5. CASE \E v \in c.readable, rest \in Bytes : c.read[wire] = Value(v, rest) /\ wire = c.write[v] \o rest
      <4>1. PICK v \in c.readable, rest \in Bytes : c.read[wire] = Value(v, rest) /\ wire = c.write[v] \o rest
        BY <3>5
      <4>2. CASE rest # <<>>
        <5>1. CodecOf[type].read[wire] = Value(v, rest)
          BY <4>1 DEF c
        <5>2. Deserialize(type, wire) = IF rest = <<>> THEN Value(v, <<>>) ELSE Throws
          BY <2>1, <5>1, Deserialized
        <5> QED BY <4>2, <5>2
      <4>3. CASE rest = <<>>
        <5>1. wire = c.write[v] /\ v \in c.values
          BY <2>1, <4>1, <4>3, Joining DEF Faithful
        <5>2. c.read[sent] = Value(v, more)
          BY <2>1, <3>1, <4>1, <5>1 DEF Faithful, ReadsBack
        <5> QED BY <3>1, <3>2, <5>2, ResultsDiffer
      <4> QED BY <4>2, <4>3
    <3> QED BY <2>1, <3>3, <3>4, <3>5 DEF Faithful, ReadsOnly
  <2>4. CASE IsPrefix(sent, wire)
    <3>1. PICK more \in Bytes : more # <<>> /\ wire = sent \o more
      BY <2>1, <2>4, PrefixSplits
    <3>2. c.read[wire] = IF value \in c.readable THEN Value(value, more) ELSE Throws
      BY <2>2, <3>1
    <3>3. CASE value \in c.readable
      <4>1. CodecOf[type].read[wire] = Value(value, more)
        BY <3>2, <3>3 DEF c
      <4>2. Deserialize(type, wire) = IF more = <<>> THEN Value(value, <<>>) ELSE Throws
        BY <2>1, <4>1, Deserialized
      <4> QED BY <3>1, <4>2
    <3>4. CASE value \notin c.readable
      BY <2>1, <3>2, <3>4, Deserialized DEF c
    <3> QED BY <3>3, <3>4
  <2> QED BY <2>3, <2>4
<1> QED BY <1>1, CodecInvariant, PTL

(* The first bytes of a frame spell its length, wherever its size field    *)
(* can hold it.                                                            *)
THEOREM CodecFrameSpellsLength == Spec => []FrameSpellsLength
<1>1. CodecInv => FrameSpellsLength
  <2> SUFFICES ASSUME CodecInv, type \in Frames, Len(sent) < Radix[SizeWidth(type)]
               PROVE  Is(ReadUnsigned(SizeWidth(type), sent), Len(sent))
    BY DEF FrameSpellsLength
  <2>1. PICK v \in Values(type) : value = Sized(type, v)
    BY DEF CodecInv
  <2>2. type \in Types /\ v \in CodecOf[type].values /\ sent = Serialize(type, value)
    BY MessagesAssumption DEF CodecInv
  <2> DEFINE w == SizeWidth(type)
             b == Rest(type).write[v[2]]
             n == w + Len(b)
  <2>3. n \in Nat /\ Len(sent) = n /\ (n < Radix[w] => sent = Digits(n, w) \o b)
    BY <2>1, <2>2, SizedFrame
  <2>4. b \in Bytes /\ w \in Nat
    <3>1. v[2] \in Rest(type).values
      BY <2>2, FrameShape
    <3> QED BY <3>1, FrameShape DEF Faithful
  <2> HIDE DEF w, b, n
  <2>5. n \in 0 .. Radix[w] - 1 /\ sent = Digits(n, w) \o b
    BY <2>3, <2>4, RadixPositive DEF w
  <2>6. ReadUnsigned(w, sent) = Value(n, b)
    BY <2>4, <2>5, ReadNumber
  <2> QED BY <2>3, <2>6, ResultsDiffer DEF Is, w
<1> QED BY <1>1, CodecInvariant, PTL

(***************************************************************************)
(* Types whose texts are the same                                          *)
(***************************************************************************)

(* What d reads out of what c writes: the same value, or nothing that is   *)
(* defined if d does not have it.                                          *)
Agrees(c, d) ==
    \A v \in c.readable, rest \in Bytes :
        d.read[c.write[v] \o rest] = IF v \in d.readable THEN Value(v, rest) ELSE Undefined

LEMMA SameAgrees ==
    ASSUME NEW c, Faithful(c)
    PROVE  Agrees(c, c)
BY DEF Faithful, ReadsBack, Agrees

LEMMA BoolsAndNumbers == Agrees(Bool, Unsigned(1)) /\ Agrees(Unsigned(1), Bool)
<1> DEFINE c == Unsigned(1)
           All == 0 .. Radix[1] - 1
<1>1. /\ c.readable = All
      /\ \A n \in All : c.write[n] = Digits(n, 1)
      /\ \A b \in Bytes : c.read[b] = ReadUnsigned(1, b)
  BY UnsignedParts
<1>2. 0 \in All /\ 1 \in All
  BY RadixDef, BaseType
<1>3. ASSUME NEW n \in All, NEW rest \in Bytes
      PROVE  /\ Digits(n, 1) \o rest \in Bytes
             /\ ReadUnsigned(1, Digits(n, 1) \o rest) = Value(n, rest)
  <2>1. n \in Nat
    BY RadixPositive
  <2>2. Digits(n, 1) \in Bytes
    BY <2>1, DigitsType
  <2> QED BY <2>2, ReadNumber, Joining
<1> HIDE DEF c, All
<1>4. Agrees(Bool, c)
  <2> SUFFICES ASSUME NEW n \in {0, 1}, NEW rest \in Bytes
               PROVE  c.read[Bool.write[n] \o rest] = IF n \in c.readable THEN Value(n, rest) ELSE Undefined
    BY BoolParts DEF Agrees
  <2>1. n \in All /\ Bool.write[n] = Digits(n, 1)
    BY <1>2, BoolParts
  <2> QED BY <1>1, <1>3, <2>1
<1>5. Agrees(c, Bool)
  <2> SUFFICES ASSUME NEW n \in All, NEW rest \in Bytes
               PROVE  Bool.read[c.write[n] \o rest] = IF n \in {0, 1} THEN Value(n, rest) ELSE Undefined
    BY <1>1, BoolParts DEF Agrees
  <2>1. c.write[n] = Digits(n, 1)
    BY <1>1
  <2>2. Bool.read[Digits(n, 1) \o rest] = IF n \in {0, 1} THEN Value(n, rest) ELSE Undefined
    BY <1>3, BoolParts, ResultsDiffer
  <2> QED BY <2>1, <2>2
<1> QED BY <1>4, <1>5 DEF c

LEMMA AppendIn ==
    ASSUME NEW V, NEW W, NEW n \in Nat, NEW x \in [1 .. n -> V], NEW y \in V
    PROVE  Append(x, y) \in [1 .. n + 1 -> W] <=> x \in [1 .. n -> W] /\ y \in W
<1> DEFINE z == Append(x, y)
<1>1. x \in Seq(V) /\ Len(x) = n
  BY Grown
<1>2. z[n + 1] = y /\ \A i \in 1 .. n : z[i] = x[i]
  BY <1>1, AppendProperties
<1>3. ASSUME x \in [1 .. n -> W], y \in W PROVE z \in [1 .. n + 1 -> W]
  BY <1>3, Grown
<1> HIDE DEF z
<1>4. ASSUME z \in [1 .. n + 1 -> W] PROVE x \in [1 .. n -> W] /\ y \in W
  <2>1. \A i \in 1 .. n + 1 : z[i] \in W
    BY <1>4
  <2>2. n + 1 \in 1 .. n + 1 /\ \A i \in 1 .. n : i \in 1 .. n + 1
    OBVIOUS
  <2>3. y \in W /\ \A i \in 1 .. n : x[i] \in W
    BY <1>2, <2>1, <2>2
  <2> QED BY <2>3
<1> QED BY <1>3, <1>4 DEF z

LEMMA ElementsBytes ==
    ASSUME NEW part, NEW V, \A v \in V : part.write[v] \in Bytes, NEW x \in Seq(V)
    PROVE  Elements(part, x) \in Bytes
<1>1. CASE x = <<>>
  BY <1>1, NoElements, Joining
<1>2. CASE x # <<>>
  <2>1. x[1] \in V
    BY <1>2
  <2> QED BY <2>1, MoreElements
<1> QED BY <1>1, <1>2

(* What was written as elements of one type and is read as those of        *)
(* another.                                                                *)
ReadAlike(p, q, n) ==
    \A v \in [1 .. n -> p.readable], rest \in Bytes :
        /\ Elements(p, v) \o rest \in Bytes
        /\ ReadElements(q, n, Elements(p, v) \o rest)
              = IF v \in [1 .. n -> q.readable] THEN Value(v, rest) ELSE Undefined

LEMMA ElementsAgree ==
    ASSUME NEW p, NEW q, Faithful(p), Faithful(q), Agrees(p, q)
    PROVE  \A n \in Nat : ReadAlike(p, q, n)
<1> DEFINE P == {n \in Nat : ReadAlike(p, q, n)}
<1>1. 0 \in P
  <2> SUFFICES ASSUME NEW v \in [1 .. 0 -> p.readable], NEW rest \in Bytes
               PROVE  /\ Elements(p, v) \o rest \in Bytes
                      /\ ReadElements(q, 0, Elements(p, v) \o rest)
                            = IF v \in [1 .. 0 -> q.readable] THEN Value(v, rest) ELSE Undefined
    BY DEF ReadAlike
  <2>1. v = <<>> /\ v \in [1 .. 0 -> q.readable]
    OBVIOUS
  <2>2. Elements(p, v) \o rest = rest
    BY <2>1, NoElements, Joining
  <2>3. ReadElements(q, 0, rest) = Value(<<>>, rest)
    BY ReadElementsSteps
  <2> QED BY <2>1, <2>2, <2>3
<1>2. ASSUME NEW n \in Nat, n \in P PROVE n + 1 \in P
  <2>1. ReadAlike(p, q, n)
    BY <1>2
  <2> SUFFICES ASSUME NEW v \in [1 .. n + 1 -> p.readable], NEW rest \in Bytes
               PROVE  /\ Elements(p, v) \o rest \in Bytes
                      /\ ReadElements(q, n + 1, Elements(p, v) \o rest)
                            = IF v \in [1 .. n + 1 -> q.readable] THEN Value(v, rest) ELSE Undefined
    BY DEF ReadAlike
  <2>2. PICK x \in [1 .. n -> p.readable] : \E y \in p.readable : v = Append(x, y)
    <3>1. Grows(v, n, p.readable)
      BY Shrunk
    <3> QED BY <3>1 DEF Grows
  <2>3. PICK y \in p.readable : v = Append(x, y)
    BY <2>2
  <2>4. \A w \in p.readable : p.write[w] \in Bytes
    BY DEF Faithful
  <2>5. x \in Seq(p.readable)
    BY Grown
  <2>6. Elements(p, x) \in Bytes /\ Elements(p, v) = Elements(p, x) \o p.write[y]
    BY <2>3, <2>4, <2>5, MoreElements
  <2> DEFINE left == p.write[y] \o rest
             b == Elements(p, v) \o rest
  <2>7. p.write[y] \in Bytes /\ left \in Bytes /\ b = Elements(p, x) \o left
    <3>1. p.write[y] \in Bytes
      BY <2>4
    <3>2. left \in Bytes
      BY <3>1, Joining
    <3>3. (Elements(p, x) \o p.write[y]) \o rest = Elements(p, x) \o (p.write[y] \o rest)
      BY <2>6, <3>1, Joining
    <3> QED BY <2>6, <3>1, <3>2, <3>3
  <2>8. b \in Bytes
    BY <2>6, <2>7, Joining
  <2>9. q.read[left] = IF y \in q.readable THEN Value(y, rest) ELSE Undefined
    BY DEF Agrees
  <2> HIDE DEF left, b
  <2>10. ReadElements(q, n, b) = IF x \in [1 .. n -> q.readable] THEN Value(x, left) ELSE Undefined
    BY <2>1, <2>7 DEF ReadAlike
  <2>11. ReadElements(q, n + 1, b) = AppendRead(q, ReadElements(q, n, b))
    BY <2>8, ReadElementsSteps
  <2>12. v \in [1 .. n + 1 -> q.readable] <=> x \in [1 .. n -> q.readable] /\ y \in q.readable
    BY <2>3, AppendIn
  <2>13. ReadElements(q, n + 1, b)
            = IF v \in [1 .. n + 1 -> q.readable] THEN Value(v, rest) ELSE Undefined
    <3>1. CASE x \notin [1 .. n -> q.readable]
      BY <2>10, <2>11, <2>12, <3>1, AppendReads
    <3>2. CASE x \in [1 .. n -> q.readable] /\ y \notin q.readable
      BY <2>9, <2>10, <2>11, <2>12, <3>2, AppendReads
    <3>3. CASE x \in [1 .. n -> q.readable] /\ y \in q.readable
      BY <2>3, <2>9, <2>10, <2>11, <2>12, <3>3, AppendReads
    <3> QED BY <3>1, <3>2, <3>3
  <2> QED BY <2>8, <2>13 DEF b
<1>3. P = Nat
  <2>1. P \subseteq Nat
    OBVIOUS
  <2> HIDE DEF P
  <2> QED BY <1>1, <1>2, <2>1, SetInduction
<1> QED BY <1>3

LEMMA ArrayAgrees ==
    ASSUME NEW p, NEW q, Faithful(p), Faithful(q), Agrees(p, q), NEW n \in Nat
    PROVE  Agrees(Array(p, n), Array(q, n))
<1> DEFINE c == Array(p, n)
           d == Array(q, n)
<1>1. /\ c.readable = [1 .. n -> p.readable] /\ d.readable = [1 .. n -> q.readable]
      /\ \A v \in [1 .. n -> p.values] : c.write[v] = Elements(p, v)
      /\ \A b \in Bytes : d.read[b] = ReadElements(q, n, b)
  BY ArrayParts
<1>2. [1 .. n -> p.readable] \subseteq [1 .. n -> p.values]
  BY DEF Faithful
<1> HIDE DEF c, d
<1> SUFFICES ASSUME NEW v \in [1 .. n -> p.readable], NEW rest \in Bytes
             PROVE  d.read[c.write[v] \o rest] = IF v \in d.readable THEN Value(v, rest) ELSE Undefined
  BY <1>1 DEF Agrees, c, d
<1>3. c.write[v] = Elements(p, v)
  BY <1>1, <1>2
<1>4. /\ Elements(p, v) \o rest \in Bytes
      /\ ReadElements(q, n, Elements(p, v) \o rest)
            = IF v \in [1 .. n -> q.readable] THEN Value(v, rest) ELSE Undefined
  BY ElementsAgree DEF ReadAlike
<1> QED BY <1>1, <1>3, <1>4

LEMMA CountedAgrees ==
    ASSUME NEW c, NEW d, NEW f, NEW p, NEW q, Faithful(f), Faithful(p), Faithful(q),
           Agrees(p, q), Counts(c, f, p), Counts(d, f, q)
    PROVE  Agrees(c, d)
<1> SUFFICES ASSUME NEW v \in c.readable, NEW rest \in Bytes
             PROVE  d.read[c.write[v] \o rest] = IF v \in d.readable THEN Value(v, rest) ELSE Undefined
  BY DEF Agrees
<1> DEFINE n == Len(v)
           left == Elements(p, v) \o rest
           b == c.write[v] \o rest
<1>1. v \in Seq(p.readable) /\ n \in f.values /\ n \in Nat
  BY DEF Counts
<1>2. v \in [1 .. n -> p.readable]
  BY <1>1, SeqArray
<1>3. v \in c.values
  <2>1. Faithful(c)
    BY CountedFaithful
  <2> QED BY <2>1 DEF Faithful
<1>4. /\ left \in Bytes
      /\ ReadElements(q, n, left) = IF v \in [1 .. n -> q.readable] THEN Value(v, rest) ELSE Undefined
  BY <1>1, <1>2, ElementsAgree DEF ReadAlike
<1>5. f.write[n] \in Bytes /\ Elements(p, v) \in Bytes
  <2>1. \A w \in p.readable : p.write[w] \in Bytes
    BY DEF Faithful
  <2>2. Elements(p, v) \in Bytes
    BY <1>1, <2>1, ElementsBytes
  <2> QED BY <1>1, <2>2 DEF Faithful
<1>6. b = f.write[n] \o left /\ b \in Bytes
  <2>1. c.write[v] = f.write[n] \o Elements(p, v)
    BY <1>3 DEF Counts
  <2>2. (f.write[n] \o Elements(p, v)) \o rest = f.write[n] \o (Elements(p, v) \o rest)
    BY <1>5, Joining
  <2>3. f.write[n] \o left \in Bytes
    BY <1>4, <1>5, Joining
  <2> QED BY <2>1, <2>2, <2>3
<1>7. v \in d.readable <=> v \in [1 .. n -> q.readable]
  <2>1. v \in d.readable <=> v \in Seq(q.readable)
    BY <1>1 DEF Counts
  <2> QED BY <1>1, <2>1, SeqArray
<1> HIDE DEF n, left, b
<1>8. f.read[b] = Value(n, left)
  <2>1. n \in f.readable
    BY <1>1 DEF Counts
  <2> QED BY <1>1, <1>4, <1>6, <2>1 DEF Faithful, ReadsBack
<1>9. d.read[b] = ReadElements(q, n, left)
  <2>1. f.read[b].status = "value" => d.read[b] = ReadElements(q, f.read[b].value, f.read[b].rest)
    BY <1>6 DEF Counts
  <2>2. f.read[b].status = "value" /\ f.read[b].value = n /\ f.read[b].rest = left
    BY <1>8, ResultsDiffer
  <2> QED BY <2>1, <2>2
<1> QED BY <1>4, <1>7, <1>9 DEF b

LEMMA PairAgrees ==
    ASSUME NEW p, NEW q, NEW r, NEW s, Faithful(p), Faithful(q), Faithful(r), Faithful(s),
           Agrees(p, r), Agrees(q, s)
    PROVE  Agrees(Pair(p, q), Pair(r, s))
<1> DEFINE c == Pair(p, q)
           d == Pair(r, s)
<1>1. /\ c.readable = p.readable \X q.readable /\ d.readable = r.readable \X s.readable
      /\ \A v \in p.values \X q.values : c.write[v] = p.write[v[1]] \o q.write[v[2]]
      /\ \A b \in Bytes : d.read[b]
            = IF r.read[b].status = "value"
              THEN IF s.read[r.read[b].rest].status = "value"
                   THEN Value(<<r.read[b].value, s.read[r.read[b].rest].value>>,
                              s.read[r.read[b].rest].rest)
                   ELSE s.read[r.read[b].rest]
              ELSE r.read[b]
  BY DEF Pair, Overloads, Then
<1> HIDE DEF c, d
<1> SUFFICES ASSUME NEW v \in c.readable, NEW rest \in Bytes
             PROVE  d.read[c.write[v] \o rest] = IF v \in d.readable THEN Value(v, rest) ELSE Undefined
  BY DEF Agrees, c, d
<1> DEFINE x == v[1]
           y == v[2]
           left == q.write[y] \o rest
           b == c.write[v] \o rest
<1>2. x \in p.readable /\ y \in q.readable /\ v = <<x, y>>
  BY <1>1
<1>3. x \in p.values /\ y \in q.values /\ p.write[x] \in Bytes /\ q.write[y] \in Bytes
  BY <1>2 DEF Faithful
<1>4. left \in Bytes
  BY <1>3, Joining
<1>5. b = p.write[x] \o left /\ b \in Bytes
  <2>1. v \in p.values \X q.values
    BY <1>2, <1>3
  <2>2. c.write[v] = p.write[x] \o q.write[y]
    BY <1>1, <2>1
  <2>3. (p.write[x] \o q.write[y]) \o rest = p.write[x] \o (q.write[y] \o rest)
    BY <1>3, Joining
  <2>4. p.write[x] \o left \in Bytes
    BY <1>3, <1>4, Joining
  <2> QED BY <2>2, <2>3, <2>4
<1>6. s.read[left] = IF y \in s.readable THEN Value(y, rest) ELSE Undefined
  BY <1>2 DEF Agrees
<1>7. v \in d.readable <=> x \in r.readable /\ y \in s.readable
  BY <1>1, <1>2
<1> HIDE DEF x, y, left, b
<1>8. r.read[b] = IF x \in r.readable THEN Value(x, left) ELSE Undefined
  BY <1>2, <1>4, <1>5 DEF Agrees
<1>9. CASE x \notin r.readable
  BY <1>1, <1>5, <1>7, <1>8, <1>9, ResultsDiffer DEF b
<1>10. CASE x \in r.readable
  <2>1. r.read[b] = Value(x, left)
    BY <1>8, <1>10
  <2>2. d.read[b] = IF s.read[left].status = "value"
                    THEN Value(<<x, s.read[left].value>>, s.read[left].rest)
                    ELSE s.read[left]
    BY <1>1, <1>5, <2>1, ResultsDiffer
  <2>3. CASE y \in s.readable
    BY <1>2, <1>6, <1>7, <1>10, <2>2, <2>3, ResultsDiffer DEF b
  <2>4. CASE y \notin s.readable
    BY <1>6, <1>7, <2>2, <2>4, ResultsDiffer DEF b
  <2> QED BY <2>3, <2>4
<1> QED BY <1>9, <1>10

LEMMA VariantAgrees ==
    ASSUME NEW P, NEW Q, Len(P) \in Nat \ {0}, Faithful(P[1]), Faithful(Q[1]), Agrees(P[1], Q[1])
    PROVE  Agrees(Variant(P), Variant(Q))
<1> DEFINE c == Variant(P)
           d == Variant(Q)
           p == P[1]
           q == Q[1]
<1>1. /\ c.readable = {0} \X p.readable /\ d.readable = {0} \X q.readable
      /\ \A v \in Alternatives(P) : c.write[v] = Digits(v[1], 1) \o P[v[1] + 1].write[v[2]]
      /\ \A b \in Bytes : d.read[b]
            = IF ReadUnsigned(1, b).status = "value"
              THEN IF ReadUnsigned(1, b).value = 0
                   THEN IF q.read[ReadUnsigned(1, b).rest].status = "value"
                        THEN Value(<<0, q.read[ReadUnsigned(1, b).rest].value>>,
                                   q.read[ReadUnsigned(1, b).rest].rest)
                        ELSE q.read[ReadUnsigned(1, b).rest]
                   ELSE Throws
              ELSE ReadUnsigned(1, b)
  BY VariantParts
<1> HIDE DEF c, d
<1> SUFFICES ASSUME NEW v \in c.readable, NEW rest \in Bytes
             PROVE  d.read[c.write[v] \o rest] = IF v \in d.readable THEN Value(v, rest) ELSE Undefined
  BY DEF Agrees, c, d
<1> DEFINE x == v[2]
           left == p.write[x] \o rest
           b == c.write[v] \o rest
<1>2. x \in p.readable /\ v[1] = 0 /\ v = <<0, x>>
  BY <1>1
<1>3. x \in p.values /\ p.write[x] \in Bytes
  BY <1>2 DEF Faithful
<1>4. left \in Bytes
  BY <1>3, Joining
<1>5. Digits(0, 1) \in Bytes
  BY DigitsType
<1>6. b = Digits(0, 1) \o left /\ b \in Bytes
  <2>1. v \in Alternatives(P)
    <3>1. 1 \in 1 .. Len(P) /\ v \in {1 - 1} \X P[1].values
      BY <1>2, <1>3
    <3> QED BY <3>1, AlternativesDef
  <2>2. c.write[v] = Digits(0, 1) \o p.write[x]
    <3>1. v[1] + 1 = 1
      BY <1>2
    <3>2. c.write[v] = Digits(v[1], 1) \o P[v[1] + 1].write[v[2]]
      BY <1>1, <2>1
    <3>3. c.write[v] = Digits(v[1], 1) \o p.write[x]
      BY <3>1, <3>2, Zenon
    <3> QED BY <1>2, <3>3, Zenon
  <2>3. (Digits(0, 1) \o p.write[x]) \o rest = Digits(0, 1) \o (p.write[x] \o rest)
    <3> DEFINE index == Digits(0, 1)
               bytes == p.write[x]
    <3>1. index \in Bytes /\ bytes \in Bytes
      BY <1>3, <1>5
    <3> HIDE DEF index, bytes
    <3>2. (index \o bytes) \o rest = index \o (bytes \o rest)
      BY <3>1, Joining
    <3> QED BY <3>2 DEF index, bytes
  <2>4. Digits(0, 1) \o left \in Bytes
    BY <1>4, <1>5, Joining
  <2> QED BY <2>2, <2>3, <2>4
<1>7. q.read[left] = IF x \in q.readable THEN Value(x, rest) ELSE Undefined
  BY <1>2 DEF Agrees
<1>8. v \in d.readable <=> x \in q.readable
  BY <1>1, <1>2
<1> HIDE DEF x, left, b
<1>9. ReadUnsigned(1, b) = Value(0, left)
  <2>1. 0 \in 0 .. Radix[1] - 1
    BY RadixPositive
  <2> QED BY <1>4, <1>6, <2>1, ReadNumber
<1>10. d.read[b] = IF q.read[left].status = "value"
                   THEN Value(<<0, q.read[left].value>>, q.read[left].rest)
                   ELSE q.read[left]
  BY <1>1, <1>6, <1>9, ResultsDiffer
<1>11. CASE x \in q.readable
  BY <1>2, <1>7, <1>8, <1>10, <1>11, ResultsDiffer DEF b
<1>12. CASE x \notin q.readable
  BY <1>7, <1>8, <1>10, <1>12, ResultsDiffer DEF b
<1> QED BY <1>11, <1>12

-----------------------------------------------------------------------------
(* Texts, token by token. *)
Kinds  == Numbers \cup {"byte", "bool", "string", "void"} \cup Templates
Token  == Kinds \cup {"<", ",", ">"} \cup Nat
Tokens == Seq(Token)

LEMMA TokensJoin ==
    /\ Joinable(Tokens) /\ <<>> \in Tokens
    /\ \A x, y \in Tokens : x \o y \in Tokens
    /\ \A x \in Tokens : x \o <<>> = x /\ <<>> \o x = x
    /\ \A x, y, z \in Tokens : (x \o y) \o z = x \o (y \o z)
<1>1. Joinable(Tokens)
  BY SequencesJoin, Zenon DEF Tokens
<1> QED BY <1>1 DEF Joinable

LEMMA ConsType ==
    ASSUME NEW k \in Token, NEW x \in Tokens
    PROVE  /\ Cons(k, x) \in Tokens
           /\ Len(Cons(k, x)) = Len(x) + 1 /\ Cons(k, x)[1] = k
           /\ \A i \in 1 .. Len(x) : Cons(k, x)[i + 1] = x[i]
<1> DEFINE a == <<k>>
           s == a \o x
<1>1. a \in Seq(Token) /\ Len(a) = 1 /\ a[1] = k
  OBVIOUS
<1>2. x \in Seq(Token) /\ Len(x) \in Nat
  BY DEF Tokens
<1> HIDE DEF a
<1>3. /\ s \in Seq(Token) /\ Len(s) = 1 + Len(x)
      /\ \A i \in 1 .. 1 + Len(x) : s[i] = IF i <= 1 THEN a[i] ELSE x[i - 1]
  <2>1. /\ s \in Seq(Token) /\ Len(s) = Len(a) + Len(x)
        /\ \A i \in 1 .. Len(a) + Len(x) : s[i] = IF i <= Len(a) THEN a[i] ELSE x[i - Len(a)]
    BY <1>1, <1>2, ConcatProperties
  <2> HIDE DEF s
  <2> QED BY <1>1, <2>1
<1>4. s[1] = k
  BY <1>1, <1>2, <1>3
<1>5. ASSUME NEW i \in 1 .. Len(x) PROVE s[i + 1] = x[i]
  <2>1. i + 1 \in 1 .. 1 + Len(x) /\ ~(i + 1 <= 1) /\ (i + 1) - 1 = i
    BY <1>2
  <2> QED BY <1>3, <2>1
<1> HIDE DEF s
<1>6. s = Cons(k, x)
  BY DEF s, a, Cons
<1> QED BY <1>2, <1>3, <1>4, <1>5, <1>6 DEF Tokens

LEMMA ConsEqual ==
    ASSUME NEW k \in Token, NEW l \in Token, NEW x \in Tokens, NEW y \in Tokens,
           Cons(k, x) = Cons(l, y)
    PROVE  k = l /\ x = y
<1>1. k = l /\ Len(x) = Len(y) /\ \A i \in 1 .. Len(x) : x[i] = y[i]
  <2>1. Len(x) \in Nat /\ Len(y) \in Nat
    BY DEF Tokens
  <2> DEFINE a == Cons(k, x)
             b == Cons(l, y)
  <2>2. /\ Len(a) = Len(x) + 1 /\ a[1] = k
        /\ \A i \in 1 .. Len(x) : a[i + 1] = x[i]
    BY ConsType
  <2>3. /\ Len(b) = Len(y) + 1 /\ b[1] = l
        /\ \A i \in 1 .. Len(y) : b[i + 1] = y[i]
    BY ConsType
  <2>4. a = b
    OBVIOUS
  <2> HIDE DEF a, b
  <2>5. k = l /\ Len(x) = Len(y)
    BY <2>1, <2>2, <2>3, <2>4
  <2>6. ASSUME NEW i \in 1 .. Len(x) PROVE x[i] = y[i]
    BY <2>2, <2>3, <2>4, <2>5
  <2> QED BY <2>5, <2>6
<1>2. x \in Seq(Token) /\ y \in Seq(Token)
  BY DEF Tokens
<1>3. x = y
  BY <1>1, <1>2, SeqEqual
<1> QED BY <1>1, <1>3

LEMMA ConsJoins ==
    ASSUME NEW k \in Token, NEW x \in Tokens, NEW y \in Tokens
    PROVE  Cons(k, x) \o y = Cons(k, x \o y)
<1>1. <<k>> \in Tokens
  BY DEF Tokens
<1>2. (<<k>> \o x) \o y = <<k>> \o (x \o y)
  BY <1>1, TokensJoin
<1> QED BY <1>2 DEF Cons

LEMMA ConsAlone ==
    ASSUME NEW k \in Token, NEW y \in Tokens
    PROVE  <<k>> \in Tokens /\ <<k>> \o y = Cons(k, y)
BY DEF Cons, Tokens

LEMMA TwoTokens == \A k, l \in Token : <<k, l>> \in Tokens
BY DEF Tokens

LEMMA SomeTokens ==
    /\ "<" \in Token /\ ">" \in Token /\ "," \in Token /\ "uint" \in Token /\ 1 \in Token
    /\ "," # ">"
<1>1. 1 \in Token
  BY DEF Token
<1>2. "<" \in Token /\ ">" \in Token /\ "," \in Token /\ "uint" \in Token
  BY DEF Token, Kinds, Numbers
<1>3. "," # ">"
  OBVIOUS
<1> QED BY <1>1, <1>2, <1>3

-----------------------------------------------------------------------------
(* Pieces of a text, from the first to the last: what follows each of them. *)
Unrolls(r, seqs, x) ==
    /\ r \in [0 .. Len(seqs) -> Tokens]
    /\ r[Len(seqs)] = x
    /\ \A i \in 1 .. Len(seqs) : r[i - 1] = seqs[i] \o r[i]
    /\ FlattenSeq(seqs) \o x = r[0]

LEMMA Unrolled ==
    \A n \in Nat : \A seqs \in Seq(Tokens), x \in Tokens :
        Len(seqs) = n => \E r : Unrolls(r, seqs, x)
<1> DEFINE P == {n \in Nat : \A seqs \in Seq(Tokens), x \in Tokens :
                    Len(seqs) = n => \E r : Unrolls(r, seqs, x)}
<1>1. 0 \in P
  <2> SUFFICES ASSUME NEW seqs \in Seq(Tokens), NEW x \in Tokens, Len(seqs) = 0
               PROVE  \E r : Unrolls(r, seqs, x)
    OBVIOUS
  <2> DEFINE r == [i \in 0 .. 0 |-> x]
  <2>1. seqs = <<>>
    BY EmptySeq
  <2>2. FlattenSeq(seqs) \o x = x
    BY <2>1, FlattenNothing, TokensJoin
  <2>3. Unrolls(r, seqs, x)
    BY <2>2 DEF Unrolls
  <2> QED BY <2>3
<1>2. ASSUME NEW n \in Nat, n \in P PROVE n + 1 \in P
  <2> SUFFICES ASSUME NEW seqs \in Seq(Tokens), NEW x \in Tokens, Len(seqs) = n + 1
               PROVE  \E r : Unrolls(r, seqs, x)
    OBVIOUS
  <2>1. PICK front \in Seq(Tokens), last \in Tokens :
           /\ Len(front) = n /\ seqs = Append(front, last)
           /\ seqs[n + 1] = last /\ \A i \in 1 .. n : seqs[i] = front[i]
    <3>1. seqs \in [1 .. n + 1 -> Tokens]
      BY SeqArray
    <3>2. Grows(seqs, n, Tokens)
      BY <3>1, Shrunk
    <3>3. PICK f \in [1 .. n -> Tokens] : \E e \in Tokens : seqs = Append(f, e)
      BY <3>2 DEF Grows
    <3>4. PICK e \in Tokens : seqs = Append(f, e)
      BY <3>3
    <3>5. f \in Seq(Tokens) /\ Len(f) = n
      BY Grown
    <3>6. seqs[n + 1] = e /\ \A i \in 1 .. n : seqs[i] = f[i]
      BY <3>4, <3>5, AppendProperties
    <3> QED BY <3>4, <3>5, <3>6
  <2> DEFINE y == last \o x
  <2>2. y \in Tokens
    BY TokensJoin
  <2>3. PICK q : Unrolls(q, front, y)
    BY <1>2, <2>1, <2>2
  <2> DEFINE r == [i \in 0 .. n + 1 |-> IF i = n + 1 THEN x ELSE q[i]]
  <2>4. /\ q \in [0 .. n -> Tokens] /\ q[n] = y
        /\ \A i \in 1 .. n : q[i - 1] = front[i] \o q[i]
        /\ FlattenSeq(front) \o y = q[0]
    BY <2>1, <2>3 DEF Unrolls
  <2> HIDE DEF y
  <2>5. r \in [0 .. n + 1 -> Tokens] /\ r[n + 1] = x /\ \A i \in 0 .. n : r[i] = q[i]
    BY <2>4
  <2> HIDE DEF r
  <2>6. ASSUME NEW i \in 1 .. n + 1 PROVE r[i - 1] = seqs[i] \o r[i]
    <3>1. CASE i = n + 1
      <4>1. i - 1 = n /\ n \in 0 .. n
        BY <3>1
      <4>2. r[i - 1] = y
        BY <2>4, <2>5, <4>1
      <4> QED BY <2>1, <2>5, <3>1, <4>2 DEF y
    <3>2. CASE i # n + 1
      <4>1. i \in 1 .. n /\ i \in 0 .. n /\ i - 1 \in 0 .. n
        BY <3>2
      <4>2. r[i - 1] = q[i - 1] /\ r[i] = q[i] /\ seqs[i] = front[i]
        BY <2>1, <2>5, <4>1
      <4>3. q[i - 1] = front[i] \o q[i]
        BY <2>4, <4>1
      <4> QED BY <4>2, <4>3, Zenon
    <3> QED BY <3>1, <3>2
  <2>7. FlattenSeq(seqs) \o x = r[0]
    <3>1. /\ FlattenSeq(front) \in Tokens
          /\ FlattenSeq(Append(front, last)) = FlattenSeq(front) \o last
      <4>1. Joinable(Tokens)
        BY TokensJoin
      <4>2. front \in Seq(Tokens) /\ last \in Tokens
        BY <2>1
      <4> QED BY <4>1, <4>2, FlattenAppend
    <3>2. (FlattenSeq(front) \o last) \o x = FlattenSeq(front) \o (last \o x)
      BY <3>1, TokensJoin
    <3>3. FlattenSeq(seqs) \o x = FlattenSeq(front) \o y
      BY <2>1, <3>1, <3>2 DEF y
    <3>4. r[0] = q[0]
      BY <2>5
    <3> QED BY <2>4, <3>3, <3>4
  <2>8. Unrolls(r, seqs, x)
    BY <2>5, <2>6, <2>7 DEF Unrolls
  <2> QED BY <2>8
<1>3. P = Nat
  <2>1. P \subseteq Nat
    OBVIOUS
  <2> HIDE DEF P
  <2> QED BY <1>1, <1>2, <2>1, SetInduction
<1> QED BY <1>3

-----------------------------------------------------------------------------
(* What stands between the brackets, given f for the parts. *)
InnerOf(f, t) ==
    LET parts   == Table[t].parts
        Text(i) == TypeText(Table[parts[i]], f[parts[i]])
    IN  IF Table[t].kind = "tuple" /\ parts # <<>>
        THEN Text(1) \o (IF Table[parts[2]].parts = <<>> THEN <<>> ELSE <<",">> \o f[parts[2]])
        ELSE FlattenSeq([i \in DOMAIN parts |-> (IF i = 1 THEN <<>> ELSE <<",">>) \o Text(i)])

LEMMA PartsOf ==
    ASSUME NEW t \in Types
    PROVE  /\ Table[t].parts \in Seq(Nat) /\ Len(Table[t].parts) \in Nat
           /\ DOMAIN Table[t].parts = 1 .. Len(Table[t].parts)
           /\ \A i \in 1 .. Len(Table[t].parts) : /\ Table[t].parts[i] \in Types
                                                  /\ Table[t].parts[i] \in Nat
                                                  /\ Table[t].parts[i] < t
           /\ t \in Nat /\ t > 0
           /\ Table[t].kind \in Kinds /\ Table[t].size \in Nat
           /\ Table[t].kind \notin Templates => Table[t].parts = <<>>
           /\ Table[t].kind \in {"vector", "array", "optional"} => Len(Table[t].parts) = 1
           /\ Table[t].kind = "variant" => Len(Table[t].parts) > 0
           /\ Table[t].kind = "pair" => Len(Table[t].parts) = 2
           /\ Table[t].kind = "tuple" /\ Table[t].parts # <<>>
                 => Len(Table[t].parts) = 2 /\ Table[Table[t].parts[2]].kind = "tuple"
<1> DEFINE type0 == Table[t]
           n == Len(type0.parts)
<1>1. /\ type0.parts \in Seq(Nat) /\ type0.size \in Nat /\ WellFormed(type0)
      /\ \A i \in DOMAIN type0.parts : type0.parts[i] \in 1 .. t - 1
      /\ Types = 1 .. Len(Table) /\ Len(Table) \in Nat
  BY TypesShape
<1> HIDE DEF type0
<1>2. n \in Nat /\ DOMAIN type0.parts = 1 .. n
  BY <1>1
<1>3. ASSUME NEW i \in 1 .. n
      PROVE  type0.parts[i] \in Types /\ type0.parts[i] \in Nat /\ type0.parts[i] < t
  <2>1. type0.parts[i] \in 1 .. t - 1
    BY <1>1, <1>2
  <2>2. t \in Nat /\ t <= Len(Table)
    BY <1>1
  <2> DEFINE p == type0.parts[i]
  <2> HIDE DEF p
  <2>3. p \in 1 .. Len(Table) /\ p \in Nat /\ p < t
    BY <1>1, <2>1, <2>2 DEF p
  <2> QED BY <1>1, <2>3 DEF p
<1>4. type0.kind \in Kinds
  BY <1>1 DEF WellFormed, Kinds
<1>5. t \in Nat /\ t > 0
  BY <1>1
<1>6. /\ type0.kind \notin Templates => type0.parts = <<>>
      /\ type0.kind \in {"vector", "array", "optional"} => n = 1
      /\ type0.kind = "pair" => n = 2
      /\ type0.kind = "tuple" /\ type0.parts # <<>> => n = 2 /\ Table[type0.parts[2]].kind = "tuple"
  BY <1>1 DEF WellFormed
<1>7. type0.kind = "variant" => n > 0
  BY <1>1, BaseType DEF WellFormed
<1> HIDE DEF n
<1>8. /\ type0.parts \in Seq(Nat) /\ n \in Nat
      /\ DOMAIN type0.parts = 1 .. n
      /\ \A i \in 1 .. n : type0.parts[i] \in Types /\ type0.parts[i] \in Nat /\ type0.parts[i] < t
      /\ t \in Nat /\ t > 0
      /\ type0.kind \in Kinds /\ type0.size \in Nat
      /\ type0.kind \notin Templates => type0.parts = <<>>
      /\ type0.kind \in {"vector", "array", "optional"} => n = 1
      /\ type0.kind = "variant" => n > 0
      /\ type0.kind = "pair" => n = 2
      /\ type0.kind = "tuple" /\ type0.parts # <<>> => n = 2 /\ Table[type0.parts[2]].kind = "tuple"
  BY <1>1, <1>2, <1>3, <1>4, <1>5, <1>6, <1>7
<1> QED BY <1>8 DEF type0, n

LEMMA InnerOfParts ==
    ASSUME NEW t \in Types, NEW f, NEW g,
           \A i \in 1 .. Len(Table[t].parts) : f[Table[t].parts[i]] = g[Table[t].parts[i]]
    PROVE  InnerOf(f, t) = InnerOf(g, t)
<1> DEFINE parts == Table[t].parts
           F(i) == TypeText(Table[parts[i]], f[parts[i]])
           G(i) == TypeText(Table[parts[i]], g[parts[i]])
<1>1. \A i \in 1 .. Len(parts) : F(i) = G(i)
  OBVIOUS
<1>2. CASE Table[t].kind = "tuple" /\ parts # <<>>
  <2>1. 1 \in 1 .. Len(parts) /\ 2 \in 1 .. Len(parts)
    BY <1>2, PartsOf
  <2> DEFINE a == TypeText(Table[parts[1]], f[parts[1]])
             b == TypeText(Table[parts[1]], g[parts[1]])
             x == IF Table[parts[2]].parts = <<>> THEN <<>> ELSE <<",">> \o f[parts[2]]
             y == IF Table[parts[2]].parts = <<>> THEN <<>> ELSE <<",">> \o g[parts[2]]
  <2>2. f[parts[1]] = g[parts[1]] /\ f[parts[2]] = g[parts[2]]
    BY <2>1
  <2>3. a = b /\ x = y
    BY <2>2, Zenon
  <2>4. InnerOf(f, t) = a \o x /\ InnerOf(g, t) = b \o y
    BY <1>2, Zenon DEF InnerOf
  <2> HIDE DEF a, b, x, y
  <2> QED BY <2>3, <2>4, Zenon
<1>3. CASE ~(Table[t].kind = "tuple" /\ parts # <<>>)
  <2> DEFINE P == [i \in DOMAIN parts |-> (IF i = 1 THEN <<>> ELSE <<",">>) \o F(i)]
             Q == [i \in DOMAIN parts |-> (IF i = 1 THEN <<>> ELSE <<",">>) \o G(i)]
  <2>1. InnerOf(f, t) = FlattenSeq(P)
    BY <1>3, Zenon DEF InnerOf
  <2>2. InnerOf(g, t) = FlattenSeq(Q)
    BY <1>3, Zenon DEF InnerOf
  <2>3. P = Q
    <3>1. DOMAIN parts = 1 .. Len(parts)
      BY PartsOf
    <3> HIDE DEF F, G, parts
    <3> QED BY <1>1, <3>1
  <2> HIDE DEF P, Q
  <2> QED BY <2>1, <2>2, <2>3
<1> QED BY <1>2, <1>3

Inners(f, n) == f = [t \in 1 .. n |-> InnerOf(f, t)]

LEMMA InnersExist ==
    ASSUME NEW n \in Nat, n <= Len(Table)
    PROVE  \E f : Inners(f, n)
<1> DEFINE P == {k \in Nat : k <= Len(Table) => \E f : Inners(f, k)}
<1>1. 0 \in P
  <2> DEFINE f == [t \in 1 .. 0 |-> <<>>]
  <2>1. Inners(f, 0)
    BY DEF Inners
  <2> QED BY <2>1
<1>2. ASSUME NEW k \in Nat, k \in P PROVE k + 1 \in P
  <2> SUFFICES ASSUME k + 1 <= Len(Table) PROVE \E f : Inners(f, k + 1)
    OBVIOUS
  <2>1. PICK f : Inners(f, k)
    BY <1>2, TypesShape
  <2> DEFINE g == [t \in 1 .. k + 1 |-> IF t = k + 1 THEN InnerOf(f, t) ELSE f[t]]
  <2>2. \A t \in 1 .. k : g[t] = f[t]
    OBVIOUS
  <2>3. g = [t \in 1 .. k + 1 |-> InnerOf(f, t)]
    <3>1. \A t \in 1 .. k : f[t] = InnerOf(f, t)
      BY <2>1 DEF Inners
    <3> QED BY <3>1
  <2> HIDE DEF g
  <2>4. ASSUME NEW t \in 1 .. k + 1 PROVE InnerOf(f, t) = InnerOf(g, t)
    <3>1. t \in Types
      BY TypesShape
    <3>2. \A i \in 1 .. Len(Table[t].parts) : Table[t].parts[i] \in 1 .. k
      <4>1. ASSUME NEW i \in 1 .. Len(Table[t].parts) PROVE Table[t].parts[i] \in 1 .. k
        <5>1. Table[t].parts[i] \in Types /\ Table[t].parts[i] < t /\ Table[t].parts[i] \in Nat
          BY <3>1, PartsOf
        <5> QED BY <5>1, TypesShape
      <4> QED BY <4>1
    <3>3. \A i \in 1 .. Len(Table[t].parts) : f[Table[t].parts[i]] = g[Table[t].parts[i]]
      BY <2>2, <3>2
    <3> QED BY <3>1, <3>3, InnerOfParts
  <2>5. Inners(g, k + 1)
    BY <2>3, <2>4 DEF Inners
  <2> QED BY <2>5
<1>3. n \in P
  <2> HIDE DEF P
  <2> QED BY <1>1, <1>2, SetInduction
<1> QED BY <1>3

LEMMA InnerDef == \A t \in Types : Inner[t] = InnerOf(Inner, t)
<1> DEFINE Def(f) == [t \in Types |-> InnerOf(f, t)]
<1>1. PICK f : Inners(f, Len(Table))
  BY InnersExist, TypesShape
<1>2. f = Def(f)
  BY <1>1, TypesShape DEF Inners
<1>3. Inner = CHOOSE g : g = Def(g)
  BY DEF Inner, InnerOf
<1>4. Inner = Def(Inner)
  <2> HIDE DEF Def
  <2> QED BY <1>2, <1>3, Zenon
<1> QED BY <1>4

Pieces(t) ==
    [i \in DOMAIN Table[t].parts |->
        (IF i = 1 THEN <<>> ELSE <<",">>) \o TypeString(Table[t].parts[i])]

LEMMA InnerForms ==
    ASSUME NEW t \in Types
    PROVE  IF Table[t].kind = "tuple" /\ Table[t].parts # <<>>
           THEN Inner[t] = TypeString(Table[t].parts[1])
                           \o (IF Table[Table[t].parts[2]].parts = <<>>
                               THEN <<>> ELSE <<",">> \o Inner[Table[t].parts[2]])
           ELSE Inner[t] = FlattenSeq(Pieces(t))
BY InnerDef, Zenon DEF InnerOf, TypeString, Pieces

LEMMA TextType ==
    ASSUME NEW d, d.kind \in Kinds, d.size \in Nat, NEW inner \in Tokens
    PROVE  TypeText(d, inner) \in Tokens
<1>1. d.kind \in Token /\ d.size \in Token
  BY DEF Token
<1>2. CASE d.kind = "bool"
  <2>1. <<"uint", 1>> \in Tokens
    BY SomeTokens, TwoTokens, Zenon
  <2>2. TypeText(d, inner) = <<"uint", 1>>
    BY <1>2 DEF TypeText
  <2> QED BY <2>1, <2>2
<1>3. CASE d.kind \in {"int", "uint"}
  <2>1. <<d.kind, d.size>> \in Tokens
    BY <1>1 DEF Tokens
  <2>2. TypeText(d, inner) = <<d.kind, d.size>>
    BY <1>3 DEF TypeText
  <2> QED BY <2>1, <2>2
<1>4. CASE d.kind \in {"byte", "string", "void"}
  <2>1. <<d.kind>> \in Tokens
    BY <1>1 DEF Tokens
  <2>2. TypeText(d, inner) = <<d.kind>>
    BY <1>4 DEF TypeText
  <2> QED BY <2>1, <2>2
<1>5. CASE d.kind \in Templates
  <2> DEFINE a == <<d.kind, "<">>
             c == IF d.kind = "array" THEN <<",", d.size>> ELSE <<>>
             e == <<">">>
  <2>1. a \in Tokens /\ c \in Tokens /\ e \in Tokens
    <3>1. a \in Tokens
      BY <1>1, SomeTokens, TwoTokens, Zenon
    <3>2. <<",", d.size>> \in Tokens /\ <<>> \in Tokens
      BY <1>1, SomeTokens, TwoTokens, TokensJoin, Zenon
    <3>3. c \in Tokens
      BY <3>2, Zenon
    <3>4. e \in Tokens
      BY SomeTokens, ConsAlone, TokensJoin, Zenon
    <3> QED BY <3>1, <3>3, <3>4
  <2>2. TypeText(d, inner) = a \o inner \o c \o e
    BY <1>5 DEF TypeText, Templates
  <2> HIDE DEF a, c, e
  <2> QED BY <2>1, <2>2, TokensJoin
<1> QED BY <1>2, <1>3, <1>4, <1>5 DEF Kinds, Numbers

LEMMA PiecesType ==
    ASSUME NEW t \in Types, \A i \in 1 .. Len(Table[t].parts) : TypeString(Table[t].parts[i]) \in Tokens
    PROVE  /\ Pieces(t) \in Seq(Tokens) /\ Len(Pieces(t)) = Len(Table[t].parts)
           /\ FlattenSeq(Pieces(t)) \in Tokens
<1> DEFINE n == Len(Table[t].parts)
<1>1. n \in Nat /\ DOMAIN Table[t].parts = 1 .. n
  BY PartsOf
<1>2. ASSUME NEW i \in 1 .. n
      PROVE  (IF i = 1 THEN <<>> ELSE <<",">>) \o TypeString(Table[t].parts[i]) \in Tokens
  <2>1. <<",">> \in Tokens
    BY ConsAlone, SomeTokens, TokensJoin
  <2>2. (IF i = 1 THEN <<>> ELSE <<",">>) \in Tokens
    BY <2>1, TokensJoin
  <2> QED BY <2>2, TokensJoin
<1>3. Pieces(t) \in [1 .. n -> Tokens]
  BY <1>1, <1>2 DEF Pieces
<1>4. Pieces(t) \in Seq(Tokens) /\ Len(Pieces(t)) = n
  BY <1>1, <1>3, SeqArray
<1>5. FlattenSeq(Pieces(t)) \in Tokens
  BY <1>4, FlattenAppend, TokensJoin
<1> QED BY <1>4, <1>5

LEMMA TextTypes == \A t \in Types : Inner[t] \in Tokens /\ TypeString(t) \in Tokens
<1> DEFINE P == {n \in Nat : \A t \in Types : t <= n => Inner[t] \in Tokens /\ TypeString(t) \in Tokens}
<1>1. 0 \in P
  BY PartsOf
<1>2. ASSUME NEW n \in Nat, n \in P PROVE n + 1 \in P
  <2> SUFFICES ASSUME NEW t \in Types, t <= n + 1
               PROVE  Inner[t] \in Tokens /\ TypeString(t) \in Tokens
    OBVIOUS
  <2>1. ASSUME NEW i \in 1 .. Len(Table[t].parts)
        PROVE  Inner[Table[t].parts[i]] \in Tokens /\ TypeString(Table[t].parts[i]) \in Tokens
    <3>1. Table[t].parts[i] \in Types /\ Table[t].parts[i] \in Nat /\ Table[t].parts[i] < t /\ t \in Nat
      BY PartsOf
    <3>2. Table[t].parts[i] <= n
      BY <3>1
    <3> QED BY <1>2, <3>1, <3>2
  <2>2. Inner[t] \in Tokens
    <3>1. CASE Table[t].kind = "tuple" /\ Table[t].parts # <<>>
      <4> DEFINE p == Table[t].parts[1]
                 r == Table[t].parts[2]
      <4>1. 1 \in 1 .. Len(Table[t].parts) /\ 2 \in 1 .. Len(Table[t].parts)
        BY <3>1, PartsOf
      <4>2. TypeString(p) \in Tokens /\ Inner[r] \in Tokens
        BY <2>1, <4>1
      <4>3. Inner[t] = TypeString(p) \o (IF Table[r].parts = <<>> THEN <<>> ELSE <<",">> \o Inner[r])
        BY <3>1, InnerForms
      <4> HIDE DEF p, r
      <4>4. <<",">> \in Tokens
        BY ConsAlone, SomeTokens, TokensJoin
      <4>5. (IF Table[r].parts = <<>> THEN <<>> ELSE <<",">> \o Inner[r]) \in Tokens
        BY <4>2, <4>4, TokensJoin
      <4> QED BY <4>2, <4>3, <4>5, TokensJoin
    <3>2. CASE ~(Table[t].kind = "tuple" /\ Table[t].parts # <<>>)
      <4>1. Inner[t] = FlattenSeq(Pieces(t))
        BY <3>2, InnerForms
      <4> QED BY <2>1, <4>1, PiecesType
    <3> QED BY <3>1, <3>2
  <2>3. TypeString(t) \in Tokens
    <3>1. Table[t].kind \in Kinds /\ Table[t].size \in Nat
      BY PartsOf
    <3> QED BY <2>2, <3>1, TextType DEF TypeString
  <2> QED BY <2>2, <2>3
<1>3. Len(Table) \in P
  <2> HIDE DEF P
  <2> QED BY <1>1, <1>2, SetInduction, TypesShape
<1> QED BY <1>3, TypesShape

-----------------------------------------------------------------------------
(* A text and what follows it, from its first token on. *)
Said(t, x) == TypeString(t) \o x

Within(t, x) == Inner[t] \o x

After(t, x) ==
    IF Table[t].kind = "array" THEN Cons(",", Cons(Table[t].size, Cons(">", x))) ELSE Cons(">", x)

LEMMA TwoAhead ==
    ASSUME NEW k \in Token, NEW l \in Token, NEW z \in Tokens
    PROVE  <<k, l>> \o z = Cons(k, Cons(l, z))
<1>1. <<k, l>> = <<k>> \o <<l>>
  <2> DEFINE a == <<k>>
             b == <<l>>
             c == <<k, l>>
  <2>1. /\ a \in Seq(Token) /\ b \in Seq(Token) /\ c \in Seq(Token)
        /\ Len(a) = 1 /\ Len(b) = 1 /\ Len(c) = 2
        /\ a[1] = k /\ b[1] = l /\ c[1] = k /\ c[2] = l
    OBVIOUS
  <2> HIDE DEF a, b, c
  <2>2. /\ a \o b \in Seq(Token) /\ Len(a \o b) = Len(a) + Len(b)
        /\ \A i \in 1 .. Len(a) + Len(b) : (a \o b)[i] = IF i <= Len(a) THEN a[i] ELSE b[i - Len(a)]
    BY <2>1, ConcatProperties
  <2> DEFINE d == a \o b
  <2> HIDE DEF d
  <2>3. d \in Seq(Token) /\ Len(d) = 2 /\ d[1] = k /\ d[2] = l
    BY <2>1, <2>2 DEF d
  <2>4. \A i \in 1 .. 2 : c[i] = d[i]
    BY <2>1, <2>3
  <2>5. c = d
    BY <2>1, <2>3, <2>4, SeqEqual
  <2> QED BY <2>5 DEF a, b, c, d
<1>2. <<k>> \in Tokens /\ <<l>> \in Tokens
  BY ConsAlone
<1>3. (<<k>> \o <<l>>) \o z = <<k>> \o (<<l>> \o z)
  BY <1>2, TokensJoin
<1> QED BY <1>1, <1>3 DEF Cons

LEMMA SaidForms ==
    ASSUME NEW t \in Types, NEW x \in Tokens
    PROVE  /\ Said(t, x) \in Tokens /\ Cons(">", x) \in Tokens /\ After(t, x) \in Tokens
           /\ Table[t].kind \in {"int", "uint"}
                 => Said(t, x) = Cons(Table[t].kind, Cons(Table[t].size, x))
           /\ Table[t].kind = "bool" => Said(t, x) = Cons("uint", Cons(1, x))
           /\ Table[t].kind \in {"byte", "string", "void"} => Said(t, x) = Cons(Table[t].kind, x)
           /\ Table[t].kind \in Templates
                 => Said(t, x) = Cons(Table[t].kind, Cons("<", Within(t, After(t, x))))
<1> DEFINE d == Table[t]
           k == d.kind
           n == d.size
           in == Inner[t]
<1>1. k \in Token /\ n \in Token
  BY PartsOf DEF Token
<1>2. in \in Tokens /\ TypeString(t) \in Tokens
  BY TextTypes
<1>3. TypeString(t) = TypeText(d, in)
  BY DEF TypeString
<1>4. Said(t, x) \in Tokens
  BY <1>2, TokensJoin DEF Said
<1>5. Cons(">", x) \in Tokens
  BY SomeTokens, ConsType
<1>6. Cons(n, Cons(">", x)) \in Tokens
  BY <1>1, <1>5, ConsType
<1>7. Cons(",", Cons(n, Cons(">", x))) \in Tokens
  BY <1>6, SomeTokens, ConsType
<1>8. After(t, x) \in Tokens
  BY <1>5, <1>7 DEF After
<1>9. ASSUME k \in {"int", "uint"} PROVE Said(t, x) = Cons(k, Cons(n, x))
  <2>1. TypeString(t) = <<k, n>>
    BY <1>3, <1>9 DEF TypeText
  <2> QED BY <1>1, <2>1, TwoAhead DEF Said
<1>10. ASSUME k = "bool" PROVE Said(t, x) = Cons("uint", Cons(1, x))
  <2>1. TypeString(t) = <<"uint", 1>>
    BY <1>3, <1>10 DEF TypeText
  <2>2. <<"uint", 1>> \o x = Cons("uint", Cons(1, x))
    <3> DEFINE u == "uint"
               o == 1
    <3>1. u \in Token /\ o \in Token
      BY SomeTokens
    <3> HIDE DEF u, o
    <3>2. <<u, o>> \o x = Cons(u, Cons(o, x))
      BY <3>1, TwoAhead
    <3> QED BY <3>2 DEF u, o
  <2> QED BY <2>1, <2>2, Zenon DEF Said
<1>11. ASSUME k \in {"byte", "string", "void"} PROVE Said(t, x) = Cons(k, x)
  <2>1. TypeString(t) = <<k>>
    BY <1>3, <1>11 DEF TypeText
  <2> QED BY <1>1, <2>1, ConsAlone DEF Said
<1>12. ASSUME k \in Templates PROVE Said(t, x) = Cons(k, Cons("<", Within(t, After(t, x))))
  <2> DEFINE a == <<k, "<">>
             c == IF k = "array" THEN <<",", n>> ELSE <<>>
             e == <<">">>
             z == Cons(">", x)
  <2>1. TypeString(t) = a \o in \o c \o e
    BY <1>3, <1>12 DEF TypeText, Templates
  <2>2. a \in Tokens /\ <<",", n>> \in Tokens
    BY <1>1, SomeTokens, TwoTokens, Zenon
  <2>3. c \in Tokens /\ e \in Tokens
    BY <2>2, SomeTokens, ConsAlone, TokensJoin, Zenon
  <2>4. e \o x = z /\ z \in Tokens
    BY <1>5, SomeTokens, ConsAlone
  <2>5. <<",", n>> \o z = Cons(",", Cons(n, z))
    BY <1>1, <1>5, SomeTokens, TwoAhead
  <2>6. <<>> \o z = z
    BY <1>5, TokensJoin
  <2>7. c \o z = After(t, x)
    BY <2>5, <2>6 DEF After
  <2>8. \A w \in Tokens : a \o w = Cons(k, Cons("<", w))
    BY <1>1, SomeTokens, TwoAhead
  <2>9. in \o After(t, x) \in Tokens /\ in \o After(t, x) = Within(t, After(t, x))
    BY <1>2, <1>8, TokensJoin DEF Within
  <2> HIDE DEF a, c, e, z, in
  <2> DEFINE f == a \o in
             g == f \o c
  <2>0. f \in Tokens /\ g \in Tokens
    BY <1>2, <2>2, <2>3, TokensJoin
  <2> HIDE DEF f, g
  <2>10. (g \o e) \o x = g \o (e \o x)
    BY <2>0, <2>3, TokensJoin
  <2>11. (f \o c) \o z = f \o (c \o z)
    <3>1. f \in Tokens /\ c \in Tokens /\ z \in Tokens
      BY <2>0, <2>3, <2>4
    <3> QED BY <3>1, TokensJoin
  <2>12. (a \o in) \o After(t, x) = a \o (in \o After(t, x))
    BY <1>2, <1>8, <2>2, TokensJoin
  <2>13. TypeString(t) \o x = a \o (in \o After(t, x))
    <3>1. TypeString(t) = g \o e
      BY <2>1 DEF f, g
    <3>2. TypeString(t) \o x = g \o z
      BY <2>4, <2>10, <3>1
    <3>3. g \o z = f \o After(t, x)
      BY <2>7, <2>11 DEF g
    <3> QED BY <2>12, <3>2, <3>3 DEF f
  <2> QED BY <2>8, <2>9, <2>13 DEF Said
<1> QED BY <1>4, <1>5, <1>8, <1>9, <1>10, <1>11, <1>12

LEMMA WithinType == \A t \in Types, x \in Tokens : Within(t, x) \in Tokens
BY TextTypes, TokensJoin DEF Within

(* What follows each of the parts, where they stand one after the other. *)
Follows(r, t, y) ==
    /\ r \in [0 .. Len(Table[t].parts) -> Tokens]
    /\ r[Len(Table[t].parts)] = y
    /\ Within(t, y) = r[0]
    /\ \A i \in 1 .. Len(Table[t].parts) :
          r[i - 1] = IF i = 1 THEN Said(Table[t].parts[i], r[i])
                              ELSE Cons(",", Said(Table[t].parts[i], r[i]))

LEMMA InnerFollows ==
    ASSUME NEW t \in Types, ~(Table[t].kind = "tuple" /\ Table[t].parts # <<>>), NEW y \in Tokens
    PROVE  \E r : Follows(r, t, y)
<1> DEFINE parts == Table[t].parts
           n == Len(parts)
           P == Pieces(t)
<1>1. n \in Nat /\ DOMAIN parts = 1 .. n /\ \A i \in 1 .. n : parts[i] \in Types
  BY PartsOf
<1>2. \A i \in 1 .. n : TypeString(parts[i]) \in Tokens
  BY <1>1, TextTypes
<1>3. P \in Seq(Tokens) /\ Len(P) = n
  BY <1>2, PiecesType
<1>4. Inner[t] = FlattenSeq(P)
  BY InnerForms
<1>5. PICK r : Unrolls(r, P, y)
  <2> HIDE DEF P
  <2> QED BY <1>1, <1>3, Unrolled
<1>6. /\ r \in [0 .. n -> Tokens] /\ r[n] = y /\ Within(t, y) = r[0]
      /\ \A i \in 1 .. n : r[i - 1] = P[i] \o r[i]
  <2> HIDE DEF P, n
  <2>1. /\ r \in [0 .. n -> Tokens] /\ r[n] = y /\ FlattenSeq(P) \o y = r[0]
        /\ \A i \in 1 .. n : r[i - 1] = P[i] \o r[i]
    BY <1>3, <1>5 DEF Unrolls
  <2>2. Within(t, y) = FlattenSeq(P) \o y
    BY <1>4, Zenon DEF Within
  <2> QED BY <2>1, <2>2
<1>7. ASSUME NEW i \in 1 .. n
      PROVE  r[i - 1] = IF i = 1 THEN Said(parts[i], r[i]) ELSE Cons(",", Said(parts[i], r[i]))
  <2> DEFINE text == TypeString(parts[i])
  <2>1. P[i] = (IF i = 1 THEN <<>> ELSE <<",">>) \o text
    BY <1>1 DEF Pieces
  <2>2. r[i - 1] = P[i] \o r[i] /\ r[i] \in Tokens /\ text \in Tokens
    <3>1. i \in 0 .. n
      BY <1>1
    <3> QED BY <1>2, <1>6, <3>1
  <2>3. Said(parts[i], r[i]) = text \o r[i] /\ text \o r[i] \in Tokens
    BY <2>2, TokensJoin DEF Said
  <2> HIDE DEF P, text
  <2>4. CASE i = 1
    <3>1. P[i] = text
      BY <2>1, <2>2, <2>4, TokensJoin
    <3> QED BY <2>2, <2>3, <2>4, <3>1
  <2>5. CASE i # 1
    <3>1. P[i] = <<",">> \o text /\ <<",">> \in Tokens
      BY <2>1, <2>5, SomeTokens, ConsAlone, TokensJoin
    <3>2. (<<",">> \o text) \o r[i] = <<",">> \o (text \o r[i])
      BY <2>2, <3>1, TokensJoin
    <3>3. <<",">> \o (text \o r[i]) = Cons(",", text \o r[i])
      BY <2>3, SomeTokens, ConsAlone
    <3> QED BY <2>2, <2>3, <2>5, <3>1, <3>2, <3>3
  <2> QED BY <2>4, <2>5
<1>8. Follows(r, t, y)
  BY <1>6, <1>7 DEF Follows
<1> QED BY <1>8

LEMMA InnerSaid ==
    ASSUME NEW t \in Types, NEW y \in Tokens
    PROVE  /\ Table[t].parts = <<>> => Within(t, y) = y
           /\ Table[t].kind \in {"vector", "array", "optional"}
                 => Within(t, y) = Said(Table[t].parts[1], y)
           /\ Table[t].kind = "pair"
                 => Within(t, y) = Said(Table[t].parts[1], Cons(",", Said(Table[t].parts[2], y)))
           /\ Table[t].kind = "tuple" /\ Table[t].parts # <<>>
                 => Within(t, y) = Said(Table[t].parts[1],
                                         IF Table[Table[t].parts[2]].parts = <<>>
                                         THEN y ELSE Cons(",", Within(Table[t].parts[2], y)))
<1> DEFINE parts == Table[t].parts
<1>1. ASSUME parts = <<>> PROVE Within(t, y) = y
  <2>1. PICK r : Follows(r, t, y)
    BY <1>1, InnerFollows
  <2>2. Len(parts) = 0
    BY <1>1, EmptySeq
  <2> QED BY <2>1, <2>2 DEF Follows
<1>2. ASSUME Table[t].kind \in {"vector", "array", "optional"}
      PROVE  Within(t, y) = Said(parts[1], y)
  <2>1. PICK r : Follows(r, t, y)
    BY <1>2, InnerFollows
  <2>2. Len(parts) = 1
    BY <1>2, PartsOf
  <2>3. 1 \in 1 .. 1 /\ 1 - 1 = 0
    OBVIOUS
  <2> QED BY <2>1, <2>2, <2>3 DEF Follows
<1>3. ASSUME Table[t].kind = "pair"
      PROVE  Within(t, y) = Said(parts[1], Cons(",", Said(parts[2], y)))
  <2>1. PICK r : Follows(r, t, y)
    BY <1>3, InnerFollows
  <2>2. Len(parts) = 2
    BY <1>3, PartsOf
  <2>3. 1 \in 1 .. 2 /\ 1 - 1 = 0 /\ 2 \in 1 .. 2 /\ 2 - 1 = 1 /\ 2 # 1
    OBVIOUS
  <2>4. r[0] = Said(parts[1], r[1]) /\ r[1] = Cons(",", Said(parts[2], r[2])) /\ r[2] = y
    BY <2>1, <2>2, <2>3 DEF Follows
  <2>5. Within(t, y) = r[0]
    BY <2>1 DEF Follows
  <2> QED BY <2>4, <2>5
<1>4. ASSUME Table[t].kind = "tuple" /\ parts # <<>>
      PROVE  Within(t, y) = Said(parts[1], IF Table[parts[2]].parts = <<>>
                                            THEN y ELSE Cons(",", Within(parts[2], y)))
  <2> DEFINE a == TypeString(parts[1])
             b == Inner[parts[2]]
  <2>1. 1 \in 1 .. Len(parts) /\ 2 \in 1 .. Len(parts)
    BY <1>4, PartsOf
  <2>2. a \in Tokens /\ b \in Tokens
    <3>1. parts[1] \in Types /\ parts[2] \in Types
      BY <2>1, PartsOf
    <3> QED BY <3>1, TextTypes
  <2>3. Inner[t] = a \o (IF Table[parts[2]].parts = <<>> THEN <<>> ELSE <<",">> \o b)
    BY <1>4, InnerForms
  <2>4. /\ \A z \in Tokens : Said(parts[1], z) = a \o z
        /\ Within(parts[2], y) = b \o y
    BY DEF Said, Within
  <2> HIDE DEF a, b
  <2>5. <<",">> \in Tokens /\ <<",">> \o b \in Tokens /\ b \o y \in Tokens
    BY <2>2, SomeTokens, ConsAlone, TokensJoin
  <2> DEFINE m == <<",">> \o b
             w == b \o y
             cw == Cons(",", w)
             in == Inner[t]
  <2>6. <<",">> \in Tokens /\ m \in Tokens /\ w \in Tokens /\ Within(t, y) = in \o y
    BY <2>5 DEF Within
  <2>7. CASE Table[parts[2]].parts = <<>>
    <3>1. in = a
      BY <2>2, <2>3, <2>7, TokensJoin
    <3> HIDE DEF in
    <3> QED BY <2>4, <2>6, <2>7, <3>1
  <2>8. CASE Table[parts[2]].parts # <<>>
    <3>1. in = a \o m
      BY <2>3, <2>8
    <3>2. m \o y = <<",">> \o w
      BY <2>2, <2>6, TokensJoin
    <3>3. <<",">> \o w = cw /\ cw \in Tokens
      <4> HIDE DEF w
      <4> QED BY <2>6, SomeTokens, ConsAlone, ConsType
    <3> HIDE DEF in, m
    <3>4. (a \o m) \o y = a \o (m \o y)
      <4>1. a \in Tokens /\ m \in Tokens
        BY <2>2, <2>6
      <4> QED BY <4>1, TokensJoin
    <3> HIDE DEF w, cw
    <3>5. Within(t, y) = a \o cw
      BY <2>6, <3>1, <3>2, <3>3, <3>4
    <3>6. Said(parts[1], cw) = a \o cw
      BY <2>4, <3>3
    <3>7. cw = Cons(",", Within(parts[2], y))
      BY <2>4 DEF cw, w
    <3> QED BY <2>8, <3>5, <3>6, <3>7
  <2> QED BY <2>7, <2>8
<1> QED BY <1>1, <1>2, <1>3, <1>4

-----------------------------------------------------------------------------
(* The codec of a type, by its kind. *)
LEMMA CodecForms ==
    ASSUME NEW t \in Types
    PROVE  LET d == Table[t]
               p == CodecOf[d.parts[1]]
               q == CodecOf[d.parts[2]]
           IN  /\ d.kind = "int" => CodecOf[t] = Signed(d.size)
               /\ d.kind = "uint" => CodecOf[t] = Unsigned(d.size)
               /\ d.kind = "byte" => CodecOf[t] = Unsigned(1)
               /\ d.kind = "bool" => CodecOf[t] = Bool
               /\ d.kind = "string" => CodecOf[t] = String
               /\ d.kind \in {"void", "tuple"} /\ d.parts = <<>> => CodecOf[t] = Nothing
               /\ d.kind = "vector" => CodecOf[t] = Vector(p)
               /\ d.kind = "array" => CodecOf[t] = Array(p, d.size)
               /\ d.kind = "optional" => CodecOf[t] = Optional(p)
               /\ d.kind = "variant" => \E P : CodecOf[t] = Variant(P) /\ Len(P) \in Nat \ {0} /\ P[1] = p
               /\ d.kind = "pair" \/ (d.kind = "tuple" /\ d.parts # <<>>) => CodecOf[t] = Pair(p, q)
<1> DEFINE d == Table[t]
           n == Len(d.parts)
           P == Parts(CodecOf, t)
           p == CodecOf[d.parts[1]]
           q == CodecOf[d.parts[2]]
<1>1. CodecOf[t] = OverloadsFor(d, P)
  BY CodecDef
<1>2. /\ n \in Nat /\ DOMAIN d.parts = 1 .. n /\ d.parts \in Seq(Nat)
      /\ d.kind \in {"vector", "array", "optional"} => n = 1
      /\ d.kind = "variant" => n > 0
      /\ d.kind = "pair" => n = 2
      /\ d.kind = "tuple" /\ d.parts # <<>> => n = 2
  BY PartsOf
<1>3. DOMAIN P = 1 .. n /\ Len(P) = n
  BY <1>2 DEF Parts
<1>4. (n > 0 => P[1] = p) /\ (n = 2 => P[2] = q)
  BY <1>2 DEF Parts
<1>5. d.parts = <<>> => P = <<>>
  BY <1>2, <1>3
<1>6. P = <<>> => n = 0
  BY <1>3
<1> HIDE DEF d, n, P, p, q
<1>7. /\ d.kind = "int" => CodecOf[t] = Signed(d.size)
      /\ d.kind = "uint" => CodecOf[t] = Unsigned(d.size)
      /\ d.kind = "byte" => CodecOf[t] = Unsigned(1)
      /\ d.kind = "bool" => CodecOf[t] = Bool
      /\ d.kind = "string" => CodecOf[t] = String
  BY <1>1 DEF OverloadsFor
<1>8. d.kind \in {"void", "tuple"} /\ d.parts = <<>> => CodecOf[t] = Nothing
  BY <1>1, <1>5 DEF OverloadsFor
<1>9. /\ d.kind = "vector" => CodecOf[t] = Vector(P[1])
      /\ d.kind = "array" => CodecOf[t] = Array(P[1], d.size)
      /\ d.kind = "optional" => CodecOf[t] = Optional(P[1])
      /\ d.kind = "variant" => CodecOf[t] = Variant(P)
  BY <1>1 DEF OverloadsFor
<1>10. d.kind = "pair" \/ (d.kind = "tuple" /\ d.parts # <<>>) => CodecOf[t] = Pair(P[1], P[2])
  <2>1. d.kind = "pair" => CodecOf[t] = Pair(P[1], P[2])
    BY <1>1 DEF OverloadsFor
  <2>2. d.kind = "tuple" /\ d.parts # <<>> => P # <<>>
    BY <1>2, <1>6
  <2>3. d.kind = "tuple" /\ P # <<>> => CodecOf[t] = Pair(P[1], P[2])
    BY <1>1 DEF OverloadsFor
  <2> QED BY <2>1, <2>2, <2>3
<1>11. /\ d.kind = "vector" => CodecOf[t] = Vector(p)
       /\ d.kind = "array" => CodecOf[t] = Array(p, d.size)
       /\ d.kind = "optional" => CodecOf[t] = Optional(p)
  BY <1>2, <1>4, <1>9
<1>12. d.kind = "variant" => CodecOf[t] = Variant(P) /\ Len(P) \in Nat \ {0} /\ P[1] = p
  BY <1>2, <1>3, <1>4, <1>9
<1>13. d.kind = "pair" \/ (d.kind = "tuple" /\ d.parts # <<>>) => CodecOf[t] = Pair(p, q)
  BY <1>2, <1>4, <1>10
<1> QED BY <1>7, <1>8, <1>11, <1>12, <1>13 DEF d, p, q

-----------------------------------------------------------------------------
(* Two texts that are equal start with the same token. *)
LEMMA ConsTell ==
    \A k, l \in Token, x, y \in Tokens : Cons(k, x) = Cons(l, y) => k = l /\ x = y
<1> TAKE k, l \in Token, x, y \in Tokens
<1> HAVE Cons(k, x) = Cons(l, y)
<1> QED BY ConsEqual

LEMMA MarksTell ==
    \A x, y \in Tokens : /\ Cons(",", x) = Cons(",", y) => x = y
                         /\ Cons(">", x) = Cons(">", y) => x = y
                         /\ Cons("<", x) = Cons("<", y) => x = y
                         /\ Cons(",", x) # Cons(">", y)
<1> TAKE x, y \in Tokens
<1>1. Cons(",", x) = Cons(",", y) => x = y
  BY SomeTokens, ConsTell, Zenon
<1>2. Cons(">", x) = Cons(">", y) => x = y
  BY SomeTokens, ConsTell, Zenon
<1>3. Cons("<", x) = Cons("<", y) => x = y
  BY SomeTokens, ConsTell, Zenon
<1>4. Cons(",", x) # Cons(">", y)
  BY SomeTokens, ConsTell, Zenon
<1> QED BY <1>1, <1>2, <1>3, <1>4

-----------------------------------------------------------------------------
(* Where the text of one type can be that of another. *)
FirstToken(t) == IF Table[t].kind = "bool" THEN "uint" ELSE Table[t].kind

LEMMA SaidFirst ==
    ASSUME NEW t \in Types, NEW x \in Tokens
    PROVE  /\ FirstToken(t) \in Kinds /\ FirstToken(t) \in Token
           /\ \E z \in Tokens : Said(t, x) = Cons(FirstToken(t), z)
<1> DEFINE k == Table[t].kind
           n == Table[t].size
<1>1. k \in Kinds /\ n \in Token
  BY PartsOf DEF Token
<1>2. FirstToken(t) \in Kinds
  BY <1>1 DEF FirstToken, Kinds, Numbers
<1>3. FirstToken(t) \in Token
  BY <1>2 DEF Token
<1>4. Cons(n, x) \in Tokens /\ Cons(1, x) \in Tokens
  BY <1>1, SomeTokens, ConsType
<1>5. CASE k \in {"int", "uint"}
  <2>1. Said(t, x) = Cons(k, Cons(n, x))
    BY <1>5, SaidForms
  <2>2. FirstToken(t) = k
    BY <1>5 DEF FirstToken
  <2> QED BY <1>2, <1>3, <1>4, <2>1, <2>2, Zenon
<1>6. CASE k = "bool"
  <2>1. Said(t, x) = Cons("uint", Cons(1, x))
    BY <1>6, SaidForms
  <2>2. FirstToken(t) = "uint"
    BY <1>6 DEF FirstToken
  <2> QED BY <1>2, <1>3, <1>4, <2>1, <2>2, Zenon
<1>7. CASE k \in {"byte", "string", "void"}
  <2>1. Said(t, x) = Cons(k, x)
    BY <1>7, SaidForms
  <2>2. FirstToken(t) = k
    BY <1>7 DEF FirstToken
  <2> QED BY <1>2, <1>3, <2>1, <2>2, Zenon
<1>8. CASE k \in Templates
  <2>1. Within(t, After(t, x)) \in Tokens
    BY SaidForms, WithinType
  <2>2. Cons("<", Within(t, After(t, x))) \in Tokens
    BY <2>1, SomeTokens, ConsType
  <2>3. FirstToken(t) = k
    BY <1>8 DEF Templates, FirstToken
  <2>4. Said(t, x) = Cons(k, Cons("<", Within(t, After(t, x))))
    BY <1>8, SaidForms
  <2> QED BY <1>2, <1>3, <2>2, <2>3, <2>4, Zenon
<1> QED BY <1>1, <1>2, <1>3, <1>5, <1>6, <1>7, <1>8 DEF Kinds, Numbers

LEMMA SameFirst ==
    ASSUME NEW t \in Types, NEW u \in Types, NEW x \in Tokens, NEW y \in Tokens,
           Said(t, x) = Said(u, y)
    PROVE  FirstToken(t) = FirstToken(u)
<1>1. PICK z \in Tokens : Said(t, x) = Cons(FirstToken(t), z)
  BY SaidFirst
<1>2. PICK w \in Tokens : Said(u, y) = Cons(FirstToken(u), w)
  BY SaidFirst
<1>3. FirstToken(t) \in Token /\ FirstToken(u) \in Token
  BY SaidFirst
<1>4. Cons(FirstToken(t), z) = Cons(FirstToken(u), w)
  BY <1>1, <1>2
<1> QED BY <1>1, <1>2, <1>3, <1>4, ConsTell, Zenon

LEMMA NoneSaysClose ==
    ASSUME NEW t \in Types, NEW x \in Tokens, NEW y \in Tokens
    PROVE  Said(t, x) # Cons(">", y)
<1>1. PICK z \in Tokens : Said(t, x) = Cons(FirstToken(t), z)
  BY SaidFirst
<1>2. FirstToken(t) \in Token /\ FirstToken(t) \in Kinds
  BY SaidFirst
<1>3. FirstToken(t) # ">"
  BY <1>2 DEF Kinds, Numbers, Templates
<1> QED BY <1>1, <1>2, <1>3, SomeTokens, ConsTell, Zenon

(* Whatever follows it, the text of a type tells where it ends and how the *)
(* values of the type are written.                                         *)
Tells(t) ==
    \A u \in Types, x, y \in Tokens :
        Said(t, x) = Said(u, y) => Agrees(CodecOf[t], CodecOf[u]) /\ x = y

(* So does what is between the brackets of a tuple. *)
IsTuple(t) == Table[t].kind = "tuple" /\ Table[t].parts # <<>>

TupleTells(t) ==
    IsTuple(t) => \A u \in Types, x, y \in Tokens :
        IsTuple(u) /\ Within(t, Cons(">", x)) = Within(u, Cons(">", y))
            => Agrees(CodecOf[t], CodecOf[u]) /\ x = y

LEMMA PartsTell ==
    ASSUME NEW t \in Types, NEW u \in Types, NEW x \in Tokens, NEW y \in Tokens, NEW r, NEW q,
           Len(Table[t].parts) > 0, Len(Table[u].parts) > 0,
           \A i \in 1 .. Len(Table[t].parts) : Tells(Table[t].parts[i]),
           Follows(r, t, Cons(">", x)), Follows(q, u, Cons(">", y)), r[0] = q[0]
    PROVE  Agrees(CodecOf[Table[t].parts[1]], CodecOf[Table[u].parts[1]]) /\ x = y
<1> DEFINE a == Table[t].parts
           b == Table[u].parts
           n == Len(a)
           m == Len(b)
<1>1. /\ n \in Nat /\ m \in Nat /\ n > 0 /\ m > 0
      /\ \A i \in 1 .. n : a[i] \in Types
      /\ \A i \in 1 .. m : b[i] \in Types
  BY PartsOf
<1>2. /\ r \in [0 .. n -> Tokens] /\ r[n] = Cons(">", x)
      /\ \A i \in 1 .. n : r[i - 1] = IF i = 1 THEN Said(a[i], r[i]) ELSE Cons(",", Said(a[i], r[i]))
  BY DEF Follows
<1>3. /\ q \in [0 .. m -> Tokens] /\ q[m] = Cons(">", y)
      /\ \A i \in 1 .. m : q[i - 1] = IF i = 1 THEN Said(b[i], q[i]) ELSE Cons(",", Said(b[i], q[i]))
  BY DEF Follows
<1>4. \A i \in 1 .. n : Tells(a[i])
  OBVIOUS
<1> HIDE DEF a, b, n, m
<1>5. ASSUME NEW i \in 1 .. n, i \in 1 .. m, r[i - 1] = q[i - 1]
      PROVE  Agrees(CodecOf[a[i]], CodecOf[b[i]]) /\ r[i] = q[i]
  <2>1. a[i] \in Types /\ b[i] \in Types /\ r[i] \in Tokens /\ q[i] \in Tokens
    <3>1. i \in 0 .. n /\ i \in 0 .. m
      BY <1>1, <1>5
    <3> QED BY <1>1, <1>2, <1>3, <1>5, <3>1
  <2>2. Said(a[i], r[i]) \in Tokens /\ Said(b[i], q[i]) \in Tokens
    BY <2>1, SaidForms
  <2>3. Said(a[i], r[i]) = Said(b[i], q[i])
    <3>1. CASE i = 1
      BY <1>2, <1>3, <1>5, <3>1
    <3>2. CASE i # 1
      <4>1. Cons(",", Said(a[i], r[i])) = Cons(",", Said(b[i], q[i]))
        BY <1>2, <1>3, <1>5, <3>2
      <4> QED BY <2>2, <4>1, MarksTell, Zenon
    <3> QED BY <3>1, <3>2
  <2> QED BY <1>4, <2>1, <2>3 DEF Tells
<1>6. \A k \in Nat : k <= n /\ k <= m => r[k] = q[k]
  <2> DEFINE P == {k \in Nat : k <= n /\ k <= m => r[k] = q[k]}
  <2>1. 0 \in P
    OBVIOUS
  <2>2. ASSUME NEW k \in Nat, k \in P PROVE k + 1 \in P
    <3> SUFFICES ASSUME k + 1 <= n, k + 1 <= m PROVE r[k + 1] = q[k + 1]
      OBVIOUS
    <3>1. k + 1 \in 1 .. n /\ k + 1 \in 1 .. m /\ (k + 1) - 1 = k /\ r[k] = q[k]
      BY <1>1, <2>2
    <3> QED BY <1>5, <3>1
  <2>3. P = Nat
    <3>1. P \subseteq Nat
      OBVIOUS
    <3> HIDE DEF P
    <3> QED BY <2>1, <2>2, <3>1, SetInduction
  <2> QED BY <2>3
<1>7. Agrees(CodecOf[a[1]], CodecOf[b[1]])
  <2>1. 1 \in 1 .. n /\ 1 \in 1 .. m /\ r[1 - 1] = q[1 - 1]
    BY <1>1
  <2> QED BY <1>5, <2>1
<1>8. ~(n < m)
  <2> SUFFICES ASSUME n < m PROVE FALSE
    OBVIOUS
  <2>1. n + 1 \in 1 .. m /\ n + 1 # 1 /\ (n + 1) - 1 = n /\ n + 1 \in 0 .. m
    BY <1>1
  <2>2. q[n] = Cons(",", Said(b[n + 1], q[n + 1]))
    BY <1>3, <2>1
  <2>3. q[n] = Cons(">", x)
    <3>1. n <= n /\ n <= m
      BY <1>1
    <3>2. r[n] = q[n]
      BY <1>1, <1>6, <3>1
    <3> QED BY <1>2, <3>2
  <2>4. Said(b[n + 1], q[n + 1]) \in Tokens
    BY <1>1, <1>3, <2>1, SaidForms
  <2> QED BY <2>2, <2>3, <2>4, MarksTell, Zenon
<1>9. ~(m < n)
  <2> SUFFICES ASSUME m < n PROVE FALSE
    OBVIOUS
  <2>1. m + 1 \in 1 .. n /\ m + 1 # 1 /\ (m + 1) - 1 = m /\ m + 1 \in 0 .. n
    BY <1>1
  <2>2. r[m] = Cons(",", Said(a[m + 1], r[m + 1]))
    BY <1>2, <2>1
  <2>3. r[m] = Cons(">", y)
    <3>1. m <= n /\ m <= m
      BY <1>1
    <3>2. r[m] = q[m]
      BY <1>1, <1>6, <3>1
    <3> QED BY <1>3, <3>2
  <2>4. Said(a[m + 1], r[m + 1]) \in Tokens
    BY <1>1, <1>2, <2>1, SaidForms
  <2> QED BY <2>2, <2>3, <2>4, MarksTell, Zenon
<1>10. x = y
  <2>1. n = m
    BY <1>1, <1>8, <1>9
  <2>2. Cons(">", x) = Cons(">", y)
    <3>1. n <= n /\ n <= m
      BY <1>1, <2>1
    <3>2. r[n] = q[n]
      BY <1>1, <1>6, <3>1
    <3> QED BY <1>2, <1>3, <2>1, <3>2
  <2> QED BY <2>2, MarksTell, Zenon
<1> QED BY <1>7, <1>10 DEF a, b

-----------------------------------------------------------------------------
(* A type tells, if the types it is made of do. *)
PartsDo(t) ==
    \A i \in 1 .. Len(Table[t].parts) : Tells(Table[t].parts[i]) /\ TupleTells(Table[t].parts[i])

LEMMA SameKind ==
    ASSUME NEW t \in Types, NEW u \in Types, NEW x \in Tokens, NEW y \in Tokens,
           Said(t, x) = Said(u, y)
    PROVE  \/ Table[t].kind = Table[u].kind
           \/ Table[t].kind \in {"uint", "bool"} /\ Table[u].kind \in {"uint", "bool"}
BY SameFirst DEF FirstToken

LEMMA LaterTell ==
    \A k, l \in Token : \A x, y \in Tokens : Cons(k, x) = Cons(l, y) => x = y
BY ConsTell

(* Numbers, and bools, by the number of their bytes. *)
Width(t) == IF Table[t].kind = "bool" THEN 1 ELSE Table[t].size

LEMMA NumberTells ==
    ASSUME NEW t \in Types, NEW u \in Types, NEW x \in Tokens, NEW y \in Tokens,
           Said(t, x) = Said(u, y), Table[t].kind \in {"int", "uint", "bool"}
    PROVE  Agrees(CodecOf[t], CodecOf[u]) /\ x = y
<1>1. ASSUME NEW s \in Types, NEW z \in Tokens, Table[s].kind \in {"int", "uint", "bool"}
      PROVE  /\ FirstToken(s) \in Token /\ Width(s) \in Token /\ Cons(Width(s), z) \in Tokens
             /\ Said(s, z) = Cons(FirstToken(s), Cons(Width(s), z))
  <2>1. Table[s].size \in Token
    BY PartsOf DEF Token
  <2>2. Width(s) \in Token
    BY <2>1, SomeTokens DEF Width
  <2>3. Cons(Width(s), z) \in Tokens
    BY <2>2, ConsType
  <2>4. FirstToken(s) \in Token
    BY SaidFirst
  <2>5. CASE Table[s].kind = "bool"
    <3>1. Said(s, z) = Cons("uint", Cons(1, z))
      BY <2>5, SaidForms
    <3>2. FirstToken(s) = "uint" /\ Width(s) = 1
      BY <2>5 DEF FirstToken, Width
    <3> QED BY <2>2, <2>3, <2>4, <3>1, <3>2, Zenon
  <2>6. CASE Table[s].kind \in {"int", "uint"}
    <3>1. Said(s, z) = Cons(Table[s].kind, Cons(Table[s].size, z))
      BY <2>6, SaidForms
    <3>2. FirstToken(s) = Table[s].kind /\ Width(s) = Table[s].size
      BY <2>6 DEF FirstToken, Width
    <3> QED BY <2>2, <2>3, <2>4, <3>1, <3>2, Zenon
  <2> QED BY <1>1, <2>5, <2>6
<1>2. Table[u].kind \in {"int", "uint", "bool"}
  BY SameKind
<1>3. /\ FirstToken(t) \in Token /\ Width(t) \in Token /\ Cons(Width(t), x) \in Tokens
      /\ Said(t, x) = Cons(FirstToken(t), Cons(Width(t), x))
  BY <1>1
<1>4. /\ FirstToken(u) \in Token /\ Width(u) \in Token /\ Cons(Width(u), y) \in Tokens
      /\ Said(u, y) = Cons(FirstToken(u), Cons(Width(u), y))
  BY <1>1, <1>2
<1>5. Cons(Width(t), x) = Cons(Width(u), y)
  <2>1. Cons(FirstToken(t), Cons(Width(t), x)) = Cons(FirstToken(u), Cons(Width(u), y))
    BY <1>3, <1>4
  <2> QED BY <1>3, <1>4, <2>1, LaterTell
<1>6. Width(t) = Width(u) /\ x = y
  BY <1>3, <1>4, <1>5, ConsTell
<1>7. Faithful(CodecOf[t]) /\ Faithful(CodecOf[u])
  BY CodecFaithful
<1>8. CASE Table[t].kind = Table[u].kind
  <2>1. CASE Table[t].kind = "bool"
    <3>1. CodecOf[t] = CodecOf[u]
      <4>1. CodecOf[t] = Bool
        BY <2>1, CodecForms
      <4>2. CodecOf[u] = Bool
        BY <1>8, <2>1, CodecForms
      <4> QED BY <4>1, <4>2
    <3>2. Agrees(CodecOf[t], CodecOf[t])
      BY <1>7, SameAgrees
    <3> QED BY <1>6, <3>1, <3>2
  <2>2. CASE Table[t].kind # "bool"
    <3>1. Table[t].size = Table[u].size
      BY <1>6, <1>8, <2>2 DEF Width
    <3>2. CodecOf[t] = CodecOf[u]
      <4>1. CASE Table[t].kind = "int"
        <5>1. CodecOf[t] = Signed(Table[t].size)
          BY <4>1, CodecForms
        <5>2. CodecOf[u] = Signed(Table[u].size)
          BY <1>8, <4>1, CodecForms
        <5> QED BY <3>1, <5>1, <5>2, Zenon
      <4>2. CASE Table[t].kind = "uint"
        <5>1. CodecOf[t] = Unsigned(Table[t].size)
          BY <4>2, CodecForms
        <5>2. CodecOf[u] = Unsigned(Table[u].size)
          BY <1>8, <4>2, CodecForms
        <5> QED BY <3>1, <5>1, <5>2, Zenon
      <4> QED BY <2>2, <4>1, <4>2
    <3>3. Agrees(CodecOf[t], CodecOf[t])
      BY <1>7, SameAgrees
    <3> QED BY <1>6, <3>2, <3>3
  <2> QED BY <2>1, <2>2
<1>9. CASE Table[t].kind = "uint" /\ Table[u].kind = "bool"
  <2>1. Table[t].size = 1
    BY <1>6, <1>9 DEF Width
  <2>2. CodecOf[t] = Unsigned(Table[t].size)
    BY <1>9, CodecForms
  <2>3. CodecOf[u] = Bool
    BY <1>9, CodecForms
  <2> QED BY <1>6, <2>1, <2>2, <2>3, BoolsAndNumbers, Zenon
<1>10. CASE Table[t].kind = "bool" /\ Table[u].kind = "uint"
  <2>1. Table[u].size = 1
    BY <1>6, <1>10 DEF Width
  <2>2. CodecOf[u] = Unsigned(Table[u].size)
    BY <1>10, CodecForms
  <2>3. CodecOf[t] = Bool
    BY <1>10, CodecForms
  <2> QED BY <1>6, <2>1, <2>2, <2>3, BoolsAndNumbers, Zenon
<1> QED BY <1>8, <1>9, <1>10, SameKind

LEMMA NameTells ==
    ASSUME NEW t \in Types, NEW u \in Types, NEW x \in Tokens, NEW y \in Tokens,
           Said(t, x) = Said(u, y), Table[t].kind \in {"byte", "string", "void"}
    PROVE  Agrees(CodecOf[t], CodecOf[u]) /\ x = y
<1>1. Table[u].kind = Table[t].kind /\ Table[t].kind \in Token
  BY SameKind, PartsOf DEF Token
<1>2. x = y
  <2>1. Said(t, x) = Cons(Table[t].kind, x)
    BY SaidForms
  <2>2. Said(u, y) = Cons(Table[t].kind, y)
    BY <1>1, SaidForms
  <2>3. Cons(Table[t].kind, x) = Cons(Table[t].kind, y)
    BY <2>1, <2>2
  <2> QED BY <1>1, <2>3, LaterTell
<1>3. CodecOf[t] = CodecOf[u]
  <2>1. CASE Table[t].kind = "byte"
    BY <1>1, <2>1, CodecForms
  <2>2. CASE Table[t].kind = "string"
    BY <1>1, <2>2, CodecForms
  <2>3. CASE Table[t].kind = "void"
    <3>1. "void" \notin Templates
      BY DEF Templates
    <3>2. Table[t].parts = <<>> /\ Table[u].parts = <<>>
      BY <1>1, <2>3, <3>1, PartsOf
    <3>3. CodecOf[t] = Nothing
      BY <2>3, <3>2, CodecForms
    <3>4. CodecOf[u] = Nothing
      BY <1>1, <2>3, <3>2, CodecForms
    <3> QED BY <3>3, <3>4
  <2> QED BY <2>1, <2>2, <2>3
<1>4. Agrees(CodecOf[t], CodecOf[t])
  BY CodecFaithful, SameAgrees
<1> QED BY <1>2, <1>3, <1>4

(* What is between the brackets of templates of one name, and after it. *)
LEMMA TemplateTells ==
    ASSUME NEW t \in Types, NEW u \in Types, NEW x \in Tokens, NEW y \in Tokens,
           Said(t, x) = Said(u, y), Table[t].kind \in Templates
    PROVE  /\ Table[u].kind = Table[t].kind
           /\ After(t, x) \in Tokens /\ After(u, y) \in Tokens
           /\ Within(t, After(t, x)) = Within(u, After(u, y))
<1>1. Table[u].kind = Table[t].kind /\ Table[t].kind \in Token
  <2>1. Table[t].kind \notin {"uint", "bool"}
    BY DEF Templates
  <2> QED BY <2>1, SameKind, PartsOf DEF Token
<1> DEFINE a == Within(t, After(t, x))
           b == Within(u, After(u, y))
<1>2. After(t, x) \in Tokens /\ After(u, y) \in Tokens
  BY SaidForms
<1>3. a \in Tokens /\ b \in Tokens
  BY <1>2, WithinType
<1>4. Said(t, x) = Cons(Table[t].kind, Cons("<", a))
  BY SaidForms
<1>5. Said(u, y) = Cons(Table[t].kind, Cons("<", b))
  BY <1>1, SaidForms
<1> HIDE DEF a, b
<1>6. Cons("<", a) \in Tokens /\ Cons("<", b) \in Tokens
  BY <1>3, SomeTokens, ConsType
<1>7. Cons(Table[t].kind, Cons("<", a)) = Cons(Table[t].kind, Cons("<", b))
  BY <1>4, <1>5
<1>8. Cons("<", a) = Cons("<", b)
  BY <1>1, <1>6, <1>7, LaterTell
<1>9. a = b
  BY <1>3, <1>8, MarksTell, Zenon
<1> QED BY <1>1, <1>2, <1>9 DEF a, b
LEMMA PartOf ==
    ASSUME NEW t \in Types, PartsDo(t), NEW i \in 1 .. Len(Table[t].parts)
    PROVE  /\ Table[t].parts[i] \in Types /\ Faithful(CodecOf[Table[t].parts[i]])
           /\ Tells(Table[t].parts[i]) /\ TupleTells(Table[t].parts[i])
BY PartsOf, CodecFaithful DEF PartsDo

(* A vector or optional, which is its length and its elements. *)
LEMMA CountedTells ==
    ASSUME NEW t \in Types, PartsDo(t), Table[t].kind \in {"vector", "optional"},
           NEW u \in Types, NEW x \in Tokens, NEW y \in Tokens, Said(t, x) = Said(u, y)
    PROVE  Agrees(CodecOf[t], CodecOf[u]) /\ x = y
<1> DEFINE a == Table[t].parts[1]
           b == Table[u].parts[1]
<1>1. /\ Table[u].kind = Table[t].kind
      /\ Within(t, After(t, x)) = Within(u, After(u, y))
  <2>1. Table[t].kind \in Templates
    BY DEF Templates
  <2> QED BY <2>1, TemplateTells
<1>2. After(t, x) = Cons(">", x) /\ After(u, y) = Cons(">", y)
  BY <1>1 DEF After
<1>3. Cons(">", x) \in Tokens /\ Cons(">", y) \in Tokens
  BY SaidForms
<1>4. Len(Table[t].parts) = 1 /\ Len(Table[u].parts) = 1
  BY <1>1, PartsOf
<1>5. a \in Types /\ b \in Types /\ Faithful(CodecOf[a]) /\ Faithful(CodecOf[b]) /\ Tells(a)
  <2>1. 1 \in 1 .. Len(Table[t].parts) /\ 1 \in 1 .. Len(Table[u].parts)
    BY <1>4
  <2>2. b \in Types
    BY <2>1, PartsOf
  <2> QED BY <2>1, <2>2, PartOf, CodecFaithful
<1>6. Said(a, Cons(">", x)) = Said(b, Cons(">", y))
  <2>1. Within(t, Cons(">", x)) = Said(a, Cons(">", x))
    BY <1>3, InnerSaid
  <2>2. Within(u, Cons(">", y)) = Said(b, Cons(">", y))
    <3> DEFINE ey == Cons(">", y)
    <3>1. Table[u].kind \in {"vector", "array", "optional"} /\ ey \in Tokens
      BY <1>1, <1>3
    <3> HIDE DEF ey
    <3>2. Within(u, ey) = Said(b, ey)
      BY <3>1, InnerSaid
    <3> QED BY <3>2 DEF ey
  <2> QED BY <1>1, <1>2, <2>1, <2>2
<1> HIDE DEF a, b
<1>7. Agrees(CodecOf[a], CodecOf[b]) /\ Cons(">", x) = Cons(">", y)
  BY <1>3, <1>5, <1>6 DEF Tells
<1>8. x = y
  BY <1>7, MarksTell
<1>9. CASE Table[t].kind = "vector"
  <2>1. CodecOf[t] = Vector(CodecOf[a])
    BY <1>9, CodecForms DEF a
  <2>2. CodecOf[u] = Vector(CodecOf[b])
    BY <1>1, <1>9, CodecForms DEF b
  <2>3. /\ Counts(CodecOf[t], Unsigned(LengthWidth), CodecOf[a])
        /\ Counts(CodecOf[u], Unsigned(LengthWidth), CodecOf[b])
    BY <2>1, <2>2, VectorCounts
  <2>4. Faithful(Unsigned(LengthWidth))
    BY BaseType, UnsignedFaithful
  <2> QED BY <1>5, <1>7, <1>8, <2>3, <2>4, CountedAgrees
<1>10. CASE Table[t].kind = "optional"
  <2>1. CodecOf[t] = Optional(CodecOf[a])
    BY <1>10, CodecForms DEF a
  <2>2. CodecOf[u] = Optional(CodecOf[b])
    BY <1>1, <1>10, CodecForms DEF b
  <2>3. Counts(CodecOf[t], Bool, CodecOf[a]) /\ Counts(CodecOf[u], Bool, CodecOf[b])
    BY <2>1, <2>2, OptionalCounts
  <2>4. Faithful(Bool)
    BY BoolFaithful
  <2> QED BY <1>5, <1>7, <1>8, <2>3, <2>4, CountedAgrees
<1> QED BY <1>9, <1>10

(* An array, whose text ends with its length. *)
LEMMA ArrayTells ==
    ASSUME NEW t \in Types, PartsDo(t), Table[t].kind = "array",
           NEW u \in Types, NEW x \in Tokens, NEW y \in Tokens, Said(t, x) = Said(u, y)
    PROVE  Agrees(CodecOf[t], CodecOf[u]) /\ x = y
<1> DEFINE a == Table[t].parts[1]
           b == Table[u].parts[1]
           n == Table[t].size
           m == Table[u].size
           ex == Cons(">", x)
           ey == Cons(">", y)
           sx == Cons(n, ex)
           sy == Cons(m, ey)
<1>1. /\ Table[u].kind = Table[t].kind
      /\ Within(t, After(t, x)) = Within(u, After(u, y))
      /\ After(t, x) \in Tokens /\ After(u, y) \in Tokens
  <2>1. Table[t].kind \in Templates
    BY DEF Templates
  <2> QED BY <2>1, TemplateTells
<1>2. After(t, x) = Cons(",", sx) /\ After(u, y) = Cons(",", sy)
  BY <1>1 DEF After
<1>3. n \in Token /\ m \in Token /\ n \in Nat
  BY PartsOf DEF Token
<1>4. ex \in Tokens /\ ey \in Tokens
  BY SaidForms
<1>5. sx \in Tokens /\ sy \in Tokens
  <2> HIDE DEF ex, ey, n, m
  <2> QED BY <1>3, <1>4, ConsType
<1>6. Len(Table[t].parts) = 1 /\ Len(Table[u].parts) = 1
  BY <1>1, PartsOf
<1>7. a \in Types /\ b \in Types /\ Faithful(CodecOf[a]) /\ Faithful(CodecOf[b]) /\ Tells(a)
  <2>1. 1 \in 1 .. Len(Table[t].parts) /\ 1 \in 1 .. Len(Table[u].parts)
    BY <1>6
  <2>2. b \in Types
    BY <2>1, PartsOf
  <2> QED BY <2>1, <2>2, PartOf, CodecFaithful
<1>8. Said(a, After(t, x)) = Said(b, After(u, y))
  <2>1. Within(t, After(t, x)) = Said(a, After(t, x))
    BY <1>1, InnerSaid
  <2>2. Within(u, After(u, y)) = Said(b, After(u, y))
    BY <1>1, InnerSaid
  <2> QED BY <1>1, <2>1, <2>2
<1>9. CodecOf[t] = Array(CodecOf[a], n)
  BY CodecForms
<1>10. CodecOf[u] = Array(CodecOf[b], m)
  BY <1>1, CodecForms
<1> HIDE DEF a, b, n, m, ex, ey, sx, sy
<1>11. Agrees(CodecOf[a], CodecOf[b]) /\ After(t, x) = After(u, y)
  BY <1>1, <1>7, <1>8 DEF Tells
<1>12. sx = sy
  BY <1>2, <1>5, <1>11, MarksTell
<1>13. n = m /\ ex = ey
  BY <1>3, <1>4, <1>12, ConsTell DEF sx, sy
<1>14. x = y
  BY <1>13, MarksTell DEF ex, ey
<1>15. Agrees(Array(CodecOf[a], n), Array(CodecOf[b], n))
  BY <1>3, <1>7, <1>11, ArrayAgrees
<1> QED BY <1>9, <1>10, <1>13, <1>14, <1>15

LEMMA PairTells ==
    ASSUME NEW t \in Types, PartsDo(t), Table[t].kind = "pair",
           NEW u \in Types, NEW x \in Tokens, NEW y \in Tokens, Said(t, x) = Said(u, y)
    PROVE  Agrees(CodecOf[t], CodecOf[u]) /\ x = y
<1> DEFINE a == Table[t].parts[1]
           b == Table[u].parts[1]
           c == Table[t].parts[2]
           d == Table[u].parts[2]
           ex == Cons(">", x)
           ey == Cons(">", y)
           sx == Said(c, ex)
           sy == Said(d, ey)
           cx == Cons(",", sx)
           cy == Cons(",", sy)
<1>1. /\ Table[u].kind = Table[t].kind
      /\ Within(t, After(t, x)) = Within(u, After(u, y))
  <2>1. Table[t].kind \in Templates
    BY DEF Templates
  <2> QED BY <2>1, TemplateTells
<1>2. After(t, x) = ex /\ After(u, y) = ey
  BY <1>1 DEF After
<1>3. ex \in Tokens /\ ey \in Tokens
  BY SaidForms
<1>4. Len(Table[t].parts) = 2 /\ Len(Table[u].parts) = 2
  BY <1>1, PartsOf
<1>5. /\ a \in Types /\ b \in Types /\ Faithful(CodecOf[a]) /\ Faithful(CodecOf[b]) /\ Tells(a)
      /\ c \in Types /\ d \in Types /\ Faithful(CodecOf[c]) /\ Faithful(CodecOf[d]) /\ Tells(c)
  <2>1. /\ 1 \in 1 .. Len(Table[t].parts) /\ 1 \in 1 .. Len(Table[u].parts)
        /\ 2 \in 1 .. Len(Table[t].parts) /\ 2 \in 1 .. Len(Table[u].parts)
    BY <1>4
  <2>2. b \in Types /\ d \in Types
    BY <2>1, PartsOf
  <2> QED BY <2>1, <2>2, PartOf, CodecFaithful
<1>6. sx \in Tokens /\ sy \in Tokens /\ cx \in Tokens /\ cy \in Tokens
  <2> HIDE DEF ex, ey, c, d
  <2>1. sx \in Tokens /\ sy \in Tokens
    BY <1>3, <1>5, SaidForms
  <2> HIDE DEF sx, sy
  <2> QED BY <2>1, SomeTokens, ConsType
<1>7. Said(a, cx) = Said(b, cy)
  <2>1. Within(t, ex) = Said(a, cx)
    BY <1>3, InnerSaid
  <2>2. Within(u, ey) = Said(b, cy)
    <3>1. Table[u].kind = "pair"
      BY <1>1
    <3> HIDE DEF ey
    <3> QED BY <1>3, <3>1, InnerSaid
  <2> QED BY <1>1, <1>2, <2>1, <2>2
<1>8. CodecOf[t] = Pair(CodecOf[a], CodecOf[c])
  BY CodecForms
<1>9. CodecOf[u] = Pair(CodecOf[b], CodecOf[d])
  BY <1>1, CodecForms
<1> HIDE DEF a, b, c, d, ex, ey, sx, sy, cx, cy
<1>10. Agrees(CodecOf[a], CodecOf[b]) /\ cx = cy
  BY <1>5, <1>6, <1>7 DEF Tells
<1>11. sx = sy
  BY <1>6, <1>10, MarksTell DEF cx, cy
<1>12. Agrees(CodecOf[c], CodecOf[d]) /\ ex = ey
  BY <1>3, <1>5, <1>11 DEF Tells, sx, sy
<1>13. x = y
  BY <1>12, MarksTell DEF ex, ey
<1>14. Agrees(Pair(CodecOf[a], CodecOf[c]), Pair(CodecOf[b], CodecOf[d]))
  BY <1>5, <1>10, <1>12, PairAgrees
<1> QED BY <1>8, <1>9, <1>13, <1>14

(* A variant, of which only the first alternative is ever read. *)
LEMMA VariantTells ==
    ASSUME NEW t \in Types, PartsDo(t), Table[t].kind = "variant",
           NEW u \in Types, NEW x \in Tokens, NEW y \in Tokens, Said(t, x) = Said(u, y)
    PROVE  Agrees(CodecOf[t], CodecOf[u]) /\ x = y
<1> DEFINE a == Table[t].parts[1]
           b == Table[u].parts[1]
           ex == Cons(">", x)
           ey == Cons(">", y)
<1>1. /\ Table[u].kind = Table[t].kind
      /\ Within(t, After(t, x)) = Within(u, After(u, y))
  <2>1. Table[t].kind \in Templates
    BY DEF Templates
  <2> QED BY <2>1, TemplateTells
<1>2. After(t, x) = ex /\ After(u, y) = ey
  BY <1>1 DEF After
<1>3. ex \in Tokens /\ ey \in Tokens
  BY SaidForms
<1>4. /\ Len(Table[t].parts) > 0 /\ Len(Table[u].parts) > 0
      /\ Len(Table[t].parts) \in Nat /\ Len(Table[u].parts) \in Nat
  BY <1>1, PartsOf
<1>5. a \in Types /\ b \in Types /\ Faithful(CodecOf[a]) /\ Faithful(CodecOf[b])
  <2>1. 1 \in 1 .. Len(Table[t].parts) /\ 1 \in 1 .. Len(Table[u].parts)
    BY <1>4
  <2>2. a \in Types /\ b \in Types
    BY <2>1, PartsOf
  <2> QED BY <2>2, CodecFaithful
<1>6. PICK r : Follows(r, t, ex)
  BY <1>3, InnerFollows
<1>7. PICK q : Follows(q, u, ey)
  BY <1>1, <1>3, InnerFollows
<1>8. r[0] = q[0]
  <2>1. Within(t, ex) = r[0]
    BY <1>6 DEF Follows
  <2>2. Within(u, ey) = q[0]
    BY <1>7 DEF Follows
  <2> QED BY <1>1, <1>2, <2>1, <2>2
<1>9. \A i \in 1 .. Len(Table[t].parts) : Tells(Table[t].parts[i])
  BY DEF PartsDo
<1>10. Agrees(CodecOf[a], CodecOf[b]) /\ x = y
  BY <1>4, <1>6, <1>7, <1>8, <1>9, PartsTell
<1>11. PICK P : CodecOf[t] = Variant(P) /\ Len(P) \in Nat \ {0} /\ P[1] = CodecOf[a]
  BY CodecForms
<1>12. PICK Q : CodecOf[u] = Variant(Q) /\ Q[1] = CodecOf[b]
  BY <1>1, CodecForms
<1> HIDE DEF a, b
<1>13. Agrees(Variant(P), Variant(Q))
  BY <1>5, <1>10, <1>11, <1>12, VariantAgrees
<1> QED BY <1>10, <1>11, <1>12, <1>13

(* What is between the brackets of a tuple: its first element and what is  *)
(* between those of the tuple of the others.                               *)
LEMMA FieldsTell ==
    ASSUME NEW t \in Types, PartsDo(t)
    PROVE  TupleTells(t)
<1> SUFFICES ASSUME IsTuple(t), NEW u \in Types, NEW x \in Tokens, NEW y \in Tokens,
                    IsTuple(u), Within(t, Cons(">", x)) = Within(u, Cons(">", y))
             PROVE  Agrees(CodecOf[t], CodecOf[u]) /\ x = y
  BY DEF TupleTells
<1> DEFINE a == Table[t].parts[1]
           b == Table[u].parts[1]
           c == Table[t].parts[2]
           d == Table[u].parts[2]
           ex == Cons(">", x)
           ey == Cons(">", y)
           ic == Within(c, ex)
           id == Within(d, ey)
           cx == Cons(",", ic)
           cy == Cons(",", id)
           fx == IF Table[c].parts = <<>> THEN ex ELSE cx
           fy == IF Table[d].parts = <<>> THEN ey ELSE cy
<1>1. /\ Table[t].kind = "tuple" /\ Table[t].parts # <<>>
      /\ Table[u].kind = "tuple" /\ Table[u].parts # <<>>
  BY DEF IsTuple
<1>2. /\ Len(Table[t].parts) = 2 /\ Len(Table[u].parts) = 2
      /\ Table[c].kind = "tuple" /\ Table[d].kind = "tuple"
  BY <1>1, PartsOf
<1>3. ex \in Tokens /\ ey \in Tokens
  BY SaidForms
<1>4. /\ a \in Types /\ b \in Types /\ Faithful(CodecOf[a]) /\ Faithful(CodecOf[b]) /\ Tells(a)
      /\ c \in Types /\ d \in Types /\ Faithful(CodecOf[c]) /\ Faithful(CodecOf[d]) /\ TupleTells(c)
  <2>1. /\ 1 \in 1 .. Len(Table[t].parts) /\ 1 \in 1 .. Len(Table[u].parts)
        /\ 2 \in 1 .. Len(Table[t].parts) /\ 2 \in 1 .. Len(Table[u].parts)
    BY <1>2
  <2>2. b \in Types /\ d \in Types
    BY <2>1, PartsOf
  <2> QED BY <2>1, <2>2, PartOf, CodecFaithful
<1>5. ic \in Tokens /\ id \in Tokens
  <2> HIDE DEF c, d, ex, ey
  <2> QED BY <1>3, <1>4, WithinType
<1>6. cx \in Tokens /\ cy \in Tokens
  <2> HIDE DEF ic, id
  <2> QED BY <1>5, SomeTokens, ConsType
<1>7. Said(a, fx) = Said(b, fy)
  <2>1. Within(t, ex) = Said(a, fx)
    BY <1>1, <1>3, InnerSaid
  <2>2. Within(u, ey) = Said(b, fy)
    BY <1>1, <1>3, InnerSaid
  <2> QED BY <2>1, <2>2
<1>8. CodecOf[t] = Pair(CodecOf[a], CodecOf[c])
  BY <1>1, CodecForms
<1>9. CodecOf[u] = Pair(CodecOf[b], CodecOf[d])
  BY <1>1, CodecForms
<1>10. /\ Table[c].parts = <<>> => CodecOf[c] = Nothing
       /\ Table[d].parts = <<>> => CodecOf[d] = Nothing
  BY <1>2, <1>4, CodecForms
<1> HIDE DEF a, b, c, d, ex, ey, ic, id, cx, cy
<1>11. fx \in Tokens /\ fy \in Tokens
  BY <1>3, <1>6
<1>12. Agrees(CodecOf[a], CodecOf[b]) /\ fx = fy
  <2> HIDE DEF fx, fy
  <2> QED BY <1>4, <1>7, <1>11 DEF Tells
<1>13. Agrees(CodecOf[c], CodecOf[d]) /\ x = y
  <2>1. CASE Table[c].parts = <<>> /\ Table[d].parts = <<>>
    <3>1. ex = ey
      BY <1>12, <2>1
    <3>2. x = y
      BY <3>1, MarksTell DEF ex, ey
    <3>3. Agrees(CodecOf[c], CodecOf[c]) /\ CodecOf[c] = CodecOf[d]
      BY <1>4, <1>10, <2>1, SameAgrees
    <3> QED BY <3>2, <3>3
  <2>2. CASE Table[c].parts = <<>> /\ Table[d].parts # <<>>
    <3>1. ex = cy
      BY <1>12, <2>2
    <3> QED BY <1>5, <3>1, MarksTell DEF ex, cy
  <2>3. CASE Table[c].parts # <<>> /\ Table[d].parts = <<>>
    <3>1. cx = ey
      BY <1>12, <2>3
    <3> QED BY <1>5, <3>1, MarksTell DEF ey, cx
  <2>4. CASE Table[c].parts # <<>> /\ Table[d].parts # <<>>
    <3>1. cx = cy
      BY <1>12, <2>4
    <3>2. ic = id
      BY <1>5, <3>1, MarksTell DEF cx, cy
    <3>3. IsTuple(c) /\ IsTuple(d)
      BY <1>2, <2>4 DEF IsTuple
    <3> QED BY <1>4, <3>2, <3>3 DEF TupleTells, ic, id, ex, ey
  <2> QED BY <2>1, <2>2, <2>3, <2>4
<1>14. Agrees(Pair(CodecOf[a], CodecOf[c]), Pair(CodecOf[b], CodecOf[d]))
  BY <1>4, <1>12, <1>13, PairAgrees
<1> QED BY <1>8, <1>9, <1>13, <1>14

LEMMA TupleTypeTells ==
    ASSUME NEW t \in Types, PartsDo(t), Table[t].kind = "tuple",
           NEW u \in Types, NEW x \in Tokens, NEW y \in Tokens, Said(t, x) = Said(u, y)
    PROVE  Agrees(CodecOf[t], CodecOf[u]) /\ x = y
<1> DEFINE ex == Cons(">", x)
           ey == Cons(">", y)
<1>1. /\ Table[u].kind = Table[t].kind
      /\ Within(t, After(t, x)) = Within(u, After(u, y))
  <2>1. Table[t].kind \in Templates
    BY DEF Templates
  <2> QED BY <2>1, TemplateTells
<1>2. After(t, x) = ex /\ After(u, y) = ey
  BY <1>1 DEF After
<1>3. ex \in Tokens /\ ey \in Tokens
  BY SaidForms
<1>4. Within(t, ex) = Within(u, ey)
  BY <1>1, <1>2
<1>5. ASSUME NEW s \in Types, NEW z \in Tokens, Table[s].parts # <<>>, Table[s].kind = "tuple"
      PROVE  \E w \in Tokens : Within(s, Cons(">", z)) = Said(Table[s].parts[1], w) /\ Table[s].parts[1] \in Types
  <2> DEFINE c == Table[s].parts[2]
             e == Cons(">", z)
             i == Within(c, e)
             w == IF Table[c].parts = <<>> THEN e ELSE Cons(",", i)
  <2>1. 1 \in 1 .. Len(Table[s].parts) /\ 2 \in 1 .. Len(Table[s].parts)
    BY <1>5, PartsOf
  <2>2. Table[s].parts[1] \in Types /\ c \in Types
    BY <2>1, PartsOf
  <2>3. e \in Tokens
    BY SaidForms
  <2>4. i \in Tokens
    <3> HIDE DEF c, e
    <3> QED BY <2>2, <2>3, WithinType
  <2>5. Cons(",", i) \in Tokens
    <3> HIDE DEF i
    <3> QED BY <2>4, SomeTokens, ConsType
  <2>6. w \in Tokens
    BY <2>3, <2>5
  <2>7. Within(s, e) = Said(Table[s].parts[1], w)
    BY <1>5, <2>3, InnerSaid
  <2> HIDE DEF w
  <2> QED BY <2>2, <2>6, <2>7
<1>6. CASE Table[t].parts = <<>> /\ Table[u].parts = <<>>
  <2>1. Within(t, ex) = ex
    BY <1>3, <1>6, InnerSaid
  <2>2. Within(u, ey) = ey
    BY <1>3, <1>6, InnerSaid
  <2>3. x = y
    BY <1>4, <2>1, <2>2, MarksTell
  <2>4. CodecOf[t] = Nothing
    BY <1>6, CodecForms
  <2>5. CodecOf[u] = Nothing
    BY <1>1, <1>6, CodecForms
  <2>6. Agrees(CodecOf[t], CodecOf[t])
    BY CodecFaithful, SameAgrees
  <2> QED BY <2>3, <2>4, <2>5, <2>6
<1>7. CASE Table[t].parts = <<>> /\ Table[u].parts # <<>>
  <2>1. Within(t, ex) = ex
    BY <1>3, <1>7, InnerSaid
  <2>2. PICK w \in Tokens : Within(u, ey) = Said(Table[u].parts[1], w) /\ Table[u].parts[1] \in Types
    BY <1>1, <1>5, <1>7
  <2>3. Said(Table[u].parts[1], w) = Cons(">", x)
    BY <1>4, <2>1, <2>2
  <2> QED BY <2>2, <2>3, NoneSaysClose
<1>8. CASE Table[t].parts # <<>> /\ Table[u].parts = <<>>
  <2>1. Within(u, ey) = ey
    BY <1>3, <1>8, InnerSaid
  <2>2. PICK w \in Tokens : Within(t, ex) = Said(Table[t].parts[1], w) /\ Table[t].parts[1] \in Types
    BY <1>5, <1>8
  <2>3. Said(Table[t].parts[1], w) = Cons(">", y)
    BY <1>4, <2>1, <2>2
  <2> QED BY <2>2, <2>3, NoneSaysClose
<1>9. CASE Table[t].parts # <<>> /\ Table[u].parts # <<>>
  <2>1. IsTuple(t) /\ IsTuple(u)
    BY <1>1, <1>9 DEF IsTuple
  <2>2. TupleTells(t)
    BY FieldsTell
  <2> QED BY <1>4, <2>1, <2>2 DEF TupleTells
<1> QED BY <1>6, <1>7, <1>8, <1>9

LEMMA TypeTells ==
    ASSUME NEW t \in Types, PartsDo(t)
    PROVE  Tells(t)
<1> SUFFICES ASSUME NEW u \in Types, NEW x \in Tokens, NEW y \in Tokens, Said(t, x) = Said(u, y)
             PROVE  Agrees(CodecOf[t], CodecOf[u]) /\ x = y
  BY DEF Tells
<1>1. CASE Table[t].kind \in {"int", "uint", "bool"}
  BY <1>1, NumberTells
<1>2. CASE Table[t].kind \in {"byte", "string", "void"}
  BY <1>2, NameTells
<1>3. CASE Table[t].kind \in {"vector", "optional"}
  BY <1>3, CountedTells
<1>4. CASE Table[t].kind = "array"
  BY <1>4, ArrayTells
<1>5. CASE Table[t].kind = "pair"
  BY <1>5, PairTells
<1>6. CASE Table[t].kind = "variant"
  BY <1>6, VariantTells
<1>7. CASE Table[t].kind = "tuple"
  BY <1>7, TupleTypeTells
<1>8. Table[t].kind \in Kinds
  BY PartsOf
<1> QED BY <1>1, <1>2, <1>3, <1>4, <1>5, <1>6, <1>7, <1>8 DEF Kinds, Numbers, Templates

(* The text of a type tells how its values are written, whatever follows.  *)
THEOREM TextTells == \A t \in Types : Tells(t)
<1> DEFINE P == {n \in Nat : \A t \in Types : t <= n => Tells(t) /\ TupleTells(t)}
<1>1. 0 \in P
  BY PartsOf
<1>2. ASSUME NEW n \in Nat, n \in P PROVE n + 1 \in P
  <2> SUFFICES ASSUME NEW t \in Types, t <= n + 1 PROVE Tells(t) /\ TupleTells(t)
    OBVIOUS
  <2>1. ASSUME NEW i \in 1 .. Len(Table[t].parts)
        PROVE  Tells(Table[t].parts[i]) /\ TupleTells(Table[t].parts[i])
    <3>1. Table[t].parts[i] \in Types /\ Table[t].parts[i] \in Nat /\ Table[t].parts[i] < t /\ t \in Nat
      BY PartsOf
    <3>2. Table[t].parts[i] <= n
      BY <3>1
    <3> QED BY <1>2, <3>1, <3>2
  <2>2. PartsDo(t)
    BY <2>1 DEF PartsDo
  <2> QED BY <2>2, TypeTells, FieldsTell
<1>3. Len(Table) \in P
  <2> HIDE DEF P
  <2> QED BY <1>1, <1>2, SetInduction, TypesShape
<1> QED BY <1>3, TypesShape

(* Two programs whose signatures have the same text read the same out of   *)
(* the same bytes.                                                         *)
THEOREM CodecSignatureAgrees == Spec => []SignatureAgrees
<1>1. CodecInv => SignatureAgrees
  <2> SUFFICES ASSUME CodecInv, wire = sent, value \in CodecOf[type].readable,
                      NEW t \in Types, TypeString(t) = TypeString(type)
               PROVE  IF value \in CodecOf[t].readable
                      THEN Is(Deserialize(t, wire), value)
                      ELSE Deserialize(t, wire) = Undefined
    BY DEF SignatureAgrees
  <2> DEFINE c == CodecOf[type]
             d == CodecOf[t]
  <2>1. type \in Types /\ sent = c.write[value] /\ sent \in Bytes
    BY MessageFaithful
  <2>2. Agrees(c, d)
    <3>1. <<>> \in Tokens /\ Said(type, <<>>) = Said(t, <<>>)
      BY TokensJoin DEF Said
    <3> QED BY <2>1, <3>1, TextTells DEF Tells
  <2>3. wire = c.write[value] \o <<>> /\ wire \in Bytes /\ <<>> \in Bytes
    BY <2>1, Joining
  <2>4. d.read[wire] = IF value \in d.readable THEN Value(value, <<>>) ELSE Undefined
    BY <2>2, <2>3 DEF Agrees
  <2> HIDE DEF c
  <2>5. CASE value \in d.readable
    <3>1. CodecOf[t].read[wire] = Value(value, <<>>)
      BY <2>4, <2>5
    <3>2. Deserialize(t, wire) = Value(value, <<>>)
      BY <2>3, <3>1, Deserialized
    <3> QED BY <2>5, <3>2, ResultsDiffer DEF Is
  <2>6. CASE value \notin d.readable
    BY <2>3, <2>4, <2>6, Deserialized
  <2> QED BY <2>5, <2>6
<1> QED BY <1>1, CodecInvariant, PTL
=============================================================================
