---------------------------- MODULE Serialization ----------------------------
(***************************************************************************)
(* The overloads of serialize_to and deserialize_to                        *)
(* (rpc/include/rpc/serialization.hpp): for each kind of type the values   *)
(* it has, the bytes a value is written as, and what reading a sequence of *)
(* bytes gives.  The overloads for templates call those of the parameters, *)
(* so here they are operators from the codecs of the parameters to a codec.*)
(*                                                                         *)
(* A number is itself, a string the sequence of its bytes, a vector or an  *)
(* array the sequence of its elements, an optional <<>> or <<x>>, a pair   *)
(* <<x, y>>, a variant <<index, x>>.  A byte is a digit of Base, and       *)
(* lengths take LengthWidth bytes (256 and 8 in the code).                 *)
(***************************************************************************)
EXTENDS Integers, Sequences, SequencesExt

CONSTANTS
    Base,           \* number of values of a byte
    LengthWidth     \* bytes of the length of a string or vector

ASSUME SerializationAssumption ==
    Base \in Nat \ {0, 1} /\ LengthWidth \in Nat \ {0}

Byte  == 0 .. Base - 1
Bytes == Seq(Byte)

(* The number of values of an unsigned integer of so many bytes. *)
Radix[width \in Nat] == IF width = 0 THEN 1 ELSE Base * Radix[width - 1]

(***************************************************************************)
(* The result of reading: a value and the bytes after it, an exception, or *)
(* nothing that C++ defines.                                               *)
(***************************************************************************)
Value(v, rest) == [status |-> "value", value |-> v, rest |-> rest]
Throws         == [status |-> "throws"]
Undefined      == [status |-> "undefined"]

(* One reading after another, up to the first that fails. *)
Then(result, Continue(_, _)) ==
    IF result.status = "value" THEN Continue(result.value, result.rest) ELSE result

(* What the overloads for a type do.  The values in readable are those     *)
(* that the code can read back at all.                                     *)
Overloads(values, readable, Write(_), Read(_)) ==
    [values   |-> values,
     readable |-> readable,
     write    |-> [v \in values |-> Write(v)],
     read     |-> [bytes \in Bytes |-> Read(bytes)]]

(***************************************************************************)
(* Integers, std::byte and bool                                            *)
(***************************************************************************)

(* The bytes of n, the most significant first. *)
Digits(n, width) == [i \in 1 .. width |-> (n \div Radix[width - i]) % Base]

(* Fault: the bytes are not reversed. *)
LittleEndian(bytes) ==
    LET number[i \in 0 .. Len(bytes)] ==
            IF i = 0 THEN 0 ELSE number[i - 1] + Radix[i - 1] * bytes[i]
    IN  number[Len(bytes)]

BigEndian(bytes) ==
    LET number[i \in 0 .. Len(bytes)] ==
            IF i = 0 THEN 0 ELSE Base * number[i - 1] + bytes[i]
    IN  number[Len(bytes)]

ReadUnsigned(width, bytes) ==
    IF Len(bytes) < width
    THEN Throws
    ELSE Value(BigEndian(SubSeq(bytes, 1, width)), SubSeq(bytes, width + 1, Len(bytes)))

Unsigned(width) ==
    LET All == 0 .. Radix[width] - 1
    IN  Overloads(All, All, LAMBDA n : Digits(n, width), LAMBDA b : ReadUnsigned(width, b))

(* Two's complement. *)
Wrap(n, width) == IF 2 * n < Radix[width] THEN n ELSE n - Radix[width]

Signed(width) ==
    LET All == -(Radix[width] \div 2) .. (Radix[width] - 1) \div 2
    IN  Overloads(All, All,
              LAMBDA n : Digits(n % Radix[width], width),
              LAMBDA b : Then(ReadUnsigned(width, b),
                              LAMBDA n, rest : Value(Wrap(n, width), rest)))

(* Fault, or one of the things a build may do: all but 0 is true. *)
AnyTrue(bytes) ==
    Then(ReadUnsigned(1, bytes), LAMBDA n, rest : Value(IF n = 0 THEN 0 ELSE 1, rest))

(* The byte is copied into a bool; a bool that is neither is undefined.    *)
ReadBool(bytes) ==
    Then(ReadUnsigned(1, bytes), LAMBDA n, rest :
        IF n \in {0, 1} THEN Value(n, rest) ELSE Undefined)

Bool == Overloads({0, 1}, {0, 1}, LAMBDA n : Digits(n, 1), ReadBool)

(***************************************************************************)
(* Strings, vectors, arrays and optionals                                  *)
(***************************************************************************)
ReadString(bytes) ==
    Then(ReadUnsigned(LengthWidth, bytes), LAMBDA n, rest :
        IF n > Len(rest)
        THEN Throws
        ELSE Value(SubSeq(rest, 1, n), SubSeq(rest, n + 1, Len(rest))))

String ==
    LET All == {v \in Bytes : Len(v) < Radix[LengthWidth]}
    IN  Overloads(All, All, LAMBDA v : Digits(Len(v), LengthWidth) \o v, ReadString)

(* The elements one after the other. *)
Elements(part, v) == FlattenSeq([i \in 1 .. Len(v) |-> part.write[v[i]]])

ReadElements(part, n, bytes) ==
    LET read[i \in 0 .. n] ==
            IF i = 0
            THEN Value(<<>>, bytes)
            ELSE Then(read[i - 1], LAMBDA before, rest :
                     Then(part.read[rest], LAMBDA last, left :
                         Value(Append(before, last), left)))
    IN  read[n]

UpTo(n, values) == {v \in Seq(values) : Len(v) <= n}

Vector(part) ==
    LET Most == Radix[LengthWidth] - 1
    IN  Overloads(UpTo(Most, part.values), UpTo(Most, part.readable),
              LAMBDA v : Digits(Len(v), LengthWidth) \o Elements(part, v),
              LAMBDA b : Then(ReadUnsigned(LengthWidth, b),
                              LAMBDA n, rest : ReadElements(part, n, rest)))

Array(part, n) ==
    Overloads([1 .. n -> part.values], [1 .. n -> part.readable],
          LAMBDA v : Elements(part, v),
          LAMBDA b : ReadElements(part, n, b))

Optional(part) ==
    Overloads(UpTo(1, part.values), UpTo(1, part.readable),
          LAMBDA v : Digits(Len(v), 1) \o Elements(part, v),
          LAMBDA b : Then(ReadBool(b), LAMBDA has, rest : ReadElements(part, has, rest)))

(***************************************************************************)
(* Pairs, tuples and structs, field by field: a tuple is nothing, or its   *)
(* first element and the tuple of the others.  Variants.                   *)
(***************************************************************************)
Nothing == Overloads({<<>>}, {<<>>}, LAMBDA v : <<>>, LAMBDA b : Value(<<>>, b))

Pair(first, second) ==
    Overloads(first.values \X second.values, first.readable \X second.readable,
          LAMBDA v : first.write[v[1]] \o second.write[v[2]],
          LAMBDA b : Then(first.read[b], LAMBDA x, rest :
                         Then(second.read[rest], LAMBDA y, left : Value(<<x, y>>, left))))

(* The values of the first n alternatives. *)
Alternatives(parts) ==
    LET upTo[n \in 0 .. Len(parts)] ==
            IF n = 0 THEN {} ELSE upTo[n - 1] \cup ({n - 1} \X parts[n].values)
    IN  upTo[Len(parts)]

(* A variant is read into a fresh object, which holds its first            *)
(* alternative: std::get of any other one throws.                          *)
Variant(parts) ==
    Overloads(Alternatives(parts), {0} \X parts[1].readable,
          LAMBDA v : Digits(v[1], 1) \o parts[v[1] + 1].write[v[2]],
          LAMBDA b : Then(ReadUnsigned(1, b), LAMBDA index, rest :
                         IF index = 0
                         THEN Then(parts[1].read[rest], LAMBDA x, left : Value(<<0, x>>, left))
                         ELSE Throws))

(***************************************************************************)
(* deserialize(): what is left over is refused.                            *)
(***************************************************************************)

(* Fault: what is left over is ignored. *)
JunkIgnored(result) == result

NoJunk(result) == Then(result, LAMBDA v, rest : IF rest = <<>> THEN result ELSE Throws)
=============================================================================
