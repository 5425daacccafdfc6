------------------------------- MODULE Codec --------------------------------
(***************************************************************************)
(* rpc::serialize, rpc::deserialize and rpc::stringify_type                *)
(* (rpc/include/rpc/serialization.hpp): what was written as a type is read *)
(* back, as it was or changed on its way, and the text of a type, which    *)
(* the handshake compares.                                                 *)
(*                                                                         *)
(* Table lists the types, [kind, size, parts], where parts are the places  *)
(* of the types that a type is made of: those declared before it.          *)
(***************************************************************************)
EXTENDS Serialization

CONSTANTS
    Table,
    Messages,       \* the types that are sent as they are
    Frames,         \* those of them whose first field is their own size
    Values(_),      \* values of each of them
    MaxChanges      \* bound on the changes made to the bytes

Types == DOMAIN Table

Numbers   == {"int", "uint"}
Templates == {"vector", "array", "optional", "variant", "pair", "tuple"}

(* Sizes of integers and arrays are positive, templates and nothing else   *)
(* have parameters, and the alternatives of a variant can be told apart by *)
(* one byte.                                                               *)
WellFormed(type) ==
    /\ type.kind \in Numbers \cup {"byte", "bool", "string", "void"} \cup Templates
    /\ type.kind \in Numbers \cup {"array"} => type.size \in Nat \ {0}
    /\ type.kind \notin Templates => type.parts = <<>>
    /\ type.kind \in {"vector", "array", "optional"} => Len(type.parts) = 1
    /\ type.kind = "variant" => Len(type.parts) \in 1 .. Base
    /\ type.kind = "pair" => Len(type.parts) = 2
    /\ type.kind = "tuple" =>
          \/ type.parts = <<>>
          \/ /\ Len(type.parts) = 2
             /\ Table[type.parts[2]].kind = "tuple"

ASSUME TableAssumption ==
    /\ Table \in Seq([kind : STRING, size : Nat, parts : Seq(Nat)])
    /\ \A t \in Types : /\ WellFormed(Table[t])
                        /\ \A i \in DOMAIN Table[t].parts : Table[t].parts[i] \in 1 .. t - 1

(* Which overloads the compiler takes for a type, given those for its      *)
(* parameters.                                                             *)
OverloadsFor(type, parts) ==
    CASE type.kind = "int"            -> Signed(type.size)
      [] type.kind = "uint"           -> Unsigned(type.size)
      [] type.kind = "byte"           -> Unsigned(1)
      [] type.kind = "bool"           -> Bool
      [] type.kind = "string"         -> String
      [] type.kind = "vector"         -> Vector(parts[1])
      [] type.kind = "array"          -> Array(parts[1], type.size)
      [] type.kind = "optional"       -> Optional(parts[1])
      [] type.kind = "variant"        -> Variant(parts)
      [] type.kind \in {"void", "tuple"} /\ parts = <<>> -> Nothing
      [] OTHER                        -> Pair(parts[1], parts[2])

CodecOf[t \in Types] ==
    OverloadsFor(Table[t], [i \in DOMAIN Table[t].parts |-> CodecOf[Table[t].parts[i]]])

(***************************************************************************)
(* What is written, and what is read                                       *)
(***************************************************************************)
Serialize(t, v) == CodecOf[t].write[v]

Deserialize(t, bytes) == NoJunk(CodecOf[t].read[bytes])

SizeWidth(t) == Table[Table[t].parts[1]].size

(* Fault: the size field is not counted. *)
SizeOfRest(t, v) ==
    [v EXCEPT ![1] = Len(Serialize(t, [v EXCEPT ![1] = 0])) - SizeWidth(t)]

(* A frame is serialized once to learn its size and again to be written.   *)
Sized(t, v) ==
    [v EXCEPT ![1] = Len(Serialize(t, [v EXCEPT ![1] = 0])) % Radix[SizeWidth(t)]]

(* A frame is a struct whose first field is an unsigned number.            *)
ASSUME MessagesAssumption ==
    /\ Messages \subseteq Types /\ Frames \subseteq Messages
    /\ \A t \in Frames : /\ Table[t].kind = "tuple" /\ Table[t].parts # <<>>
                         /\ Table[Table[t].parts[1]].kind = "uint"
    /\ \A t \in Messages : \A v \in Values(t) : v \in CodecOf[t].values
    /\ MaxChanges \in Nat

(***************************************************************************)
(* The text of a type, as a sequence of tokens                             *)
(***************************************************************************)

(* Fault: what the elements of a pair or tuple are is left out. *)
KindOnly(type, inner) == <<type.kind>>

(* bool is an unsigned integral type of one byte, and its text is that of  *)
(* the others; the length is part of the text of an array.                 *)
(*                                                                         *)
(* The code keeps texts in static members of templates, made of one        *)
(* another, and C++ does not order their initialization: that each text is *)
(* there when another one is made of it is an assumption, as is that none  *)
(* is asked for before main().                                             *)
TypeText(type, inner) ==
    CASE type.kind = "bool"            -> <<"uint", 1>>
      [] type.kind \in {"int", "uint"} -> <<type.kind, type.size>>
      [] type.kind \in {"byte", "string", "void"} -> <<type.kind>>
      [] OTHER -> <<type.kind, "<">> \o inner
                  \o (IF type.kind = "array" THEN <<",", type.size>> ELSE <<>>) \o <<">">>

(* What stands between the brackets: the texts of the parameters, which of *)
(* a tuple are the first and those of the tuple of the others.             *)
Inner[t \in Types] ==
    LET parts   == Table[t].parts
        Text(i) == TypeText(Table[parts[i]], Inner[parts[i]])
    IN  IF Table[t].kind = "tuple" /\ parts # <<>>
        THEN Text(1) \o (IF Table[parts[2]].parts = <<>> THEN <<>> ELSE <<",">> \o Inner[parts[2]])
        ELSE FlattenSeq([i \in DOMAIN parts |-> (IF i = 1 THEN <<>> ELSE <<",">>) \o Text(i)])

TypeString(t) == TypeText(Table[t], Inner[t])

VARIABLES
    type, value,    \* what was serialized
    sent,           \* the bytes it became
    wire,           \* the bytes that are read back
    changes

vars == <<type, value, sent, wire, changes>>

(***************************************************************************)
(* A value is written, and the bytes are read as they are or with some of  *)
(* them lost, added or replaced.                                           *)
(***************************************************************************)
Init ==
    /\ type \in Messages
    /\ \E v \in Values(type) : value = IF type \in Frames THEN Sized(type, v) ELSE v
    /\ sent = Serialize(type, value)
    /\ wire = sent
    /\ changes = 0

Change(bytes) == /\ changes < MaxChanges
                 /\ changes' = changes + 1
                 /\ wire' = bytes
                 /\ UNCHANGED <<type, value, sent>>

Cut == wire # <<>> /\ Change(Front(wire))

Extend(b) == Change(Append(wire, b))

Garble(i, b) == wire[i] # b /\ Change([wire EXCEPT ![i] = b])

Next == Cut \/ \E b \in Byte : Extend(b) \/ \E i \in DOMAIN wire : Garble(i, b)

Spec == Init /\ [][Next]_vars

(***************************************************************************)
(* Properties                                                              *)
(***************************************************************************)
Is(result, v) == result.status = "value" /\ result.value = v

(* What was serialized is deserialized again, except that a variant which  *)
(* does not hold its first alternative is never read back.                 *)
RoundTrip ==
    wire = sent => IF value \in CodecOf[type].readable
                   THEN Is(Deserialize(type, wire), value)
                   ELSE Deserialize(type, wire) = Throws

(* Bytes that are accepted are the very bytes serialize() makes of the     *)
(* value they are read as: no two messages mean the same.                  *)
Canonical ==
    LET result == Deserialize(type, wire)
    IN  result.status = "value" => Serialize(type, result.value) = wire

(* A message that lost its last bytes, or has bytes left over, is refused. *)
SelfDelimiting ==
    wire # sent /\ (IsPrefix(wire, sent) \/ IsPrefix(sent, wire))
        => Deserialize(type, wire) = Throws

(* A frame that a size field can describe starts with its own length, as   *)
(* on_data() reads it from the first bytes.                                *)
FrameSpellsLength ==
    type \in Frames /\ Len(sent) < Radix[SizeWidth(type)]
        => Is(ReadUnsigned(SizeWidth(type), sent), Len(sent))

(* Two programs whose signatures have the same text read the same value    *)
(* out of the same bytes, unless the reader's type does not have it: what  *)
(* a number other than 0 and 1 gives as a bool is undefined.               *)
SignatureAgrees ==
    wire = sent /\ value \in CodecOf[type].readable
        => \A t \in Types : TypeString(t) = TypeString(type)
              => IF value \in CodecOf[t].readable
                 THEN Is(Deserialize(t, wire), value)
                 ELSE Deserialize(t, wire) = Undefined
=============================================================================
