------------------------------ MODULE MCCodec -------------------------------
(* Codec with bytes of four values, on the frames of rpc/common.hpp and    *)
(* the types of methods that the programs of the repository have.          *)
EXTENDS Codec

Simple(kind, size) == [kind |-> kind, size |-> size, parts |-> <<>>]
Of(kind, parts)    == [kind |-> kind, size |-> 0, parts |-> parts]

(* The places of the types in the table. *)
Size4   == 1
Int1    == 2
UInt1   == 3
AByte   == 4
ABool   == 5
Text    == 6
BytesOf == 7
Magic   == 8
Empty   == 10

MCTable ==
  <<Simple("uint", 2), Simple("int", 1), Simple("uint", 1), Simple("byte", 0),
    Simple("bool", 1), Simple("string", 0), Of("vector", <<AByte>>),
    [kind |-> "array", size |-> 2, parts |-> <<UInt1>>],
    Simple("void", 0), Of("tuple", <<>>),
    \* 11 .. 14: rpc_message, from its last field to its first
    Of("tuple", <<BytesOf, Empty>>), Of("tuple", <<UInt1, 11>>),
    Of("tuple", <<Int1, 12>>), Of("tuple", <<Size4, 13>>),
    \* 15 .. 19: server_hello
    Of("vector", <<Int1>>), Of("tuple", <<15, Empty>>), Of("tuple", <<Text, 16>>),
    Of("tuple", <<Magic, 17>>), Of("tuple", <<Size4, 18>>),
    \* 20 .. 23: client_hello
    Of("pair", <<Text, Text>>), Of("vector", <<20>>), Of("tuple", <<21, Empty>>),
    Of("tuple", <<Size4, 22>>),
    \* 24 .. 28: a number, optionals, arguments of a method
    Simple("int", 2), Of("optional", <<BytesOf>>), Of("optional", <<ABool>>),
    Of("optional", <<UInt1>>), Of("tuple", <<ABool, 11>>),
    \* 29 .. 36: nested pairs, variants, a pair whose text is that of 29
    Of("pair", <<UInt1, ABool>>), Of("pair", <<Int1, 29>>),
    Of("pair", <<Int1, UInt1>>), Of("pair", <<31, UInt1>>),
    Of("variant", <<Text, AByte, ABool>>), Of("variant", <<UInt1, BytesOf>>),
    Of("vector", <<34>>), Of("pair", <<ABool, UInt1>>)>>

MCFrames   == {14, 19, 23}
MCMessages == MCFrames \cup {ABool, UInt1, Text, Magic, 9, 12, 24, 25, 26, 27, 28,
                             29, 30, 32, 33, 35}

(* Every value of a type, with up to k elements in a string or vector.     *)
RECURSIVE ValuesUpTo(_, _)
ValuesUpTo(k, t) ==
    LET kind    == Table[t].kind
        size    == Table[t].size
        Part(i) == ValuesUpTo(k, Table[t].parts[i])
    IN CASE t = Size4         -> {0}
         [] kind \in {"int", "uint", "byte", "bool"} -> CodecOf[t].values
         [] kind = "array"    -> [1 .. size -> Part(1)]
         [] kind = "string"   -> UNION {[1 .. n -> Byte] : n \in 0 .. k}
         [] kind = "vector"   -> UNION {[1 .. n -> Part(1)] : n \in 0 .. k}
         [] kind = "optional" -> UNION {[1 .. n -> Part(1)] : n \in {0, 1}}
         [] kind = "variant"  -> UNION {{i - 1} \X Part(i) : i \in DOMAIN Table[t].parts}
         [] Table[t].parts = <<>> -> {<<>>}
         [] OTHER             -> Part(1) \X Part(2)

MCValues(t) == ValuesUpTo(IF t \in MCFrames THEN 1 ELSE 2, t)
=============================================================================
