------------------------------ MODULE Varints ------------------------------
(***************************************************************************)
(* The numbers of internal/codec/protobuf.go and avro.go: varints, whose   *)
(* bytes carry Group bits each instead of 7, and fixed-size numbers.  A    *)
(* field is [key, type, number, ch], where type is the proto type.         *)
(***************************************************************************)
EXTENDS Bytes

CONSTANT Group

VarBits == 8 * ByteBits     \* 64
HalfBits == 4 * ByteBits    \* 32

ASSUME VarintAssumption == Group \in Nat \ {0} /\ Group < VarBits

More == Pow2[Group]                         \* the continuation bit (0x80)
LastIndex == (VarBits - 1) \div Group       \* 9
LastLimit == Pow2[VarBits - Group * LastIndex] - 1  \* 1

(* asInt64 of a number in two's complement, 0 of anything else but floats, *)
(* which no integer field has.                                             *)
AsInt64(x) == IF x.go \in SignedGo \cup UnsignedGo THEN LowSigned(x.n, VarBits) ELSE 0

(* encodeVarint: as many groups as the number needs. *)
Places(x) == CHOOSE i \in 1 .. LastIndex + 1 :
                 /\ x < Pow2[Group * i]
                 /\ \A j \in 1 .. i - 1 : x >= Pow2[Group * j]

EncodeVarint(x) ==
    [i \in 1 .. Places(x) |-> Digit(x, Group, i) + IF i < Places(x) THEN More ELSE 0]

(* A varint's value and length, or an error. *)
Varint(x, l) == [ok |-> TRUE, x |-> x, len |-> l]
NoVarint == [ok |-> FALSE, x |-> 0, len |-> 0]

(* The number that the groups of a varint denote, whatever its size. *)
Denoted(d) == Number([i \in DOMAIN d |-> d[i] % More], Group)

(* The place of the first byte without the continuation bit. *)
Ends(d) == {i \in DOMAIN d : d[i] < More}
End(d) == CHOOSE i \in Ends(d) : \A j \in Ends(d) : i <= j
Value64(d) == Low(Denoted(SubSeq(d, 1, End(d))), VarBits)

(* The defect: a last byte with more bits than fit is accepted. *)
DecodeVarintLast(d) ==
    IF Ends(d) = {} THEN NoVarint
    ELSE IF End(d) > LastIndex + 1 THEN NoVarint
    ELSE Varint(Value64(d), End(d))

(* decodeVarint: shifts beyond the width lose bits, which the check of the *)
(* last byte rules out.                                                    *)
DecodeVarint(d) ==
    IF Ends(d) = {} THEN NoVarint
    ELSE IF End(d) > LastIndex + 1 \/ (End(d) = LastIndex + 1 /\ d[End(d)] > LastLimit)
         THEN NoVarint
    ELSE Varint(Value64(d), End(d))

(* (signed << 1) ^ (signed >> 63): even for numbers, odd for negatives. *)
Zigzag(x) == IF x >= 0 THEN 2 * x ELSE -2 * x - 1

Unzigzag(u) == IF u % 2 = 0 THEN u \div 2 ELSE -((u + 1) \div 2)

(* Avro's writeAvroLong, and readAvroLong: a last byte beyond the width    *)
(* loses its high bits.                                                    *)
WriteLong(x) == EncodeVarint(Zigzag(x))
ReadLong(d) ==
    IF Ends(d) = {} THEN NoVarint
    ELSE IF End(d) > LastIndex + 2 THEN NoVarint
    ELSE Varint(Unzigzag(Value64(d)), End(d))

(* binary.LittleEndian: 4 or 8 bytes of a number. *)
Fixed(x, bytes) == Digits(x, ByteBits, bytes)
FixedValue(d, bytes) == Number(SubSeq(d, 1, bytes), ByteBits)

----------------------------------------------------------------------------
(* encodeProtoField of numbers: the wire type in the tag, then the value. *)
FixedTypes32 == {"fixed32", "sfixed32", "float"}
FixedTypes64 == {"fixed64", "sfixed64", "double"}
Lengthy == {"string", "bytes", "message"}

WireType(type) == CASE type \in FixedTypes64 -> 1 [] type \in Lengthy -> 2
                    [] type \in FixedTypes32 -> 5 [] OTHER -> 0

Tag(f) == EncodeVarint(8 * f.number + WireType(f.type))

EncodeNumber(type, x) ==
    CASE type \in {"sint32", "sint64"} -> EncodeVarint(Zigzag(x))
      [] type \in FixedTypes32 -> Fixed(x, 4)
      [] type \in FixedTypes64 -> Fixed(x, 8)
      [] OTHER -> EncodeVarint(Low(x, VarBits))

(* The defect: the sign of a 32-bit number is lost. *)
Int32OfUnsigned(u) == Low(u, HalfBits)

(* int32(u) *)
Int32Of(u) == LowSigned(u, HalfBits)

(* The name of an enum's number, or the number. *)
EnumValue(f, x) ==
    LET named == SelectSeq(f.ch, LAMBDA v : v.number = x)
    IN  IF named = <<>> THEN NumberTree(f.key, "Enum", "int32", x)
        ELSE Tree(f.key, "Enum", "string", 0, named[1].key, <<>>)

(* decodeVarintField, decodeFixed64Field and decodeFixed32Field *)
DecodeVarintField(f, u) ==
    CASE f.type = "bool" -> BoolTree(f.key, IF u # 0 THEN 1 ELSE 0)
      [] f.type = "sint32" -> NumberTree(f.key, "SInt32", "int32", Int32Of(Unzigzag(u)))
      [] f.type = "sint64" -> NumberTree(f.key, "SInt64", "int64", Unzigzag(u))
      [] f.type = "uint32" -> NumberTree(f.key, "UInt32", "uint32", Low(u, HalfBits))
      [] f.type = "uint64" -> NumberTree(f.key, "UInt64", "uint64", u)
      [] f.type = "int32" -> NumberTree(f.key, "Int32", "int32", Int32Of(u))
      [] f.type = "enum" -> EnumValue(f, Int32Of(u))
      [] OTHER -> NumberTree(f.key, "Int64", "int64", LowSigned(u, VarBits))

DecodeFixed64Field(f, u) ==
    CASE f.type = "fixed64" -> NumberTree(f.key, "Fixed64", "uint64", u)
      [] f.type = "sfixed64" -> NumberTree(f.key, "SFixed64", "int64", LowSigned(u, VarBits))
      [] OTHER -> NumberTree(f.key, "Float64", "float64", u)

DecodeFixed32Field(f, u) ==
    CASE f.type = "float" -> NumberTree(f.key, "Float32", "float32", u)
      [] f.type = "sfixed32" -> NumberTree(f.key, "SFixed32", "int32", Int32Of(u))
      [] OTHER -> NumberTree(f.key, "Fixed32", "uint32", u)

(* parseProtobufMessage: a number of the wire type that its tag names. *)
ReadNumberField(f, wire, d) ==
    LET u == DecodeVarint(d)
    IN  CASE wire = 0 /\ u.ok -> Read(DecodeVarintField(f, u.x), Drop(d, u.len))
          [] wire = 1 /\ Len(d) >= 8 ->
                 Read(DecodeFixed64Field(f, FixedValue(d, 8)), Drop(d, 8))
          [] wire = 5 /\ Len(d) >= 4 ->
                 Read(DecodeFixed32Field(f, FixedValue(d, 4)), Drop(d, 4))
          [] OTHER -> Refused
=============================================================================
