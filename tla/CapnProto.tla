----------------------------- MODULE CapnProto -----------------------------
(***************************************************************************)
(* internal/codec/capnproto.go with a schema, for structs of numbers,      *)
(* texts and bytes.  A segment is a sequence of words: the root pointer    *)
(* with the sizes of the two sections, numbers, list pointers, and eight   *)
(* bytes of content at a time.  Nested structs and other lists are written *)
(* but not read back as such, and are left out.                            *)
(***************************************************************************)
EXTENDS Protobuf

Root(data, ptrs) == [kind |-> "root", data |-> data, ptrs |-> ptrs]
NumberWord(x) == [kind |-> "number", x |-> x]
ListPtr(off, count) == [kind |-> "list", off |-> off, count |-> count]

(* capnpIsPointer *)
IsPointer(t) == t \in {"String", "Bytes", "Array", "Map"}

(* encodeCapnpDataField: one word for every number, 32 bits in its half. *)
DataField(x) ==
    CASE x.t = "Boolean" -> IF x.go = "bool" THEN x.n ELSE 0
      [] x.t \in {"Float32", "Float64"} -> x.n
      [] x.t \in {"Int32", "UInt32", "SInt32", "Fixed32", "SFixed32"} ->
             Low(AsInt64(x), HalfBits)
      [] OTHER -> Low(AsInt64(x), VarBits)

(* encodeCapnpPointerPayload, padded to words; a text ends with a zero. *)
ListBytes(x) == IF x.t = "String" THEN Append(x.s, 0) ELSE x.s
ContentWords(b) ==
    LET size == (Len(b) + 7) \div 8
        at(i) == IF i \in DOMAIN b THEN b[i] ELSE 0
    IN  [w \in 1 .. size |-> [kind |-> "content",
                              bytes |-> [i \in 1 .. 8 |-> at(8 * (w - 1) + i)]]]

(* encodeCapnpStruct: the schema's fields, a missing one without a value.  *)
(* The type of the value decides which section it goes to.                 *)
EncodeStruct(x, fields) ==
    LET child(k) == SelectSeq(x.ch, LAMBDA c : c.key = k)
        all == [i \in DOMAIN fields |->
                   IF child(fields[i].key) # <<>> THEN Last(child(fields[i].key))
                   ELSE [NullTree(fields[i].key) EXCEPT !.t = fields[i].t]]
        data == SelectSeq(all, LAMBDA c : ~IsPointer(c.t))
        ptrs == SelectSeq(all, LAMBDA c : IsPointer(c.t))
        content(i) == ContentWords(ListBytes(ptrs[i]))
        joined(l) == FoldLeft(LAMBDA acc, i : acc \o content(i), <<>>, [i \in 1 .. l |-> i])
    IN  <<Root(Len(data), Len(ptrs))>>
        \o [i \in DOMAIN data |-> NumberWord(DataField(data[i]))]
        \o [i \in DOMAIN ptrs |-> ListPtr(Len(ptrs) - i + Len(joined(i - 1)),
                                          Len(ListBytes(ptrs[i])))]
        \o joined(Len(ptrs))

(* GenerateCapnProto: the header has the size of the segment. *)
GenerateCapnProto(x, fields) ==
    LET seg == EncodeStruct(x, fields) IN [words |-> Len(seg), seg |-> seg]

----------------------------------------------------------------------------
(* decodeCapnpData: most integers come back as an int64. *)
DecodeData(f, u) ==
    CASE f.t = "Boolean" -> BoolTree(f.key, u % 2)
      [] f.t = "Float64" -> NumberTree(f.key, "Float64", "float64", u)
      [] f.t = "Float32" -> NumberTree(f.key, "Float32", "float32", Low(u, HalfBits))
      [] f.t = "Int32" -> NumberTree(f.key, "Int32", "int32", Int32Of(u))
      [] OTHER -> NumberTree(f.key, "Int64", "int64", LowSigned(u, VarBits))

(* decodeCapnpPointer at place p of a segment: the bytes there are, up to  *)
(* the end of the segment.                                                 *)
DecodePointer(f, seg, p) ==
    LET target == p + 1 + seg[p].off
        bytes == FoldLeft(LAMBDA acc, w : acc \o w.bytes, <<>>,
                          SubSeq(seg, target, Len(seg)))
        raw == SubSeq(bytes, 1, IF seg[p].count < Len(bytes) THEN seg[p].count ELSE Len(bytes))
    IN  IF f.t = "Bytes" THEN BytesTree(f.key, raw)
        ELSE TextTree(f.key, IF raw = <<>> THEN raw
                             ELSE IF Last(raw) = 0 THEN Front(raw) ELSE raw)

(* decodeCapnpStruct with splitCapnpFields: the fields of the schema are   *)
(* dealt out to the sections by their types.                               *)
DecodeStruct(seg, fields) ==
    LET data == SelectSeq(fields, LAMBDA f : ~IsPointer(f.t))
        ptrs == SelectSeq(fields, LAMBDA f : IsPointer(f.t))
        ptrSec == 1 + seg[1].data
    IN  Container(<<>>, "Map",
                  [i \in DOMAIN data |-> DecodeData(data[i], seg[1 + i].x)]
                  \o [i \in DOMAIN ptrs |-> DecodePointer(ptrs[i], seg, ptrSec + i)])

ParseCapnProto(message, fields) ==
    IF message.seg = <<>> \/ Len(message.seg) < message.words THEN Refused
    ELSE Read(DecodeStruct(message.seg, fields), <<>>)
=============================================================================
