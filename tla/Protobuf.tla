------------------------------ MODULE Protobuf ------------------------------
(***************************************************************************)
(* internal/codec/protobuf.go with a message's schema: fields [key, type,  *)
(* number, ch], where type is the proto type and ch the fields of a nested *)
(* message or the values of an enum.  Numbers are those of Varints.        *)
(***************************************************************************)
EXTENDS Varints, SequencesExt

AppendLen(tag, payload) ==
    EncodeVarint(8 * tag + 2) \o EncodeVarint(Len(payload)) \o payload

(* inferProtoType, for a node without an annotation. *)
InferProtoType(x) ==
    CASE x.t = "Int32" -> "int32"       [] x.t = "Int64" -> "int64"
      [] x.t = "UInt32" -> "uint32"     [] x.t = "UInt64" -> "uint64"
      [] x.t = "SInt32" -> "sint32"     [] x.t = "SInt64" -> "sint64"
      [] x.t = "Fixed32" -> "fixed32"   [] x.t = "Fixed64" -> "fixed64"
      [] x.t = "SFixed32" -> "sfixed32" [] x.t = "SFixed64" -> "sfixed64"
      [] x.t = "Float32" -> "float"     [] x.t = "Float64" -> "double"
      [] x.t = "Boolean" -> "bool"      [] x.t = "Bytes" -> "bytes"
      [] x.t = "Map" -> "message"       [] x.t = "Enum" -> "enum"
      [] OTHER -> "string"

(* The fields of a message that is encoded without a schema: its own       *)
(* children, with the annotations that a projection copied from fields,    *)
(* else numbered by their place.                                           *)
OwnFields(x, fields) ==
    [i \in DOMAIN x.ch |->
        LET annotated == SelectSeq(fields, LAMBDA f : f.key = x.ch[i].key)
        IN  IF annotated # <<>> THEN Last(annotated)
            ELSE [key |-> x.ch[i].key, type |-> InferProtoType(x.ch[i]), number |-> i,
                  ch |-> <<>>]]

RECURSIVE EncodeMessage(_, _), EncodeField(_, _)

(* encodeProtoField of a value that has its field's type.  The elements of *)
(* an array are fields of the same number, without annotations.            *)
EncodeField(f, x) ==
    IF x.t = "Array"
    THEN FoldLeft(LAMBDA acc, e :
                     acc \o EncodeField([f EXCEPT !.type = InferProtoType(e)], e),
                  <<>>, x.ch)
    ELSE CASE f.type \in {"string", "bytes"} -> AppendLen(f.number, x.s)
           [] f.type = "message" ->
                  AppendLen(f.number, EncodeMessage(x, OwnFields(x, f.ch)))
           [] OTHER -> Tag(f) \o EncodeNumber(f.type, x.n)    \* an enum's name is 0

(* encodeProtoMessage: the given fields in their order, by name or number. *)
(* Null and missing ones are left out.                                     *)
EncodeMessage(x, fields) ==
    LET child(k) == SelectSeq(x.ch, LAMBDA c : c.key = k)
        found(f) == IF child(f.key) # <<>> THEN child(f.key) ELSE child(<<f.number>>)
        one(f) == IF found(f) = <<>> THEN <<>>
                  ELSE IF Last(found(f)).t = "Null" THEN <<>>
                  ELSE EncodeField(f, Last(found(f)))
    IN  FoldLeft(LAMBDA acc, f : acc \o one(f), <<>>, fields)

----------------------------------------------------------------------------
(* A field number the schema lacks: named by its number, without a type. *)
Unknown(number) == [key |-> <<number>>, type |-> "unknown", number |-> number, ch |-> <<>>]

(* utf8.Valid: the largest byte occurs in no text. *)
ValidText(b) == \A i \in DOMAIN b : b[i] < 2 * More - 1

(* A length above the largest int becomes negative, passes the check of    *)
(* the bytes left and breaks the slice: the handler panics.                *)
Panicked == [Refused EXCEPT !.node = NullTree(<<2 * More>>)]

RECURSIVE ParseMessage(_, _, _)

(* decodeLenField: without a type that says what it is, a chunk is taken   *)
(* for a message if it reads as one, else for a text or bytes.             *)
DecodeLenField(f, chunk) ==
    LET guess == ParseMessage(chunk, Container(f.key, "Map", <<>>), <<>>)
    IN  CASE f.type = "string" -> Read(TextTree(f.key, chunk), <<>>)
          [] f.type = "bytes" -> Read(BytesTree(f.key, chunk), <<>>)
          [] f.type = "message" -> ParseMessage(chunk, Container(f.key, "Map", <<>>), f.ch)
          [] OTHER -> IF guess = Panicked \/ (guess.ok /\ guess.node.ch # <<>>) THEN guess
                      ELSE IF ValidText(chunk) THEN Read(TextTree(f.key, chunk), <<>>)
                      ELSE Read(BytesTree(f.key, chunk), <<>>)

(* parseProtobufMessage: one field at a time, in the order of the bytes. *)
ParseMessage(d, parent, fields) ==
    LET head == DecodeVarint(d)
        rest == Drop(d, head.len)
        known == SelectSeq(fields, LAMBDA x : x.number = head.x \div 8)
        f == IF known = <<>> THEN Unknown(head.x \div 8) ELSE Last(known)
        u == DecodeVarint(rest)
        after == Drop(rest, u.len)
        add(x, left) == ParseMessage(left, [parent EXCEPT !.ch = Append(@, x)], fields)
        chunk == DecodeLenField(f, SubSeq(after, 1, u.x))
        wire == head.x % 8
        one == ReadNumberField(f, wire, rest)
    IN  IF d = <<>> THEN Read(parent, <<>>)
        ELSE IF ~head.ok \/ wire \notin {0, 1, 2, 5} THEN Refused
        ELSE IF wire # 2 THEN (IF one.ok THEN add(one.node, one.rest) ELSE Refused)
        ELSE IF ~u.ok THEN Refused
        ELSE IF Len(after) < LowSigned(u.x, VarBits) THEN Refused
        ELSE IF Len(after) < u.x THEN Panicked
        ELSE IF ~chunk.ok THEN chunk
        ELSE add(chunk.node, Drop(after, u.x))

(* Without a schema (no fields) a message is encoded with its own.         *)
GenerateProtobuf(x, fields) ==
    EncodeMessage(x, IF fields = <<>> THEN OwnFields(x, <<>>) ELSE fields)
ParseProtobuf(d, fields) == ParseMessage(d, Container(<<>>, "Map", <<>>), fields)
=============================================================================
