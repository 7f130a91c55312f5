---------------------------- MODULE MessagePack ----------------------------
(* internal/codec/msgpack.go *)
EXTENDS Heads, SequencesExt

GenerateText(b) == TextHead(Len(b)) \o Raw(b)

(* Flatten a sequence of streams. *)
Joined(streams) == FoldLeft(LAMBDA acc, d : acc \o d, <<>>, streams)

(* A node whose type the format does not have makes the whole fail, which  *)
(* is left to the caller: Supported.                                       *)
RECURSIVE GenerateMessagePack(_)
GenerateMessagePack(x) ==
    CASE x.t = "Null" -> <<Lead("nil", 0)>>
      [] x.t = "String" -> GenerateText(x.s)
      [] x.t = "Bytes" -> BytesHead(Len(x.s)) \o Raw(x.s)
      [] x.t \in IntTypes -> IF x.go \in UnsignedGo THEN GenerateUnsigned(x.n)
                             ELSE GenerateSigned(IF x.go \in SignedGo THEN x.n ELSE 0)
      [] x.t = "Float64" -> Wide("float64", x.n, 8)
      [] x.t = "Float32" -> Wide("float32", x.n, 4)
      [] x.t = "Boolean" -> <<Lead(IF x.n = 1 THEN "true" ELSE "false", 0)>>
      [] x.t = "Array" -> ArrayHead(Len(x.ch))
                          \o Joined([i \in DOMAIN x.ch |-> GenerateMessagePack(x.ch[i])])
      [] x.t = "Map" -> MapHead(Len(x.ch))
                        \o Joined([i \in DOMAIN x.ch |-> GenerateText(x.ch[i].key)
                                                         \o GenerateMessagePack(x.ch[i])])

RECURSIVE Supported(_)
Supported(x) == /\ x.t \in IntTypes \cup {"Null", "String", "Bytes", "Float64", "Float32",
                                          "Boolean", "Array", "Map"}
                /\ \A c \in Range(x.ch) : Supported(c)

----------------------------------------------------------------------------
(* The defect: the bytes that are there are taken for the text. *)
ParseTextShort(what, key, d, l) ==
    LET have == IF Len(d) < l THEN Len(d) ELSE l
        b == Content(d, have)
    IN  Read(IF what = "str" THEN TextTree(key, b) ELSE BytesTree(key, b), Drop(d, have))

(* A text ("str") or bytes ("bin") of length l. *)
ParseText(what, key, d, l) ==
    LET b == Content(d, l)
    IN  IF ~IsRaw(d, l) THEN Refused
        ELSE Read(IF what = "str" THEN TextTree(key, b) ELSE BytesTree(key, b), Drop(d, l))

RECURSIVE ParseValue(_, _), ParseMembers(_, _, _, _)

(* parseMessagePackArray and parseMessagePackMap: l members follow, each   *)
(* after its key in a map.  A key that is no text becomes one.             *)
ParseMembers(node, l, d, map) ==
    LET k == IF map THEN ParseValue(<<>>, d) ELSE Read(NullTree(<<>>), d)
        key == IF k.node.t = "String" THEN k.node.s
               ELSE IF map THEN <<Radix>> ELSE <<>>
        v == ParseValue(key, k.rest)
    IN  IF l = 0 THEN Read(node, d)
        ELSE IF ~k.ok THEN Refused
        ELSE IF ~v.ok THEN Refused
        ELSE ParseMembers([node EXCEPT !.ch = Append(@, v.node)], l - 1, v.rest, map)

(* A value whose head announces the number n of what it names. *)
ParseAnnounced(key, h) ==
    CASE h.what = "uint" -> Read(NumberTree(key, "UInt64", "uint64", h.n), h.rest)
      [] h.what = "int" -> Read(NumberTree(key, "Int64", "int64", h.n), h.rest)
      [] h.what \in {"float32", "float64"} ->
             Read(NumberTree(key, "Float64", h.what, h.n), h.rest)
      [] h.what \in {"str", "bin"} -> ParseText(h.what, key, h.rest, h.n)
      [] h.what = "array" -> ParseMembers(Container(key, "Array", <<>>), h.n, h.rest, FALSE)
      [] h.what = "map" -> ParseMembers(Container(key, "Map", <<>>), h.n, h.rest, TRUE)

ParseValue(key, data) ==
    LET h == data[1][1]
    IN  IF data = <<>> THEN Refused
        ELSE CASE h = "nil" -> Read(NullTree(key), Tail(data))
               [] h \in {"true", "false"} ->
                      Read(BoolTree(key, IF h = "true" THEN 1 ELSE 0), Tail(data))
               [] OTHER -> IF ReadHead(data).ok THEN ParseAnnounced(key, ReadHead(data))
                           ELSE Refused

ParseMessagePack(data) ==
    LET r == ParseValue(<<>>, data) IN IF r.ok /\ r.rest # <<>> THEN Refused ELSE r
=============================================================================
