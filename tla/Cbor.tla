-------------------------------- MODULE Cbor --------------------------------
(***************************************************************************)
(* internal/codec/cbor.go and cbor_target.go.                              *)
(***************************************************************************)
EXTENDS Heads, SequencesExt, TLC

CONSTANTS
    MaxDepth,   \* cborMaxDepth
    MaxItems    \* cborMaxItems

ASSUME CborAssumption == {MaxDepth, MaxItems} \subseteq Nat

Simple(x) == Lead("simple", x)

(* utf8.Valid: the last byte value occurs in no text. *)
ValidUtf8(b) == \A i \in DOMAIN b : b[i] # Radix - 1

(* sort.Slice by key: byte by byte, a proper prefix first. *)
KeyLess(a, b) ==
    \E i \in 1 .. Len(b) : /\ i <= Len(a) + 1
                           /\ \A j \in 1 .. i - 1 : a[j] = b[j]
                           /\ i = Len(a) + 1 \/ (i <= Len(a) /\ a[i] < b[i])

CborText(b) == CborHead("text", Len(b)) \o Raw(b)

(* The bytes and the budget left, or an error. *)
Written(d, budget) == [ok |-> TRUE, out |-> d, budget |-> budget]
NotWritten == [ok |-> FALSE, out |-> <<>>, budget |-> 0]

CborScalar(x, budget) ==
    CASE x.go = "nil" -> Written(<<Simple("null")>>, budget)
      [] x.go = "bool" -> Written(<<Simple(IF x.n = 1 THEN "true" ELSE "false")>>, budget)
      [] x.go = "string" -> IF ValidUtf8(x.s) THEN Written(CborText(x.s), budget)
                            ELSE NotWritten
      [] x.go = "bytes" -> Written(CborHead("bytes", Len(x.s)) \o Raw(x.s), budget)
      [] x.go \in SignedGo -> Written(CborSigned(x.n), budget)
      [] x.go \in UnsignedGo -> Written(CborHead("unsigned", x.n), budget)
      [] x.go = "float32" -> Written(<<Simple("float32")>> \o BigEndian(x.n, 4), budget)
      [] x.go = "float64" -> Written(<<Simple("float64")>> \o BigEndian(x.n, 8), budget)
      [] OTHER -> NotWritten


(* What a map's key takes from the budget. *)
KeyCost == 1

RECURSIVE AppendCbor(_, _, _)
AppendCbor(x, depth, budget) ==
    LET left == budget - 1
        fields == SortSeq(x.ch, LAMBDA a, b : KeyLess(a.key, b.key))
        distinct == \A i, j \in DOMAIN x.ch : x.ch[i].key = x.ch[j].key => i = j
        list(acc, c) == IF ~acc.ok THEN NotWritten
                        ELSE LET r == AppendCbor(c, depth + 1, acc.budget)
                             IN  IF r.ok THEN Written(acc.out \o r.out, r.budget)
                                 ELSE NotWritten
        field(acc, c) == IF ~acc.ok \/ acc.budget < KeyCost \/ ~ValidUtf8(c.key)
                         THEN NotWritten
                         ELSE list(Written(acc.out \o CborText(c.key),
                                           acc.budget - KeyCost), c)
    IN  IF left < 0 \/ depth > MaxDepth THEN NotWritten
        ELSE CASE x.t = "Null" -> Written(<<Simple("null")>>, left)
               [] x.t = "Map" ->
                      IF ~distinct THEN NotWritten
                      ELSE FoldLeft(field, Written(CborHead("map", Len(x.ch)), left), fields)
               [] x.t = "Array" ->
                      FoldLeft(list, Written(CborHead("array", Len(x.ch)), left), x.ch)
               [] OTHER -> CborScalar(x, left)

GenerateCBOR(x) == AppendCbor(x, 0, MaxItems)

----------------------------------------------------------------------------
(* The parser: an answer also has the items read so far. *)
Got(node, rest, items) == Read(node, rest) @@ [items |-> items]
NotGot == Refused @@ [items |-> 0]

CborNumber(key, major, x, rest, items) ==
    CASE major = "unsigned" /\ x <= MaxInt(8) ->
             Got(NumberTree(key, "Int64", "int64", x), rest, items)
      [] major = "unsigned" /\ x > MaxInt(8) ->
             Got(NumberTree(key, "UInt64", "uint64", x), rest, items)
      [] major = "negative" /\ x <= MaxInt(8) ->
             Got(NumberTree(key, "Int64", "int64", -1 - x), rest, items)
      [] OTHER -> NotGot

CborSimple(key, info, d, items) ==
    CASE info \in {"true", "false"} ->
             Got(BoolTree(key, IF info = "true" THEN 1 ELSE 0), d, items)
      [] info = "null" -> Got(NullTree(key), d, items)
      [] info = "float16" /\ IsRaw(d, 2) ->     \* widened, with the same value
             Got(NumberTree(key, "Float64", "float16", UnsignedOf(d, 2)), Drop(d, 2), items)
      [] info = "float32" /\ IsRaw(d, 4) ->
             Got(NumberTree(key, "Float32", "float32", UnsignedOf(d, 4)), Drop(d, 4), items)
      [] info = "float64" /\ IsRaw(d, 8) ->
             Got(NumberTree(key, "Float64", "float64", UnsignedOf(d, 8)), Drop(d, 8), items)
      [] OTHER -> NotGot

RECURSIVE ReadCbor(_, _, _, _), ReadMembers(_, _, _, _, _, _)

(* The loop over l members of a container; keys are read as items too. *)
ReadMembers(node, l, d, depth, items, map) ==
    LET k == IF map THEN ReadCbor(<<>>, d, depth + 1, items)
             ELSE Got(TextTree(<<>>, <<>>), d, items)
        v == ReadCbor(k.node.s, k.rest, depth + 1, k.items)
    IN  IF l = 0 THEN Got(node, d, items)
        ELSE IF ~k.ok THEN NotGot
        ELSE IF k.node.t # "String" THEN NotGot
        ELSE IF map /\ \E c \in Range(node.ch) : c.key = k.node.s THEN NotGot
        ELSE IF ~v.ok THEN NotGot
        ELSE ReadMembers([node EXCEPT !.ch = Append(@, v.node)], l - 1, v.rest,
                         depth, v.items, map)

(* A container is refused before it is read when its size is impossible. *)
ReadContainer(key, map, l, d, depth, items) ==
    LET each == IF map THEN 2 ELSE 1
    IN  IF l > (MaxItems - items) \div each \/ l > Len(d) \div each THEN NotGot
        ELSE ReadMembers(Container(key, IF map THEN "Map" ELSE "Array", <<>>), l, d,
                         depth, items, map)

ReadText(key, major, l, d, items) ==
    IF ~IsRaw(d, l) THEN NotGot
    ELSE IF major = "bytes" THEN Got(BytesTree(key, Content(d, l)), Drop(d, l), items)
    ELSE IF ValidUtf8(Content(d, l)) THEN Got(TextTree(key, Content(d, l)), Drop(d, l), items)
    ELSE NotGot

(* cborParser.read *)
ReadCbor(key, data, depth, items0) ==
    IF items0 + 1 > MaxItems \/ depth > MaxDepth \/ data = <<>> THEN NotGot
    ELSE
    LET items == items0 + 1
        head == ReadCborHead(data)
    IN  CASE data[1][1] = "simple" -> CborSimple(key, data[1][2], Tail(data), items)
          [] head.what \in {"unsigned", "negative"} ->
                 CborNumber(key, head.what, head.n, head.rest, items)
          [] head.what \in {"bytes", "text"} ->
                 ReadText(key, head.what, head.n, head.rest, items)
          [] head.what \in {"array", "map"} ->
                 ReadContainer(key, head.what = "map", head.n, head.rest, depth, items)
          [] OTHER -> NotGot     \* a head that is cut short, and tags

ParseCBOR(data) ==
    LET r == ReadCbor(<<>>, data, 0, 0) IN IF r.ok /\ r.rest # <<>> THEN NotGot ELSE r

----------------------------------------------------------------------------
(* validateCBORTarget for a field of a record of Avro, Parquet or HDF5. *)
TargetScalar(x, target) ==
    /\ x.t \notin {"Map", "Array"}
    /\ ~(x.go = "uint64" /\ x.n > MaxInt(8))
    /\ target = "parquet" => x.t # "Bytes"
    /\ target \in {"parquet", "hdf5"} => x.t # "Null"

RECURSIVE HasNull(_)
HasNull(x) == x.t = "Null" \/ \E c \in Range(x.ch) : HasNull(c)

(* ValidateCBORTarget: what may go from CBOR into another binary format.   *)
(* The parser keeps the depth; the text formats are left out.              *)
ValidateCBORTarget(x, target) ==
    LET rows == IF x.t = "Array" THEN x.ch ELSE <<x>>
        column(row, k) == SelectSeq(row.ch, LAMBDA c : c.key = k)
    IN  CASE target \in {"avro", "parquet", "hdf5"} ->
                 /\ x.t \in {"Map", "Array"}
                 /\ \A i \in DOMAIN rows :
                        /\ rows[i].t = "Map"
                        /\ \A c \in Range(rows[i].ch) : TargetScalar(c, target)
                        /\ Len(rows[i].ch) = Len(rows[1].ch)
                        /\ \A c \in Range(rows[1].ch) :
                               /\ column(rows[i], c.key) # <<>>
                               /\ column(rows[i], c.key)[1].t = c.t
          [] target = "protobuf" -> ~HasNull(x)
          [] target = "capnproto" -> ~HasNull(x) /\ x.t = "Map"
          [] OTHER -> TRUE
=============================================================================
