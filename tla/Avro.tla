-------------------------------- MODULE Avro --------------------------------
(***************************************************************************)
(* internal/codec/avro.go: object container files of flat records.  A file *)
(* is a record with the schema of its metadata (the JSON text stands for   *)
(* the list of fields it names), and its block: the count of records, its  *)
(* size and its bytes; magic, codec and sync markers are constant.         *)
(***************************************************************************)
EXTENDS Protobuf

(* avroTypeName; the branch 1 of the union every field has. *)
AvroTypeName(t) == CASE t = "Boolean" -> "boolean"
                     [] t \in {"Int32", "UInt32", "SInt32"} -> "int"
                     [] t \in {"Int64", "UInt64", "SInt64"} -> "long"
                     [] t = "Float32" -> "float"  [] t = "Float64" -> "double"
                     [] t = "Bytes" -> "bytes"    [] OTHER -> "string"

(* parquetRows: the records of a payload.  A root (its key <<>> stands for *)
(* "Root" and the other names of one) with a single object is unwrapped.   *)
Rows(x) == IF x.t = "Array" THEN x.ch
           ELSE IF x.t = "Map" /\ x.key = <<>> /\ Len(x.ch) = 1 /\ x.ch[1].t = "Map"
                THEN <<x.ch[1]>>
           ELSE <<x>>

(* avroSchemaJSON without a registered schema: the first record's fields. *)
AvroSchema(rows) ==
    IF rows = <<>> THEN <<>>
    ELSE [i \in DOMAIN rows[1].ch |-> [key |-> rows[1].ch[i].key,
                                       type |-> AvroTypeName(rows[1].ch[i].t)]]

(* writeAvroBytes *)
WriteBytes(b) == WriteLong(Len(b)) \o b

(* encodeAvroScalar; a value that is no string is written as an empty one. *)
EncodeScalar(x) ==
    CASE x.t = "Boolean" -> <<x.n>>
      [] x.t \in IntTypes \ {"Fixed32", "Fixed64", "SFixed32", "SFixed64"} ->
             WriteLong(AsInt64(x))
      [] x.t = "Float64" -> Fixed(x.n, 8)
      [] x.t = "Float32" -> Fixed(x.n, 4)
      [] OTHER -> WriteBytes(x.s)

(* encodeAvroRecord without a registered schema: the record's own fields,  *)
(* in its own order.  With one, the fields of the schema by name.          *)
EncodeRecord(row, fields) ==
    LET child(k) == SelectSeq(row.ch, LAMBDA c : c.key = k)
        one(k) == IF child(k) = <<>> THEN WriteLong(0)
                  ELSE IF Last(child(k)).t = "Null" THEN WriteLong(0)
                  ELSE WriteLong(1) \o EncodeScalar(Last(child(k)))
    IN  FoldLeft(LAMBDA acc, f : acc \o one(f.key), <<>>,
                 IF fields = <<>> THEN row.ch ELSE fields)

(* GenerateAvro: fields is the registered schema's, <<>> without one. *)
GenerateAvro(x, fields) ==
    LET rows == Rows(x)
        block == FoldLeft(LAMBDA acc, row : acc \o EncodeRecord(row, fields), <<>>, rows)
    IN  [schema |-> IF fields = <<>> THEN AvroSchema(rows)
                    ELSE [i \in DOMAIN fields |-> [key |-> fields[i].key,
                                                   type |-> AvroTypeName(fields[i].t)]],
         count |-> WriteLong(Len(rows)), size |-> WriteLong(Len(block)), block |-> block]

----------------------------------------------------------------------------
(* readAvroBytes, l being the length that d starts with. *)
ReadBytes(key, type, l, d) ==
    LET rest == Drop(d, l.len)
        chunk == SubSeq(rest, 1, l.x)
    IN  IF ~l.ok THEN Refused
        ELSE IF l.x < 0 \/ l.x > Len(rest) THEN Refused
        ELSE Read(IF type = "bytes" THEN BytesTree(key, chunk) ELSE TextTree(key, chunk),
                  Drop(rest, l.x))

ReadInteger(key, type, l, d) ==
    IF ~l.ok THEN Refused
    ELSE Read(IF type = "int" THEN NumberTree(key, "Int32", "int32", Int32Of(l.x))
              ELSE NumberTree(key, "Int64", "int64", l.x),
              Drop(d, l.len))

(* decodeAvroScalar *)
DecodeScalar(key, type, d) ==
    CASE type = "boolean" ->
             IF d = <<>> THEN Refused
             ELSE Read(BoolTree(key, IF d[1] # 0 THEN 1 ELSE 0), Tail(d))
      [] type \in {"int", "long"} -> ReadInteger(key, type, ReadLong(d), d)
      [] type = "float" -> IF Len(d) < 4 THEN Refused
                           ELSE Read(NumberTree(key, "Float32", "float32",
                                        FixedValue(d, 4)), Drop(d, 4))
      [] type = "double" -> IF Len(d) < 8 THEN Refused
                            ELSE Read(NumberTree(key, "Float64", "float64",
                                         FixedValue(d, 8)), Drop(d, 8))
      [] OTHER -> ReadBytes(key, type, ReadLong(d), d)

(* A field is a union of null and its type, branch b being what d starts   *)
(* with: one beyond the last is read as a text, a negative one panics.     *)
DecodeUnion(f, b, d) ==
    LET rest == Drop(d, b.len)
    IN  IF ~b.ok THEN Refused
        ELSE IF b.x < 0 THEN Panicked
        ELSE IF b.x = 0 THEN Read(NullTree(f.key), rest)
        ELSE DecodeScalar(f.key, IF b.x = 1 THEN f.type ELSE "string", rest)

(* What has been read so far and one more part of it, r. *)
Appended(acc, r) ==
    IF ~acc.ok THEN acc
    ELSE IF ~r.ok THEN r
    ELSE Read([acc.node EXCEPT !.ch = Append(@, r.node)], r.rest)

(* decodeAvroValue: the fields of the file's schema in its order. *)
DecodeRecord(d, fields) ==
    FoldLeft(LAMBDA acc, f : Appended(acc, DecodeUnion(f, ReadLong(acc.rest), acc.rest)),
             Read(Container(<<>>, "Map", <<>>), d), fields)

(* One record comes back as itself. *)
Unwrapped(r) == IF r.ok /\ Len(r.node.ch) = 1 THEN Read(r.node.ch[1], <<>>) ELSE r

(* ParseAvro of a file with at most one block; bytes that the records      *)
(* leave in it are skipped.                                                *)
ParseAvro(file) ==
    LET count == ReadLong(file.count)
        size == ReadLong(file.size)
        Abs(x) == IF x < 0 THEN -x ELSE x
    IN  IF file.count = <<>> THEN Read(Container(<<>>, "Array", <<>>), <<>>)
        ELSE IF ~count.ok \/ ~size.ok THEN Refused
        ELSE IF size.x > Len(file.block) THEN Refused
        ELSE Unwrapped(
                 FoldLeft(LAMBDA acc, i : Appended(acc, DecodeRecord(acc.rest, file.schema)),
                          Read(Container(<<>>, "Array", <<>>), file.block),
                          [i \in 1 .. Abs(count.x) |-> i]))
=============================================================================
