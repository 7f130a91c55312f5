------------------------------ MODULE Columnar ------------------------------
(***************************************************************************)
(* internal/codec/parquet.go and hdf5.go: files that hold records by       *)
(* column.  A file is its directory (the columns with their type, offset,  *)
(* length and number of values) and the bytes of the values; signatures,   *)
(* versions and page headers are constant.  The values of a column of      *)
(* floats have its width; a missing value is written as a zero.            *)
(***************************************************************************)
EXTENDS Avro

(* parquetTypeOf and hdf5TypeOf; Parquet has one type for texts and bytes. *)
ColumnType(format, t) ==
    CASE t = "Boolean" -> "boolean"
      [] t \in {"Int32", "UInt32", "SInt32", "Fixed32", "SFixed32"} -> "int32"
      [] t \in {"Int64", "UInt64", "SInt64", "Fixed64", "SFixed64"} -> "int64"
      [] t = "Float32" -> "float"   [] t = "Float64" -> "double"
      [] t = "Bytes" -> IF format = "hdf5" THEN "bytes" ELSE "text"
      [] OTHER -> "text"

(* The Go types whose values an int32 column takes; others become 0. *)
Int32Sources(format) ==
    {"int32", "int64"} \cup IF format = "hdf5" THEN {"bool"} ELSE {"uint32"}

(* fmt.Sprint: a byte stands for the digits of a number, as an enum has. *)
Sprint(x) == IF x.go \in SignedGo \cup UnsignedGo THEN Fixed(x.n, 1) ELSE x.s

(* writePlain and writeHDF5Value *)
WritePlain(format, type, x) ==
    CASE type = "boolean" -> <<IF x.go = "bool" THEN x.n ELSE 0>>
      [] type = "int32" ->
             Fixed(IF x.go \in Int32Sources(format) THEN x.n ELSE 0, 4)
      [] type = "int64" -> Fixed(AsInt64(x), 8)
      [] type = "float" -> Fixed(x.n, 4)
      [] type = "double" -> Fixed(x.n, 8)
      [] OTHER -> Fixed(Len(Sprint(x)), 4) \o Sprint(x)

Concat(seqs) == FoldLeft(LAMBDA acc, s : acc \o s, <<>>, seqs)

(* collectParquetColumns: the schema's fields, then the others in the      *)
(* order of their first record, which gives the type.                      *)
ColumnFields(rows, fields) ==
    LET cells == fields
                 \o Concat([r \in DOMAIN rows |-> [i \in DOMAIN rows[r].ch |->
                       [key |-> rows[r].ch[i].key, t |-> rows[r].ch[i].t]]])
        first(i) == \A j \in 1 .. i - 1 : cells[j].key # cells[i].key
        places == SelectSeq([i \in DOMAIN cells |-> i], first)
    IN  [k \in DOMAIN places |-> cells[places[k]]]

GenerateColumns(format, x, fields) ==
    LET rows == Rows(x)
        named == ColumnFields(rows, fields)
        child(row, k) == SelectSeq(row.ch, LAMBDA c : c.key = k)
        cell(row, k) == IF child(row, k) = <<>> THEN NullTree(k) ELSE child(row, k)[1]
        chunk(f) == Concat([r \in DOMAIN rows |->
                       WritePlain(format, ColumnType(format, f.t), cell(rows[r], f.key))])
        add(acc, f) == [cols |-> Append(acc.cols,
                                    [key |-> f.key, type |-> ColumnType(format, f.t),
                                     off |-> Len(acc.data), len |-> Len(chunk(f)),
                                     count |-> Len(rows)]),
                        data |-> acc.data \o chunk(f)]
        file == FoldLeft(add, [cols |-> <<>>, data |-> <<>>], named)
    IN  [rows |-> Len(rows), cols |-> file.cols, data |-> file.data]

(* GenerateHDF5 has no use for a schema. *)
GenerateParquet(x, fields) == GenerateColumns("parquet", x, fields)
GenerateHDF5(x) == GenerateColumns("hdf5", x, <<>>)

----------------------------------------------------------------------------
(* One value of readPlain and of readHDF5Values. *)
ReadPlain(key, type, d) ==
    LET l == FixedValue(d, 4)
        b == SubSeq(d, 5, l + 4)
    IN  CASE type \in {"boolean", "float", "double"} -> DecodeScalar(key, type, d)
          [] type = "int32" -> IF Len(d) < 4 THEN Refused
                               ELSE Read(NumberTree(key, "Int32", "int32", Int32Of(l)),
                                         Drop(d, 4))
          [] type = "int64" -> IF Len(d) < 8 THEN Refused
                               ELSE Read(NumberTree(key, "Int64", "int64",
                                            LowSigned(FixedValue(d, 8), VarBits)),
                                         Drop(d, 8))
          [] OTHER -> IF Len(d) < 4 THEN Refused
                      ELSE IF Len(d) < l + 4 THEN Refused
                      ELSE Read(IF type = "bytes" THEN BytesTree(key, b) ELSE TextTree(key, b),
                                Drop(d, l + 4))

(* The values of a column.  Parquet slices its chunk; HDF5 reads from the  *)
(* offset on, and panics when that is beyond the end of the file.          *)
ReadColumn(format, col, data) ==
    IF col.off > Len(data) THEN Panicked
    ELSE FoldLeft(LAMBDA acc, i : Appended(acc, ReadPlain(col.key, col.type, acc.rest)),
                  Read(Container(col.key, "Array", <<>>),
                       IF format = "parquet"
                       THEN SubSeq(data, col.off + 1, col.off + col.len)
                       ELSE Drop(data, col.off)),
                  [i \in 1 .. col.count |-> i])

(* The records of the columns: the first one that fails, fails it all. *)
Table(values, count) ==
    LET failed == {i \in DOMAIN values : ~values[i].ok}
        row(r) == Container(<<>>, "Map", [i \in DOMAIN values |-> values[i].node.ch[r]])
    IN  IF failed # {}
        THEN values[CHOOSE i \in failed : \A j \in failed : i <= j]
        ELSE IF count = 1 THEN Read(row(1), <<>>)
        ELSE Read(Container(<<>>, "Array", [r \in 1 .. count |-> row(r)]), <<>>)

ParseColumns(format, file, count) ==
    Table([i \in DOMAIN file.cols |-> ReadColumn(format, file.cols[i], file.data)], count)

(* HDF5 takes the number of records from its first column. *)
ParseParquet(file) == ParseColumns("parquet", file, file.rows)
ParseHDF5(file) ==
    ParseColumns("hdf5", file, IF file.cols = <<>> THEN 0 ELSE file.cols[1].count)
=============================================================================
