------------------------------ MODULE Payloads ------------------------------
(***************************************************************************)
(* What the server computes on payloads and schemas, one task per          *)
(* behaviour: conversions of values, projections, comparisons of schemas,  *)
(* subscriptions that get an event, and transfers: a payload is decoded    *)
(* (its fields in the order of the source), encoded (codec.EncodePayload), *)
(* possibly cut short on its way, and decoded again (codec.DecodePayload). *)
(***************************************************************************)
EXTENDS Calculations, Selections, MessagePack, Cbor, Columnar, CapnProto

VARIABLE wire   \* the bytes of a transfer, whose decoded payload is tree

vars == <<task, stage, tree, wire, output>>

Init == /\ task \in Tasks
        /\ stage = "start"
        /\ tree = None
        /\ wire = <<>>
        /\ output = None

Coerce == Convert /\ UNCHANGED <<tree, wire>>

(* The part of the session's "subscribe" that accepts a query (main.go). *)
Accepted(op) ==
    LET roots == RootFieldsFromOp(op, task.schema)
        type(rf) == ReturnTypeForEvent(task.schema, rf.name)
    IN  IF op = None THEN FALSE
        ELSE IF roots = None THEN FALSE
        ELSE \A rf \in Range(roots) :
                 /\ type(rf) # None
                 /\ ValidateSelections(type(rf), rf.sels, task.fragments, task.schema)

Subscribe ==
    /\ At("select", "start", IF Accepted(SelectSubscription(task.ops, task.name))
                             THEN "subscribed" ELSE "refused")
    /\ UNCHANGED <<tree, wire, output>>

(* An event whose type is a root field of the query: the first such one. *)
RootOf(op) == SelectSeq(op.sels, LAMBDA rf : rf.name = task.event)

Deliver ==
    LET op == SelectSubscription(task.ops, task.name)
    IN  /\ At("select", "subscribed", "done")
        /\ RootOf(op) # <<>>
        /\ output' \in ProjectEventToNode(task.data, RootOf(op)[1],
                           [schema |-> task.schema, target |-> task.target,
                            type |-> task.type, fragments |-> task.fragments, op |-> op,
                            cached |-> task.cached])
        /\ UNCHANGED <<tree, wire>>

Calculate == (ReadNumber \/ Compare \/ Project \/ ProjectAgain) /\ UNCHANGED wire

(* The orders in which a decoder may give the children of the nodes: that  *)
(* of a Go map for JSON (MapToUIR), the sender's for CBOR (ParseCBOR).     *)
Reordered(s) == {[i \in DOMAIN s |-> s[p[i]]] :
                    p \in {q \in [DOMAIN s -> DOMAIN s] : IsInjective(q)}}

RECURSIVE AnyOrder(_)
AnyOrder(x) ==
    LET kids == OneOfEach([i \in DOMAIN x.ch |-> AnyOrder(x.ch[i])])
    IN  UNION {{[x EXCEPT !.ch = s] : s \in IF x.t = "Map" THEN Reordered(c) ELSE {c}} :
                  c \in kids}

DecodeSource ==
    /\ At("transfer", "start", "decoded")
    /\ tree' \in IF task.reorder THEN AnyOrder(task.tree) ELSE {task.tree}
    /\ UNCHANGED <<wire, output>>

(* The codecs' answers: what they write, or that they cannot. *)
Generated(x) ==
    CASE task.format = "msgpack" -> IF Supported(x)
                                    THEN [ok |-> TRUE, out |-> GenerateMessagePack(x)]
                                    ELSE [ok |-> FALSE, out |-> <<>>]
      [] task.format = "cbor" -> GenerateCBOR(x)
      [] task.format = "protobuf" -> [ok |-> TRUE, out |-> GenerateProtobuf(x, task.fields)]
      [] task.format = "avro" -> [ok |-> TRUE, out |-> GenerateAvro(x, task.fields)]
      [] task.format = "parquet" -> [ok |-> TRUE, out |-> GenerateParquet(x, task.fields)]
      [] task.format = "hdf5" -> [ok |-> TRUE, out |-> GenerateHDF5(x)]
      [] task.format = "capnproto" -> [ok |-> TRUE, out |-> GenerateCapnProto(x, task.fields)]

(* EncodePayload: a payload that came as CBOR is checked for its target. *)
Encoded(x) ==
    IF task.cbor /\ ~ValidateCBORTarget(x, task.format) THEN [ok |-> FALSE, out |-> <<>>]
    ELSE Generated(x)

Encode ==
    /\ At("transfer", "decoded", IF Encoded(tree).ok THEN "encoded" ELSE "refused")
    /\ wire' = IF Encoded(tree).ok THEN Encoded(tree).out ELSE wire
    /\ UNCHANGED <<tree, output>>

(* A connection that ends early, or an upload that was cut.  The mark at   *)
(* the end of a Parquet file is missing then, and it is refused; so is an  *)
(* Avro file, unless it ends after its header, before the block.           *)
CutShort ==
    /\ At("transfer", "encoded", "cut")
    /\ \/ /\ task.format \in {"msgpack", "cbor", "protobuf"}
          /\ \E l \in 0 .. Len(wire) - 1 : wire' = SubSeq(wire, 1, l)
       \/ /\ task.format = "avro"
          /\ wire' = [wire EXCEPT !.count = <<>>, !.size = <<>>, !.block = <<>>]
       \/ /\ task.format = "hdf5"
          /\ \E l \in 0 .. Len(wire.data) - 1 : wire' = [wire EXCEPT !.data = SubSeq(@, 1, l)]
       \/ /\ task.format = "capnproto"
          /\ \E l \in 0 .. Len(wire.seg) - 1 : wire' = [wire EXCEPT !.seg = SubSeq(@, 1, l)]
    /\ UNCHANGED <<tree, output>>

Decoded(d) ==
    CASE task.format = "msgpack" -> ParseMessagePack(d)
      [] task.format = "cbor" -> ParseCBOR(d)
      [] task.format = "protobuf" -> ParseProtobuf(d, task.fields)
      [] task.format = "avro" -> ParseAvro(d)
      [] task.format = "parquet" -> ParseParquet(d)
      [] task.format = "hdf5" -> ParseHDF5(d)
      [] task.format = "capnproto" -> ParseCapnProto(d, task.fields)

Decode(from, to) ==
    /\ At("transfer", from, to)
    /\ output' = Decoded(wire)
    /\ UNCHANGED <<tree, wire>>

Next == \/ Coerce \/ Calculate
        \/ Subscribe \/ Deliver
        \/ DecodeSource \/ Encode \/ CutShort
        \/ Decode("encoded", "done") \/ Decode("cut", "cut done")

Spec == Init /\ [][Next]_vars

----------------------------------------------------------------------------
RECURSIVE InRange(_)
InRange(x) == /\ x.go = "int32" => x.n \in MinInt(4) .. MaxInt(4)
              /\ x.go = "uint32" => x.n \in 0 .. MaxUint(4)
              /\ x.go = "int64" => x.n \in MinInt(8) .. MaxInt(8)
              /\ x.go = "uint64" => x.n \in 0 .. MaxUint(8)
              /\ \A c \in Range(x.ch) : InRange(c)

(* A result has the value its Go type can hold: conversions cut an integer *)
(* to its range, and decoders never give a number its type does not have.  *)
TypeOK ==
    /\ stage \in {"start", "done", "projected", "decoded", "encoded", "refused", "cut",
                  "cut done", "subscribed"}
    /\ ConversionTyped
    /\ (task.do = "transfer" /\ output # None) => InRange(output.node)

(* No two fields of one object of the schema look alike. *)
RECURSIVE NamesDiffer(_)
NamesDiffer(s) == /\ \A i, j \in DOMAIN s.ch :
                         i # j => NormalName[s.ch[i].key] # NormalName[s.ch[j].key]
                  /\ \A c \in Range(s.ch) : NamesDiffer(c)

(* Projecting a projection changes nothing, so that an event or a payload  *)
(* that passes two conversions with the same schema is the same as after   *)
(* one: the names that look alike are resolved once and for all.  It needs *)
(* a schema whose names differ (else the value of one field also fills a   *)
(* missing one that looks alike), and EmitNullForMissing off: the null of  *)
(* a missing array is refused the second time, and that of an object       *)
(* becomes an empty object.                                                *)
ProjectionStable ==
    (/\ task.do = "project" /\ stage = "done" /\ ~task.opts.emitNull
     /\ task.opts.match = "exact"
        \/ NamesDiffer(ResolvePayloadType(task.schema, task.type))) =>
        output.ok /\ output.node = tree

(* The fields that a query asks for, and the names it asks for them by. *)
RECURSIVE Wanted(_)
Wanted(sels) ==
    UNION {CASE s.kind = "field" -> {s}
             [] s.kind = "inline" -> Wanted(s.sels)
             [] s.kind = "spread" -> IF s.name \in DOMAIN task.fragments
                                     THEN Wanted(task.fragments[s.name]) ELSE {} :
              s \in Range(sels)}
ResponseKey(f) == IF f.alias = None THEN f.name ELSE f.alias

(* x has what the selections want of the data d, whose missing fields are  *)
(* null if nulls is set.                                                   *)
RECURSIVE Shaped(_, _, _, _)
Shaped(x, sels, d, nulls) ==
    LET fields == Wanted(sels)
        within(f) == IF f.name \in Keys(d) THEN Indexed(d, f.name) ELSE d
    IN  (x.t = "Map" /\ \A f, g \in fields : f.name = g.name => f = g) =>
            /\ Keys(x) \subseteq {ResponseKey(f) : f \in fields}
            /\ \A f \in fields : nulls \/ f.name \in Keys(d) =>
                   \E c \in Range(x.ch) :
                      /\ c.key = ResponseKey(f)
                      /\ f.sels # <<>> => Shaped(c, f.sels, within(f), nulls)

(* A subscription that is accepted gets of each event the fields its query *)
(* selects and no others, under its aliases, within objects too:           *)
(* ValidateSelections, the projection and filterBySelection agree.  A      *)
(* field that the event lacks is null, unless the projection uses a plan   *)
(* that a conversion to Protobuf or Cap'n Proto has left in the cache      *)
(* (broker.go:330): then only such fields may be left out.  Excepted are a *)
(* field selected twice (the last selection wins), a root field without    *)
(* selections, the elements of arrays, and a target type other than the    *)
(* type of the root field.                                                 *)
SelectionHonoured ==
    (task.do = "select" /\ stage = "done" /\ output.ok) =>
        LET rf == RootOf(SelectSubscription(task.ops, task.name))[1]
            type == ReturnTypeForEvent(task.schema, rf.name)
        IN  (rf.sels # <<>> /\ (task.target = "graphql" \/ task.type = type.key)) =>
                Shaped(output.node, rf.sels, task.data, task.cached # FALSE)

(* Values a conversion keeps: the value of a scalar, whatever type has it, *)
(* and the members of a container, those of a map in any order (but those  *)
(* with the same key in theirs).                                           *)
RECURSIVE SameData(_, _)
SameData(a, b) ==
    LET integer(x) == x.t \in IntTypes \/ (x.t = "Enum" /\ x.go \in SignedGo)
        under(x, k) == SelectSeq(x.ch, LAMBDA c : c.key = k)
        pairwise(s, t) == /\ Len(s) = Len(t)
                          /\ \A i \in DOMAIN s : SameData(s[i], t[i])
    IN  CASE a.t = "Array" -> b.t = "Array" /\ pairwise(a.ch, b.ch)
          [] a.t = "Map" ->
                 /\ b.t = "Map" /\ Len(a.ch) = Len(b.ch)
                 /\ \A k \in {c.key : c \in Range(a.ch)} : pairwise(under(a, k), under(b, k))
          [] integer(a) -> integer(b) /\ a.n = b.n
          [] OTHER -> /\ b.t \notin {"Map", "Array"} /\ ~integer(b)
                      /\ <<a.go, a.n, a.s>> = <<b.go, b.n, b.s>>

(* What a Protobuf message holds of a payload.  A null is left out.  The   *)
(* elements of an array are values of its field, a null among them an      *)
(* empty text.  The name of an enum is written as 0 (protobuf.go:160).     *)
RECURSIVE InMessage(_, _)
InMessage(x, fields) ==
    LET field(c) == Last(SelectSeq(fields, LAMBDA f : f.key = c.key))
        element(k, e) == IF e.t = "Null" THEN TextTree(k, <<>>) ELSE [e EXCEPT !.key = k]
        one(c) == CASE c.t = "Null" -> <<>>
                    [] c.t = "Array" ->
                           InMessage([c EXCEPT !.ch = [i \in DOMAIN @ |-> element(c.key, @[i])]],
                                     fields).ch
                    [] c.t = "Map" -> <<InMessage(c, field(c).ch)>>
                    [] c.t = "Enum" -> <<EnumValue(field(c), c.n)>>
                    [] OTHER -> <<c>>
    IN  [x EXCEPT !.ch = FoldLeft(LAMBDA acc, c : acc \o one(c), <<>>, @)]

(* What a field of a record holds of its value, where it is not the value: *)
(*  - a file has the name of an enum as a text, and its number in digits;  *)
(*    Avro has an empty text for it, and for fields of fixed size          *)
(*    (avro.go:196);                                                       *)
(*  - an unsigned 32-bit number is signed in Avro and Parquet, and 0 in    *)
(*    HDF5 (hdf5.go:226);                                                  *)
(*  - a signed one other than Int32 is unsigned in Cap'n Proto, a 64-bit   *)
(*    one is signed, and the name of an enum is 0 (capnproto.go:322).      *)
InField(x) ==
    LET fixed == x.t \in {"Fixed32", "Fixed64", "SFixed32", "SFixed64"}
    IN  CASE task.format = "avro" /\ (x.t = "Enum" \/ fixed) -> TextTree(x.key, x.s)
          [] task.format \in {"parquet", "hdf5"} /\ x.t = "Enum" -> TextTree(x.key, Sprint(x))
          [] task.format \in {"avro", "parquet"} /\ x.go = "uint32" ->
                 [x EXCEPT !.n = LowSigned(@, HalfBits)]
          [] task.format = "hdf5" /\ x.go = "uint32" -> [x EXCEPT !.n = 0]
          [] task.format = "capnproto" /\ x.t \in {"SInt32", "SFixed32"} ->
                 [x EXCEPT !.n = Low(@, HalfBits)]
          [] task.format = "capnproto" /\ x.go = "uint64" ->
                 [x EXCEPT !.n = LowSigned(@, VarBits)]
          [] task.format = "capnproto" /\ x.t = "Enum" ->
                 NumberTree(x.key, "Int64", "int64", x.n)
          [] OTHER -> x

(* One record comes back as itself, also from an array (avro.go:110,       *)
(* parquet.go:215, hdf5.go:182), and HDF5 has no record without fields.    *)
InRecords(x) ==
    LET rows == SelectSeq(IF x.t = "Array" THEN x.ch ELSE <<x>>,
                          LAMBDA r : task.format # "hdf5" \/ r.ch # <<>>)
        record(r) == [r EXCEPT !.ch = [i \in DOMAIN @ |-> InField(@[i])]]
    IN  IF Len(rows) = 1 THEN record(rows[1])
        ELSE Container(<<>>, "Array", [i \in DOMAIN rows |-> record(rows[i])])

Held(x) == CASE task.format \in {"msgpack", "cbor"} -> x
             [] task.format = "protobuf" -> InMessage(x, task.fields)
             [] OTHER -> InRecords(x)

(* What a codec writes it reads back: the same values under the same keys, *)
(* at every length and width, and within the limits it writes up to, but   *)
(* for what a format does not hold of them (Held).  A file's transfer      *)
(* comes as CBOR; what ValidateCBORTarget refuses of it is not written.    *)
RoundTrip ==
    (task.do = "transfer" /\ stage = "done") =>
        output.ok /\ SameData(Held(task.tree), output.node)

(* A payload that was cut short is not taken for a whole one: decoders     *)
(* refuse it and do not panic.  Two formats have no end: Protobuf gives    *)
(* the fields that are whole, each with its value, and an Avro file        *)
(* without its block has no records.                                       *)
CutIsNoticed ==
    (task.do = "transfer" /\ stage = "cut done") =>
        \/ ~output.ok /\ output # Panicked
        \/ task.format = "avro" /\ output.node = Container(<<>>, "Array", <<>>)
        \/ /\ task.format = "protobuf"
           /\ Len(output.node.ch) < Len(Held(tree).ch)
           /\ \A c \in Range(output.node.ch) :
                  \E x \in Range(Held(tree).ch) : c.key = x.key /\ SameData(x, c)
=============================================================================
