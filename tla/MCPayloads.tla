----------------------------- MODULE MCPayloads -----------------------------
(* Tasks for Payloads: every kind of value and schema at its boundaries. *)
EXTENDS Payloads

(* Values of the types, floats with a fraction and beyond the integers. *)
ValuesOf(go) ==
    CASE go \in {"float32", "float64"} -> {h \in -70 .. 70 : h \in GoRange(go)}
      [] go = "text" -> {-34, -1, 0, 1, 2, 3, 6, 29, 62, 64}
      [] OTHER -> GoRange(go)

CoerceTypes == {"Int32", "SInt64", "Int64", "UInt32", "UInt64", "Float32", "Float64",
                "Boolean", "String", "Enum", "Bytes", "Timestamp", "Null"}

CoerceTasks ==
    UNION {UNION {[do : {"coerce"}, val : {Value(go, n) : n \in ValuesOf(go)},
                   from : {from}, to : CoerceTypes,
                   lossiness : {"strict", "safe", "permissive"},
                   bytes : IF go \in GoText \cup {"bytes"}
                           THEN {"base64", "hex", "reject", "scalar"} ELSE {"base64"}] :
                  go \in GoOf(from)} : from \in CoerceTypes}

----------------------------------------------------------------------------
MCNormalName == [a |-> 1, b |-> 2, user_name |-> 3, userName |-> 3, UserName |-> 3,
                 nick |-> 4, one |-> 5, item |-> 7]
MCFoldName == [a |-> 1, b |-> 2, user_name |-> 6, userName |-> 3, UserName |-> 3,
               nick |-> 4, one |-> 5, item |-> 7]

Plain == [nonNull |-> FALSE, default |-> None, number |-> None, alias |-> None,
          named |-> None, element |-> None, kind |-> None, proto |-> None]
Field(k, t, ann, ch) == [key |-> k, t |-> t, ann |-> ann, ch |-> ch]
Needed == [Plain EXCEPT !.nonNull = TRUE]

NameFields == {Field("userName", "Int32", ann, <<>>) :
                  ann \in {Plain, Needed, [Plain EXCEPT !.default = Value("text", 2)],
                           [Needed EXCEPT !.number = "one", !.alias = "nick"]}}
              \cup {Field("userName", t, Plain, <<>>) : t \in {"String", "Boolean"}}

Inner == <<Field("a", "Int32", Needed, <<>>)>>
SecondFields == {Field("user_name", "String", Plain, <<>>),
                 Field("b", "Map", Plain, Inner),
                 Field("b", "Ref", [Needed EXCEPT !.named = "Address"], <<>>),
                 Field("b", "Array", [Plain EXCEPT !.element = "Int32"], <<>>),
                 Field("b", "Array", [Plain EXCEPT !.element = "Map"],
                       <<Field("item", "Map", Plain, Inner)>>)}

(* A schema whose types are below a wrapper; Query is none of its types. *)
Wrapped(fields) == Field("proto_root", "Map", Plain,
                         <<Field("User", "Map", Plain, fields),
                           Field("Address", "Map", Plain, Inner)>>)
Single(fields) == Field("graphql_root", "Map", Plain,
                        <<Field("Query", "Map", Plain, <<>>),
                          Field("svc", "Map", [Plain EXCEPT !.kind = "service"], <<>>),
                          Field("User", "Map", Plain, fields)>>)

Numbered(k, n) == Data(k, "Int64", Value("int64", n), <<>>)
NameData == {<<>>, <<Numbered("userName", 1)>>, <<Numbered("UserName", 2)>>,
             <<NullData("userName")>>, <<Numbered("nick", 3), Numbered("one", 9)>>,
             <<Numbered("UserName", 2), Data("userName", "String", Value("text", 4), <<>>)>>}
SecondData == {<<>>, <<Numbered("user_name", 5)>>, <<NullData("b")>>,
               <<Data("b", "Map", Value("nil", 0), <<Numbered("a", 1)>>)>>,
               <<Data("b", "Array", Value("nil", 0),
                      <<Numbered("item", 1), Data("item", "Map", Value("nil", 0),
                                              <<Numbered("a", 3)>>)>>)>>}

Options == [unknown : {"ignore", "strict", "preserve"}, emitNull : BOOLEAN,
            lossiness : {"safe"}, bytes : {"base64"}, match : {"exact", "fold", "snake"}]
           \cup [unknown : {"ignore"}, emitNull : {FALSE}, lossiness : {"strict", "permissive"},
                 bytes : {"base64"}, match : {"fold"}]

Tops == UNION {{Wrapped(<<f>>), Single(<<f>>), Field("Root", "Map", Plain, <<f>>)} :
                  f \in NameFields}
Schemas == {Wrapped(<<f, g>>) : f \in NameFields, g \in SecondFields} \cup Tops

ProjectTasks ==
    {[do |-> "project", data |-> Data("", "Map", Value("nil", 0), x \o y),
      schema |-> schema, type |-> type, opts |-> o] :
        x \in NameData, y \in SecondData,
        schema \in {Wrapped(<<f, g>>) : f \in NameFields, g \in SecondFields}
                   \cup {Single(<<f>>) : f \in NameFields},
        type \in {"User"}, o \in Options}
    \cup {[do |-> "project", data |-> Data("", "Map", Value("nil", 0), x),
           schema |-> schema, type |-> type,
           opts |-> CHOOSE o \in Options : o.unknown = "ignore"] :
             x \in NameData, type \in {None, "Address", "Nobody"},
             schema \in Tops}

----------------------------------------------------------------------------
Typed(k, type) == Field(k, "Ref", [Plain EXCEPT !.named = type], <<>>)
EventSchema ==
    Field("graphql_root", "Map", Plain,
          <<Field("Subscription", "Map", Plain,
                  <<Typed("changed", "User"), Field("count", "Int32", Plain, <<>>),
                    Typed("lost", "Nobody")>>),
            Field("User", "Map", Plain,
                  <<Field("a", "Int32", Plain, <<>>), Typed("b", "Address"),
                    Field("item", "Array", [Plain EXCEPT !.element = "Map", !.named = "Address"],
                          <<Field("item", "Map", Plain, Inner)>>)>>),
            Field("Address", "Map", Plain, <<Field("userName", "Int32", Plain, <<>>),
                                             Field("a", "Int32", Needed, <<>>)>>)>>)

Pick(name, alias, sels) == [kind |-> "field", name |-> name, alias |-> alias, sels |-> sels]
Spread(name) == [kind |-> "spread", name |-> name]
Fragments == [f |-> <<Pick("a", "x", <<>>), Spread("g")>>,
              g |-> <<Pick("b", "home", <<Pick("userName", None, <<>>)>>)>>]
Picks == {Pick("a", None, <<>>), Pick("a", "x", <<>>), Pick("nick", None, <<>>),
          Pick("item", None, <<Pick("a", None, <<>>)>>), Spread("f"), Spread("h"),
          [kind |-> "inline", sels |-> <<Spread("g")>>]}
         \cup {Pick("b", alias, sels) : alias \in {None, "x"},
                  sels \in {<<>>, <<Pick("a", None, <<>>)>>, <<Pick("a", "b", <<>>), Spread("h")>>,
                            <<Pick("b", None, <<>>)>>,
                            <<Pick("a", None, <<Pick("a", None, <<>>)>>)>>}}
Operation(name, type, sels) == [name |-> name, type |-> type, sels |-> sels]
Documents ==
    {<<Operation("p", "subscription", <<Pick("changed", None, sels)>>)>> :
        sels \in UNION {[1 .. l -> Picks] : l \in 0 .. 2}}
    \cup {<<Operation("p", "subscription", s), Operation("q", "query", s)>> :
             s \in {<<>>, <<Spread("f")>>, <<Pick("lost", None, <<>>)>>,
                    <<Pick("nick", None, <<>>)>>,
                    <<Pick("count", None, <<>>), Pick("changed", None, <<Spread("f")>>)>>}}
Events == {Data("", "Map", Value("nil", 0), x \o y) : x \in {<<>>, <<Numbered("a", 1)>>},
              y \in {d \in SecondData : \A i \in DOMAIN d : d[i].t # "Array"}
                    \cup {<<Data("item", "Array", Value("nil", 0), <<>>)>>}}

SelectTasks ==
    {[do |-> "select", ops |-> ops, name |-> name, fragments |-> Fragments, data |-> data,
      schema |-> EventSchema, event |-> "changed", target |-> target, type |-> type,
      cached |-> cached] :
        ops \in Documents, name \in {None}, data \in Events, cached \in {None, FALSE},
        <<target, type>> \in {<<"graphql", None>>, <<"json", "User">>}}
    \cup {[do |-> "select", ops |-> ops, name |-> name, fragments |-> Fragments,
           data |-> Numbered("", 1), schema |-> EventSchema, event |-> event,
           target |-> "json", type |-> type, cached |-> TRUE] :
             ops \in Documents, name \in {"q", "r", "p"}, type \in {None, "User", "Address"},
             event \in {"count", "changed"}}

----------------------------------------------------------------------------
Version(a, b) == Field("Root", "Map", Plain, a \o b)
Versions ==
    {Version(a, b) :
        a \in {<<>>} \cup {<<Field("a", "Int32", Plain, <<>>)>>, <<Field("a", "Map", Plain, <<>>)>>}
              \cup {<<Field("a", "Map", Plain, <<Field("c", t, Plain, <<>>)>>)>> :
                       t \in {"Int32", "String"}},
        b \in {<<>>} \cup {<<Field("b", "Ref", [Plain EXCEPT !.named = n, !.proto = p], <<>>)>> :
                              n \in {"X", "Y"}, p \in {None, "sint32"}}}

(* The schemas, their nodes at all depths, and the heights of these. *)
WithChildren(nodes) == nodes \cup UNION {Range(x.ch) : x \in nodes}
AllNodes == WithChildren(WithChildren(WithChildren(Versions \cup Schemas \cup {EventSchema})))
MCNodes == AllNodes
MCNames == {n.key : n \in MCNodes} \cup DOMAIN MCNormalName \cup {""}
MCHeight[x \in MCNodes] == 1 + Max({MCHeight[c] : c \in Range(x.ch)} \cup {0})

DiffTasks == [do : {"diff"}, old : Versions, new : Versions]

VarintTasks ==
    {[do |-> "varint", bytes |-> more \o last] :
        more \in UNION {[1 .. k -> {More, 2 * More - 1}] : k \in 0 .. LastIndex + 1},
        last \in {<<>>} \cup {<<x>> : x \in {0, 1, 2, More - 1}}
                 \cup {<<x, 1>> : x \in {0, 1, 2}}}

----------------------------------------------------------------------------
(* Protobuf payloads come as JSON, the files' as CBOR. *)
Transfer(format, x, fields, reorder) ==
    [do |-> "transfer", format |-> format, tree |-> x, fields |-> fields,
     reorder |-> reorder, cbor |-> format \in {"avro", "parquet", "hdf5", "capnproto"}]

Zeros(l) == [i \in 1 .. l |-> 0]
Edges == {0, 1, 2, 3, 4} \cup UNION {{MaxUint(w), MaxInt(w), MaxInt(w) + 1} : w \in {1, 2, 4, 8}}
         \cup {MaxUint(w) + 1 : w \in {1, 2, 4}}
Signed == {x \in Edges \cup {-x : x \in Edges} : InInt(x, 8)} \cup {MinInt(8)}

Scalars ==
    {NumberTree(<<>>, "Int64", "int64", x) : x \in Signed}
    \cup {NumberTree(<<>>, "UInt64", "uint64", x) : x \in Edges}
    \cup UNION {{TextTree(<<>>, Zeros(l)), BytesTree(<<>>, Zeros(l))} :
                   l \in {0, 1, 2, 3, 4, 15, 16}}
    \cup {NullTree(<<>>), BoolTree(<<>>, 0), BoolTree(<<>>, 1), TextTree(<<>>, <<Radix - 1>>),
          NumberTree(<<>>, "Float64", "float64", 258),
          NumberTree(<<>>, "Float32", "float32", 9)}

One == NumberTree(<<>>, "Int64", "int64", 1)
List(l) == Container(<<>>, "Array", [i \in 1 .. l |-> One])
Key(x, k) == [x EXCEPT !.key = k]
Keyed(l) == Container(<<>>, "Map", [i \in 1 .. l |-> Key(One, <<i % 3, (i \div 3) % 3, i \div 9>>)])
Nested == {Container(<<>>, "Array", <<Keyed(1), List(2)>>),
           Container(<<>>, "Map", <<Key(Keyed(1), <<1>>), Key(List(1), <<>>)>>),
           Container(<<>>, "Array", <<Container(<<>>, "Array", <<List(1)>>)>>),
           Container(<<>>, "Array",
                     <<Container(<<>>, "Array", <<Container(<<>>, "Array", <<List(0)>>)>>)>>)}

----------------------------------------------------------------------------
Proto(number, type, ch) == [key |-> <<10 + number>>, type |-> type, number |-> number,
                            ch |-> ch]
At32 == {0, 1, MaxInt(4)}
Below32 == At32 \cup {-1, MinInt(4)}
ProtoValues ==
    {<<type, Tree(<<>>, t, "int32", x, <<>>, <<>>)>> : x \in Below32,
        <<type, t>> \in {<<"int32", "Int32">>, <<"sint32", "SInt32">>, <<"sfixed32", "SFixed32">>}}
    \cup {<<type, Tree(<<>>, t, "int64", x, <<>>, <<>>)>> : x \in {0, 1, -1, MaxInt(8), MinInt(8)},
        <<type, t>> \in {<<"int64", "Int64">>, <<"sint64", "SInt64">>, <<"sfixed64", "SFixed64">>}}
    \cup {<<type, Tree(<<>>, t, "uint32", x, <<>>, <<>>)>> : x \in At32 \cup {MaxUint(4)},
        <<type, t>> \in {<<"uint32", "UInt32">>, <<"fixed32", "Fixed32">>}}
    \cup {<<type, Tree(<<>>, t, "uint64", x, <<>>, <<>>)>> : x \in {0, MaxInt(8), MaxUint(8)},
        <<type, t>> \in {<<"uint64", "UInt64">>, <<"fixed64", "Fixed64">>}}
    \cup {<<"float", NumberTree(<<>>, "Float32", "float32", 77)>>,
          <<"double", NumberTree(<<>>, "Float64", "float64", 777)>>,
          <<"enum", Tree(<<>>, "Enum", "string", 0, <<5>>, <<>>)>>,
          <<"enum", Tree(<<>>, "Enum", "string", 0, <<6>>, <<>>)>>,
          <<"enum", Tree(<<>>, "Enum", "int32", 1, <<>>, <<>>)>>,
          <<"bool", BoolTree(<<>>, 0)>>, <<"bool", BoolTree(<<>>, 1)>>}
    \cup {<<"string", TextTree(<<>>, Zeros(l))>> : l \in {0, 1, 7, 8}}
    \cup {<<"bytes", BytesTree(<<>>, [i \in 1 .. l |-> 15])>> : l \in {0, 1, 7, 8}}

StreamTasks ==
    {Transfer(format, x, <<>>, FALSE) :
        format \in {"msgpack", "cbor"},
        x \in Scalars \cup Nested \cup {v[2] : v \in ProtoValues} \cup {List(l) : l \in {0, 1, 2, 3, 6, 7, 8, 15, 16}}
              \cup {Keyed(l) : l \in {0, 1, 2, 3, 4, 5, 15, 16}}}
    \cup {Transfer("cbor", Keyed(3), <<>>, TRUE)}

Message(a, b) == Container(<<>>, "Map", <<Key(a, <<11>>), Key(b, <<12>>)>>)
EnumValues == <<[key |-> <<5>>, number |-> 0], [key |-> <<6>>, number |-> 1]>>
ValueField(n, v) == Proto(n, v[1], IF v[1] = "enum" THEN EnumValues ELSE <<>>)
Fixed32Value == <<"fixed32", NumberTree(<<>>, "Fixed32", "uint32", 3)>>

ProtoTasks ==
    {Transfer("protobuf", Message(v[2], Fixed32Value[2]),
              <<ValueField(2, Fixed32Value), ValueField(1, v)>>, FALSE) : v \in ProtoValues}
    \cup {Transfer("protobuf", Message(Message(v[2], v[2]), NullTree(<<>>)),
                   <<Proto(1, "message", <<ValueField(1, v), ValueField(2, v)>>),
                     Proto(2, "int32", <<>>)>>, TRUE) : v \in ProtoValues}
    \cup UNION {{Transfer("protobuf", Message(Container(<<>>, "Array", list), Fixed32Value[2]),
                          <<ValueField(1, v), ValueField(2, Fixed32Value)>>, FALSE) :
                    list \in {<<>>, <<v[2]>>} \cup {<<v[2], w[2]>> :
                                w \in {u \in ProtoValues : u[1] = v[1]}}} : v \in ProtoValues}
    \cup {Transfer("protobuf", Message(Container(<<>>, "Array", <<NullTree(<<>>), One>>), One),
                   <<Proto(1, "int64", <<>>), Proto(2, "int64", <<>>)>>, FALSE)}

----------------------------------------------------------------------------
(* Files hold records; they come as CBOR, which ValidateCBORTarget checks. *)
FieldValues ==
    {v[2] : v \in ProtoValues}
    \cup {NullTree(<<>>), NumberTree(<<>>, "UInt64", "uint64", MaxInt(8) + 1)}
Records(a, l) == Container(<<>>, "Array", [i \in 1 .. l |-> Message(a, One)])
Columns(a) == <<[key |-> <<12>>, t |-> "Int64"], [key |-> <<11>>, t |-> a.t]>>
Others == {One, Message(List(1), One), Message(Keyed(1), One)}
          \cup {List(l) : l \in {0, 1, 2}}
          \cup {Container(<<>>, "Array", [i \in 1 .. l |-> Keyed(k)]) :
                   k \in {0, 1, 3}, l \in {1, 2, 3}}
          \cup {Keyed(0), Container(<<>>, "Array", <<Keyed(1), Keyed(2)>>)}

AvroTasks ==
    UNION {{Transfer("avro", Message(a, One), <<>>, TRUE),
            Transfer("avro", Records(a, 1), <<>>, TRUE),
            Transfer("avro", Records(a, 2), <<>>, FALSE),
            Transfer("avro", Records(a, 2), Columns(a), TRUE)} : a \in FieldValues}

ColumnTasks ==
    UNION {{Transfer(f, Message(a, One), <<>>, TRUE), Transfer(f, Records(a, 1), <<>>, FALSE),
            Transfer(f, Records(a, 2), <<>>, TRUE),
            Transfer(f, Records(a, 2), Columns(a), FALSE)} :
              f \in {"parquet", "hdf5"}, a \in FieldValues}
OtherTasks == {Transfer(f, x, <<>>, FALSE) : f \in {"avro", "parquet", "hdf5"}, x \in Others}

StructFields(a, b) == <<[key |-> <<11>>, t |-> a.t], [key |-> <<12>>, t |-> b.t]>>
StructTasks ==
    {Transfer("capnproto", Message(a, b), StructFields(a, b), TRUE) :
        a \in FieldValues, b \in {One, TextTree(<<>>, <<2>>), BytesTree(<<>>, Zeros(8))}}
    \cup {Transfer("capnproto", List(1), <<>>, FALSE)}

MCTasks == CoerceTasks \cup ProjectTasks \cup SelectTasks \cup DiffTasks \cup VarintTasks
           \cup StreamTasks \cup ProtoTasks \cup AvroTasks \cup ColumnTasks \cup OtherTasks
           \cup StructTasks

(* Two records with the same fields, decoded in any order. *)
MCAvroTasks ==
    {Transfer("avro", Container(<<>>, "Array", <<Message(a, TextTree(<<>>, <<2>>)),
                                                 Message(a, TextTree(<<>>, <<3>>))>>),
              <<>>, TRUE) : a \in FieldValues}
=============================================================================
