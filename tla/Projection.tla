---------------------------- MODULE Projection ----------------------------
(***************************************************************************)
(* Projection of data onto a schema (internal/uir/project.go), and         *)
(* selection of the payload type (internal/uir/schema.go).                 *)
(*                                                                         *)
(* A data node is [key, t, val, ch].  A null node has type "Null"; a field *)
(* that is missing has no node.  A schema node is [key, t, ann, ch], where *)
(* ann has the annotations that matter: nonNull, default (a value of text  *)
(* or None), number (proto_number), alias, named (gql_type), element (the  *)
(* field ElementType), kind and proto (proto_type); None is an empty one.  *)
(* Recursions are functions, because the proofs need them.                 *)
(***************************************************************************)
EXTENDS Coercion, Compatibility

CONSTANTS
    None,
    NormalName, \* normalizeName of each name
    FoldName,   \* the names that strings.EqualFold identifies, by a number
    Names,      \* the names that data and schemas use
    Deep        \* the depth of the data that is projected

Data(k, t, v, c) == [key |-> k, t |-> t, val |-> v, ch |-> c]
NullData(k) == Data(k, "Null", Value("nil", 0), <<>>)

Objects == {"Map", "Union", "Interface", "Definition"}
NamedKinds == Objects \cup {"Enum"}
Types == ScalarTypes \cup Objects \cup {"Array", "Ref", "Unknown"}

(* The data of at most h levels. *)
DataTrees[h \in Nat] ==
    IF h = 0 THEN {}
    ELSE [key : Names, t : Types \cup {None}, val : Values, ch : Seq(DataTrees[h - 1])]

(* The nodes that data is projected with: those of a schema, and fields    *)
(* that have got the type they name.                                       *)
Views == [key : Names, t : Types, ann : {n.ann : n \in Nodes}, ch : Seq(Nodes)]

ASSUME SchemaAssumption ==
    /\ Deep \in Nat
    /\ None \notin DataTrees[Deep + 2]
    /\ Nodes \subseteq Views
    /\ \A n \in Nodes : /\ n.ann.default # None => n.ann.default \in Values
                        /\ n.ann.element \in Types \cup {None}

----------------------------------------------------------------------------
(* Node.FindNamedType, depth first; None when there is no such type. *)
Finding(name) ==
    LET find[x \in Nodes] ==
            LET hits == {i \in DOMAIN x.ch : find[x.ch[i]] # None}
            IN  IF x.key = name /\ x.t \in NamedKinds THEN x
                ELSE IF hits = {} THEN None
                ELSE find[x.ch[CHOOSE i \in hits : \A j \in hits : i <= j]]
    IN  find

FindNamedType(node, name) == Finding(name)[node]

ResolveNamed(name, root) == IF name = None THEN None ELSE FindNamedType(root, name)

WrapperKeys == {"proto_root", "graphql_root", "capnp_root", "schema"}

SkipSchemaWrapper(node) ==
    \/ node.key \in WrapperKeys
    \/ node.ann.kind \in {"schema", "service", "fragment", "scalar", "rpc"}

PayloadCandidates(schema) ==
    {i \in DOMAIN schema.ch :
        /\ ~SkipSchemaWrapper(schema.ch[i])
        /\ schema.ch[i].key \notin {"Query", "Mutation", "Subscription"}}

(* The node that a payload is projected with; None is the error. *)
ResolvePayloadType(schema, name) ==
    LET candidates == PayloadCandidates(schema)
    IN  IF name # None THEN FindNamedType(schema, name)
        ELSE IF /\ ~SkipSchemaWrapper(schema)
                /\ ~(schema.key = "Root" /\ schema.ch # <<>> /\ schema.ch[1].t = "Map")
             THEN schema
        ELSE IF candidates = {} THEN schema
        ELSE IF \E i \in candidates : candidates = {i}
             THEN schema.ch[CHOOSE i \in candidates : TRUE]
        ELSE None

----------------------------------------------------------------------------
(* Projection: sets of outcomes, a node (None: no node) or an error, with  *)
(* the worst kind added to the report.                                     *)

Done(n, k) == [ok |-> TRUE, node |-> n, kind |-> k]
Failed == [ok |-> FALSE, node |-> None, kind |-> Unsupported]

Required(s) == s.ann.nonNull

(* The defect: a required field without a value is left out. *)
ApplyMissingLenient(s, o) ==
    IF s.ann.default = None
    THEN {Done(IF o.emitNull THEN NullData(s.key) ELSE None, Lossless)}
    ELSE {Done(Data(s.key, s.t, IF r.ok THEN r.val ELSE s.ann.default, <<>>), r.note) :
            r \in CoerceValue(s.ann.default, "String", s.t, "safe", o.bytes)}

(* A default that does not convert stays a text. *)
ApplyMissing(s, o) ==
    IF s.ann.default # None
    THEN {Done(Data(s.key, s.t, IF r.ok THEN r.val ELSE s.ann.default, <<>>), r.note) :
            r \in CoerceValue(s.ann.default, "String", s.t, "safe", o.bytes)}
    ELSE IF Required(s) THEN {Failed}
    ELSE {Done(IF o.emitNull THEN NullData(s.key) ELSE None, Lossless)}

(* The defect: a key that only looks alike is as good as the key itself. *)
LookupDataFieldLoose(d, s, o) ==
    {Indexed(d, k) : k \in {x \in Keys(d) : NormalName[x] = NormalName[s.key]}}

(* lookupDataField: the children a schema field may take.  The loop over   *)
(* names that look alike runs in the order of a map, which is any order.   *)
LookupDataField(d, s, o) ==
    LET alike == {k \in Keys(d) : \/ NormalName[k] = NormalName[s.key]
                                  \/ /\ o.match = "fold"
                                     /\ FoldName[k] = FoldName[s.key]}
    IN  IF s.key \in Keys(d) THEN {Indexed(d, s.key)}
        ELSE IF s.ann.number \in Keys(d) THEN {Indexed(d, s.ann.number)}
        ELSE IF s.ann.alias \in Keys(d) THEN {Indexed(d, s.ann.alias)}
        ELSE IF o.match = "exact" THEN {}
        ELSE {Indexed(d, k) : k \in alike}

(* The schema of a field that names a type: the type's, with the field's   *)
(* key, requiredness and annotations.                                      *)
FieldSchema(s, root) ==
    LET named == ResolveNamed(s.ann.named, root)
    IN  IF named # None /\ (s.t = "Ref" \/ (s.t = "Map" /\ s.ch = <<>>))
        THEN [key |-> s.key, t |-> named.t, ann |-> s.ann, ch |-> named.ch]
        ELSE s

(* The schema with which projectNode goes on: the type a reference names. *)
Resolved(s, root) ==
    LET named == ResolveNamed(IF s.ann.named = None THEN s.key ELSE s.ann.named, root)
    IN  IF s.t = "Ref" /\ named # None THEN named ELSE s

(* One outcome of every member of a sequence of sets of outcomes. *)
OneOfEach(sets) == {c \in [DOMAIN sets -> UNION {sets[i] : i \in DOMAIN sets}] :
                     \A i \in DOMAIN sets : c[i] \in sets[i]}

Worst(c) == LET kinds == {Lossless} \cup {c[i].kind : i \in DOMAIN c}
            IN  CHOOSE k \in kinds : \A l \in kinds : MergeKind(k, l) = k

(* The nodes of the outcomes c that have one, in order. *)
Members(c) ==
    LET first[n \in 0 .. Len(c)] ==
            IF n = 0 THEN <<>>
            ELSE IF c[n].node = None THEN first[n - 1]
            ELSE Append(first[n - 1], c[n].node)
    IN  first[Len(c)]

(* A container whose members have the outcomes c, one error failing all. *)
Assemble(key, t, c, extra) ==
    IF \E i \in DOMAIN c : ~c[i].ok THEN Failed
    ELSE Done(Data(key, t, Value("nil", 0), Members(c) \o extra), Worst(c))

(* A value converted, and the report it leaves. *)
Converted(key, t, d, o) ==
    {IF r.ok THEN Done(Data(key, t, r.val, <<>>), MergeKind(r.kind, r.note))
     ELSE Failed : r \in CoerceValue(d.val, d.t, t, o.lossiness, o.bytes)}

ProjectScalar(d, s, o) ==
    IF d.t # "Null" THEN Converted(s.key, s.t, d, o)
    ELSE IF Required(s) THEN {Failed}
    ELSE {Done(NullData(s.key), Lossless)}

(* projectArray: elements of objects are projected, others converted. *)
Element(s) == IF s.ch = <<>> THEN s ELSE s.ch[1]
OfObjects(s) == s.ann.element = "Map" \/ Element(s).t \in {"Map", "Ref"}

ProjectArray(d, s, o, project) ==
    LET one(e) == IF OfObjects(s) THEN project[<<e, Element(s)>>]
                  ELSE Converted(e.key, s.ann.element, e, o)
    IN  IF d.t # "Array" THEN {Failed}
        ELSE {Assemble(s.key, "Array", c, <<>>) :
                c \in OneOfEach([i \in DOMAIN d.ch |-> one(d.ch[i])])}

(* The outcomes of one field of an object; used is the key it took. *)
Using(r, n, k) == [ok |-> r.ok, node |-> n, kind |-> r.kind, used |-> k]

ProjectField(d, s, o, root, project) ==
    LET found == LookupDataField(d, s, o)
        renamed(n) == IF n = None THEN None ELSE [n EXCEPT !.key = s.key]
    IN  IF found = {} THEN {Using(r, r.node, None) : r \in ApplyMissing(s, o)}
        ELSE UNION {{Using(r, renamed(r.node), f.key) :
                        r \in project[<<f, FieldSchema(s, root)>>]} : f \in found}

Unmatched(d, c) == SelectSeq(d.ch, LAMBDA x : \A i \in DOMAIN c : c[i].used # x.key)

ProjectObject(d, s, o, root, project) ==
    LET finish(c) == IF o.unknown = "strict" /\ Unmatched(d, c) # <<>> THEN Failed
                     ELSE Assemble(s.key, "Map", c,
                                   IF o.unknown = "preserve" THEN Unmatched(d, c) ELSE <<>>)
    IN  {finish(c) :
            c \in OneOfEach([i \in DOMAIN s.ch |-> ProjectField(d, s.ch[i], o, root, project)])}

(* The data may itself be the result of a projection: a field that was     *)
(* missing makes it deeper by one.                                         *)
Inputs == DataTrees[Deep + 1] \X Views

(* projectNode *)
Projecting(o, root) ==
    LET project[x \in Inputs] ==
            LET d == x[1]
                s == Resolved(x[2], root)
            IN  CASE s.t = "Array" -> ProjectArray(d, s, o, project)
                  [] s.t \in Objects -> ProjectObject(d, s, o, root, project)
                  [] OTHER -> ProjectScalar(d, s, o)
    IN  project

ProjectNode(d, s, o, root) == Projecting(o, root)[<<d, s>>]
=============================================================================
