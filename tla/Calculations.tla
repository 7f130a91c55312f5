---------------------------- MODULE Calculations ----------------------------
(***************************************************************************)
(* Calculations on numbers and schemas as behaviours: varints that are     *)
(* read, versions of a schema that are compared, and data that is          *)
(* projected on a schema, once and again.                                  *)
(***************************************************************************)
EXTENDS Conversions, Varints, Projection

VARIABLE tree   \* the result of the first projection

(* Bytes are bytes, and schemas and data are those that there are. *)
ASSUME CalculationAssumption ==
    \A t \in Tasks : /\ t.do = "varint" => t.bytes \in Seq(0 .. 2 * More - 1)
                     /\ t.do = "diff" => t.old \in Nodes /\ t.new \in Nodes
                     /\ t.do = "project" => t.schema \in Nodes /\ t.data \in DataTrees[Deep]

ReadNumber ==
    /\ At("varint", "start", "done")
    /\ output' = DecodeVarint(task.bytes)
    /\ UNCHANGED tree

Compare ==
    /\ At("diff", "start", "done")
    /\ output' = CompatibilityClass(task.old, task.new)
    /\ UNCHANGED tree

(* ResolvePayloadType, then Project with the type it gives. *)
Projections(data) ==
    LET type == ResolvePayloadType(task.schema, task.type)
    IN  IF type = None THEN {Failed} ELSE ProjectNode(data, type, task.opts, task.schema)

Project ==
    /\ At("project", "start", "projected")
    /\ output' \in Projections(task.data)
    /\ UNCHANGED tree

(* Projecting the result again. *)
ProjectAgain ==
    /\ At("project", "projected", "done")
    /\ output.ok
    /\ tree' = output.node
    /\ output' \in Projections(output.node)

(* The behaviours of the calculations, with no result before their end. *)
CalculationInit == task \in Tasks /\ stage = "start"

CalculationSpec ==
    CalculationInit
    /\ [][ReadNumber \/ Compare \/ Project \/ ProjectAgain]_<<task, stage, tree, output>>

----------------------------------------------------------------------------
(* A varint that is accepted has the number its bytes denote: no bits are  *)
(* lost at the width of 64, and every number that fits is accepted in the  *)
(* bytes encodeVarint writes.                                              *)
VarintExact ==
    (task.do = "varint" /\ stage = "done") =>
        LET first(l) == SubSeq(task.bytes, 1, l)
        IN  IF output.ok THEN Denoted(first(output.len)) = output.x
            ELSE ~\E l \in DOMAIN task.bytes :
                      /\ Denoted(first(l)) < Pow2[VarBits]
                      /\ first(l) = EncodeVarint(Denoted(first(l)))

(* A value of a declared type.  A number that becomes a Boolean keeps its  *)
(* own type unless it is an int64 (ToBoolean).                             *)
HasType(v, t) == t \in ScalarTypes \ {"Boolean"} => v.go \in GoOf(t)

(* The value of a missing field; a default that does not convert is text.  *)
Defaulted(x, s) == /\ s.ann.default # None
                   /\ x.t = s.t /\ x.ch = <<>>
                   /\ HasType(x.val, s.t) \/ x.val = s.ann.default

(* The members of an object are fields of its schema, in the schema's      *)
(* order and each once: place says which.                                  *)
Placing(x, s, place) ==
    /\ \A i, j \in DOMAIN x.ch : i < j => place[i] < place[j]
    /\ \A i \in DOMAIN x.ch : x.ch[i].key = s.ch[place[i]].key
    /\ \A j \in DOMAIN s.ch : Required(s.ch[j]) => \E i \in DOMAIN x.ch : place[i] = j

Results == DataTrees[Deep + 2] \X Views

(* Which results fit a schema: null only where it is allowed, values of    *)
(* the declared types, elements and fields that fit theirs.                *)
Fitting(root) ==
    LET fits[p \in Results] ==
            LET x == p[1]
                s == Resolved(p[2], root)
                element(e) == IF OfObjects(s) THEN fits[<<e, Element(s)>>]
                              ELSE e.t = s.ann.element /\ HasType(e.val, e.t)
                field(e, f) == \/ e.t = "Null" /\ ~Required(f)
                               \/ Defaulted(e, f)
                               \/ fits[<<e, FieldSchema(f, root)>>]
            IN  CASE s.t = "Array" -> x.t = "Array" /\ \A i \in DOMAIN x.ch : element(x.ch[i])
                  [] s.t \in Objects ->
                         /\ x.t = "Map"
                         /\ \E place \in [DOMAIN x.ch -> DOMAIN s.ch] :
                                /\ Placing(x, s, place)
                                /\ \A i \in DOMAIN x.ch : field(x.ch[i], s.ch[place[i]])
                  [] OTHER -> \/ x.t = "Null" /\ ~Required(s)
                              \/ x.t = s.t /\ HasType(x.val, s.t)
    IN  fits

(* Projection gives only declared fields, in the schema's order, each once *)
(* and of its declared type, and every required one (project.go:57-59), at *)
(* every depth and whatever the data has: missing and null fields, names   *)
(* that look alike, objects in objects and arrays of them.                 *)
ProjectionFits ==
    (/\ task.do = "project" /\ stage \in {"projected", "done"}
     /\ task.opts.unknown # "preserve" /\ output.ok) =>
        Fitting(task.schema)[<<output.node, ResolvePayloadType(task.schema, task.type)>>]

(* The declarations of a schema: what all nodes below it are, by path. *)
Declared(path, x) == <<path, x.t, x.ann.named, x.ann.proto>>
Paths[place \in FieldPaths \X Nodes] ==
    LET under(c) == Append(place[1], c.key)
    IN  UNION {{Declared(under(c), c)} \cup Paths[<<under(c), c>>] : c \in Range(place[2].ch)}

(* The class of two versions says which one's declarations contain the     *)
(* other's: added fields are backward, removed ones forward, and any       *)
(* change of a type at any depth is breaking.  A declaration is a path with*)
(* its type, named type and Protobuf type; whether a field may be null and *)
(* the type of an array's elements are no part of it.                      *)
ClassIsContainment ==
    (task.do = "diff" /\ stage = "done") =>
        LET old == Paths[<<<<>>, task.old>>]
            new == Paths[<<<<>>, task.new>>]
        IN  output = CASE old = new -> "full"
                       [] old # new /\ old \subseteq new -> "backward"
                       [] old # new /\ new \subseteq old -> "forward"
                       [] OTHER -> "breaking"
=============================================================================
