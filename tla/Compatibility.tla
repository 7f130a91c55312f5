--------------------------- MODULE Compatibility ---------------------------
(***************************************************************************)
(* The comparison of schema versions in internal/uir/schema.go.            *)
(*                                                                         *)
(* A schema is a tree of nodes [key, t, ann, ch], where ann has the        *)
(* annotations that are compared: named (gql_type) and proto (proto_type). *)
(* Recursions are functions, because the proofs need them.                 *)
(***************************************************************************)
EXTENDS Integers, Sequences, Functions

CONSTANTS
    Nodes,      \* the nodes of the schemas that are compared
    Height      \* of a node: that of its tree

(* Schemas are finite, and the fields of one object have different names.  *)
ASSUME NodesAssumption ==
    /\ Height \in [Nodes -> Nat]
    /\ \A n \in Nodes :
           /\ n.ch \in Seq(Nodes)
           /\ \A i \in DOMAIN n.ch : Height[n.ch[i]] < Height[n]
           /\ \A i, j \in DOMAIN n.ch : n.ch[i].key = n.ch[j].key => i = j

Keys(d) == {d.ch[i].key : i \in DOMAIN d.ch}

(* An index of the children by key keeps the last of those with one key. *)
Indexed(d, k) == LET last == CHOOSE i \in DOMAIN d.ch :
                         /\ d.ch[i].key = k
                         /\ \A j \in DOMAIN d.ch : j > i => d.ch[j].key # k
                 IN  d.ch[last]

Change(p, k) == [path |-> p, kind |-> k]

(* The defect: the types that annotations name are not compared. *)
DiffersInType(a, b) == a.t # b.t

Differs(a, b) == <<a.t, a.ann.named, a.ann.proto>> # <<b.t, b.ann.named, b.ann.proto>>

FieldPaths == Seq({n.key : n \in Nodes})

(* DiffRecursive: the changes from a to b, each with its path (a list of   *)
(* changes in any order; an added or removed field is listed twice).  The  *)
(* root's own type is not compared.                                        *)
DiffWalk[walk \in FieldPaths \X Nodes \X Nodes] ==
    LET path == walk[1]
        a == walk[2]
        b == walk[3]
        of(k) == CASE k \notin Keys(a) -> {Change(Append(path, k), "added")}
                   [] k \notin Keys(b) -> {Change(Append(path, k), "removed")}
                   [] OTHER -> DiffWalk[<<Append(path, k), Indexed(a, k), Indexed(b, k)>>]
    IN  (IF Differs(a, b) /\ path # <<>> THEN {Change(path, "changed")} ELSE {})
        \cup UNION {of(k) : k \in Keys(a) \cup Keys(b)}

CompatibilityClass(old, new) ==
    LET kinds == {c.kind : c \in DiffWalk[<<<<>>, old, new>>]}
    IN  CASE kinds = {} -> "full"
          [] kinds = {"added"} -> "backward"
          [] kinds = {"removed"} -> "forward"
          [] OTHER -> "breaking"
=============================================================================
