----------------------------- MODULE Selections -----------------------------
(***************************************************************************)
(* The selections of a subscription: how a query is accepted and what of   *)
(* an event it gets (internal/stream/graphql.go and broker_filter.go, with *)
(* SelectOperation and projectEventToNode of broker.go).                   *)
(*                                                                         *)
(* A selection is a field [kind, name, alias, sels], a spread [kind, name] *)
(* or an inline fragment [kind, sels]; fragments maps names to selections, *)
(* which do not spread themselves.                                         *)
(***************************************************************************)
EXTENDS Projection, SequencesExt, TLC

SelectOperation(ops, name) ==
    LET named == SelectSeq(ops, LAMBDA op : op.name = name)
        hits == IF name # None THEN named ELSE ops
    IN  IF hits = <<>> \/ (name = None /\ Len(ops) > 1) THEN None ELSE hits[1]

SelectSubscription(ops, name) ==
    LET op == SelectOperation(ops, name)
    IN  IF op = None THEN None ELSE IF op.type = "subscription" THEN op ELSE None

(* Node.ChildByKey: the first child with a key. *)
ChildByKey(node, k) == LET hits == SelectSeq(node.ch, LAMBDA c : c.key = k)
                       IN  IF hits = <<>> THEN None ELSE hits[1]

(* RootFieldsFromOp: fields of the type Subscription; None is the error. *)
RootFieldsFromOp(op, schema) ==
    LET subType == FindNamedType(schema, "Subscription")
    IN  IF /\ op.sels # <<>> /\ subType # None
           /\ \A sel \in Range(op.sels) :
                  sel.kind = "field" /\ ChildByKey(subType, sel.name) # None
        THEN op.sels ELSE None

(* ReturnTypeForEvent: the type of a field of Subscription. *)
ReturnTypeForEvent(schema, name) ==
    LET field == ChildByKey(FindNamedType(schema, "Subscription"), name)
    IN  IF field.ann.named = None THEN field ELSE FindNamedType(schema, field.ann.named)

RECURSIVE ExpandSelections(_, _)
ExpandSelections(sels, fragments) ==
    LET one(s) == CASE s.kind = "field" -> <<s>>
                    [] s.kind = "spread" ->
                           IF s.name \in DOMAIN fragments
                           THEN ExpandSelections(fragments[s.name], fragments) ELSE <<>>
                    [] s.kind = "inline" -> ExpandSelections(s.sels, fragments)
    IN  FoldLeft(LAMBDA acc, s : acc \o one(s), <<>>, sels)

(* ValidateSelections: every field is one of its type's, at every depth. *)
RECURSIVE ValidateSelections(_, _, _, _)
ValidateSelections(n, sels, fragments, schema) ==
    LET target(c) == LET t == ResolveNamed(c.ann.named, schema)
                     IN  IF t = None THEN c ELSE t
    IN  \A f \in Range(ExpandSelections(sels, fragments)) :
            /\ f.name \in Keys(n)
            /\ ValidateSelections(target(Indexed(n, f.name)), f.sels, fragments, schema)

(* The defect: the selections within a selected object are not applied. *)
FilterBySelectionFlat(n, sels, fragments) ==
    LET fields == ExpandSelections(sels, fragments)
        picked(c) == SelectSeq(fields, LAMBDA f : f.name = c.key)
        one(c) == [c EXCEPT !.key = IF Last(picked(c)).alias = None THEN @
                                    ELSE Last(picked(c)).alias]
        kept == SelectSeq(n.ch, LAMBDA c : picked(c) # <<>>)
    IN  IF n.t # "Map" THEN n ELSE [n EXCEPT !.ch = [i \in DOMAIN kept |-> one(kept[i])]]

(* filterBySelection: the selected children of an object, renamed to their *)
(* alias; the last selection of a name counts.                             *)
RECURSIVE FilterBySelection(_, _, _)
FilterBySelection(n, sels, fragments) ==
    LET fields == ExpandSelections(sels, fragments)
        picked(c) == SelectSeq(fields, LAMBDA f : f.name = c.key)
        one(c) == LET f == Last(picked(c))
                      node == IF c.t = "Map" /\ f.sels # <<>>
                              THEN FilterBySelection(c, f.sels, fragments) ELSE c
                  IN  [node EXCEPT !.key = IF f.alias = None THEN @ ELSE f.alias]
        kept == SelectSeq(n.ch, LAMBDA c : picked(c) # <<>>)
    IN  IF n.t # "Map" THEN n ELSE [n EXCEPT !.ch = [i \in DOMAIN kept |-> one(kept[i])]]

(* projectEventToNode for a root field of a subscription: outcomes.  The   *)
(* plan cache's key leaves out the options, so a plan that another request *)
(* has compiled for these types brings its own (GetOrCompilePlan): those   *)
(* of morphHandler differ in EmitNullForMissing only.  cached is that of   *)
(* the plan in the cache, or None.  A root field without selections is     *)
(* filtered by those of the operation.                                     *)
ProjectEventToNode(data, rf, sub) ==
    LET target == IF sub.target = "graphql" THEN ReturnTypeForEvent(sub.schema, rf.name)
                  ELSE ResolvePayloadType(sub.schema, IF sub.type = None THEN rf.name
                                                      ELSE sub.type)
        opts == [unknown |-> "ignore",
                 emitNull |-> IF sub.cached = None THEN TRUE ELSE sub.cached,
                 lossiness |-> "strict", bytes |-> "base64", match |-> "snake"]
        sels == IF rf.sels = <<>> THEN sub.op.sels ELSE rf.sels
    IN  IF target = None THEN {Failed}
        ELSE {IF r.ok THEN [r EXCEPT !.node = FilterBySelection(@, sels, sub.fragments)]
              ELSE r : r \in ProjectNode(data, target, opts, sub.schema)}
=============================================================================
