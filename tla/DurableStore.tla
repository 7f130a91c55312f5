---------------------------- MODULE DurableStore ----------------------------
(***************************************************************************)
(* What the registry promises when saving works: its operations are atomic *)
(* on a durable store, whatever moment the process is killed at, and a     *)
(* running server that is not inside an operation serves exactly what is   *)
(* stored.  Files, restarts and the flags of entries are not visible here. *)
(***************************************************************************)
EXTENDS Integers, FiniteSetsExt, Functions

CONSTANTS Names, Versions, MaxSlot, None

VARIABLES
    store,   \* the versions of every name, by slot, and the active one
    served   \* what readers are given, None while there is nobody to ask

storeVars == <<store, served>>

Content == [list : UNION {[S -> Versions] : S \in SUBSET (1 .. MaxSlot)},
            active : Versions \cup {None}]

Newest(list) == IF DOMAIN list = {} THEN 0 ELSE Max(DOMAIN list)

(* The content of a name after an operation with version v. *)
WithNew(c, v) ==
    LET new == Newest(c.list) + 1
    IN  [list |-> [i \in DOMAIN c.list \cup {new} |-> IF i = new THEN v ELSE c.list[i]],
         active |-> v]

WithActive(c, v) == [list |-> c.list, active |-> v]

(* When the active version goes, the newest one that is left takes over. *)
WithoutVersion(c, v) ==
    LET left == Restrict(c.list, {i \in DOMAIN c.list : c.list[i] # v})
    IN  [list |-> left,
         active |-> IF DOMAIN left = {} THEN None
                    ELSE IF c.active = v THEN left[Newest(left)]
                    ELSE c.active]

Register(n, v) == store' = [store EXCEPT ![n] = WithNew(@, v)]

Activate(n, v) ==
    /\ v \in Range(store[n].list)
    /\ store' = [store EXCEPT ![n] = WithActive(@, v)]

Delete(n, v) == store' = [store EXCEPT ![n] = WithoutVersion(@, v)]

Init == /\ store \in [Names -> Content]
        /\ served \in {None, store}

(* Readers see nothing between the begin of an operation and its end. *)
Next == /\ \/ UNCHANGED store
           \/ \E n \in Names, v \in Versions :
                  Register(n, v) \/ Activate(n, v) \/ Delete(n, v)
        /\ served' \in {None, store'}

Spec == Init /\ [][Next]_storeVars
=============================================================================
