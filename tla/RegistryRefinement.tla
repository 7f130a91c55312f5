-------------------------- MODULE RegistryRefinement --------------------------
(***************************************************************************)
(* The registry with its file implements DurableStore: the store is what a *)
(* restart would load, whatever the file is.                               *)
(***************************************************************************)
EXTENDS Registry

(* The versions of a list, without their flags. *)
Hashes(vs) == [i \in DOMAIN vs |-> vs[i].version]

VersionsOf(lists, act) ==
    [n \in Names |-> [list |-> Hashes(lists[n]), active |-> act[n]]]

(* What a restart would load from f. *)
Contents(f) ==
    IF f \in File THEN VersionsOf(LoadedLists(f), LoadedActive(f))
    ELSE VersionsOf(NoSchemas, NothingActive)

Stored == Contents(disk)

Durable == INSTANCE DurableStore
               WITH store <- Stored,
                    served <- IF Serving THEN VersionsOf(schemas, active) ELSE None

(* Every operation is atomic and durable (Register, Activate and           *)
(* DeleteVersion with saveToFileLocked and LoadFromFile): a process killed *)
(* at any point leaves the store as it was before an operation or after    *)
(* it, and the memory of a running server agrees with the store.  It is    *)
(* about saves that work; what a failed one leaves is the subject of       *)
(* RegistryInv.                                                            *)
ImplementsDurableStore == Durable!Spec
=============================================================================
