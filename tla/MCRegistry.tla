----------------------------- MODULE MCRegistry -----------------------------
(***************************************************************************)
(* Instances of Registry for TLC.                                          *)
(***************************************************************************)
EXTENDS RegistryRefinement

CONSTANTS n1, n2, v1, v2

StoredEntry(v, a, d) ==
    [version |-> v, active |-> a, deprecated |-> d, loads |-> TRUE]

(* An entry of a file another build of the program wrote: rebuildRoot does *)
(* not know its format (TestLoadFailsOnUnknownFormat).                     *)
Foreign(v, a) == [StoredEntry(v, a, FALSE) EXCEPT !.loads = FALSE]

(* A file of storage format 1: a bare array, without active map and flags. *)
LegacyFile ==
    [legacy  |-> TRUE,
     schemas |-> [n \in Names |-> IF n = n1
                    THEN <<StoredEntry(v1, FALSE, FALSE), StoredEntry(v2, FALSE, TRUE)>>
                    ELSE <<>>],
     active  |-> NothingActive]

GoodFiles == {None, LegacyFile}

(* A file whose second entry for n1 cannot be rebuilt; n2 precedes it.     *)
ForeignFile ==
    [legacy  |-> FALSE,
     schemas |-> [n \in Names |-> IF n = n1
                    THEN <<StoredEntry(v1, FALSE, FALSE), Foreign(v2, TRUE)>>
                    ELSE <<StoredEntry(v1, TRUE, FALSE)>>],
     active  |-> [n \in Names |-> IF n = n1 THEN v2 ELSE v1]]

(* A file whose active map mentions no name.                               *)
PartialMapFile ==
    [legacy  |-> FALSE,
     schemas |-> LegacyFile.schemas,
     active  |-> NothingActive]

BadFiles == {ForeignFile, PartialMapFile, Torn}

AllFiles == GoodFiles \cup BadFiles
=============================================================================
