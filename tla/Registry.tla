------------------------------ MODULE Registry ------------------------------
(***************************************************************************)
(* The schema registry of internal/registry/registry.go and the file it    *)
(* persists itself to, as the server of cmd/server/main.go drives them.    *)
(*                                                                         *)
(* The versions of a name are a Go slice of *SchemaMetadata.  Here they    *)
(* are a function from slots (positive numbers) to entries: append takes   *)
(* the slot after the last one, "the first match" is the smallest slot,    *)
(* and deleting leaves the other slots where they are, so the order of the *)
(* slots is the order of the slice.                                        *)
(*                                                                         *)
(* A mutator holds the write lock from its first assignment to the end of  *)
(* saveToFileLocked.  Its critical section is split at the two system      *)
(* calls (write the .tmp file, rename it), because the process may be      *)
(* killed between them and either call may fail.                           *)
(***************************************************************************)
EXTENDS Integers, FiniteSetsExt

CONSTANTS
    Names,         \* schema names, tenant prefix included
    Versions,      \* version hashes (SHA-256 of the parsed schema)
    MaxSlot,       \* bound: slots a name's version list may use
    InitialFiles,  \* what the storage path may hold when the model starts
    SaveMayFail,   \* whether writing or renaming the file may fail
    None,          \* no version, no operation, no file
    Torn           \* a file that is not a complete JSON document, or a
                   \* .tmp file left behind, whose content nobody reads

Slots == 1 .. MaxSlot

Entry == [version    : Versions,
          active     : BOOLEAN,
          deprecated : BOOLEAN,
          loads      : BOOLEAN]
              \* FALSE for the first entry of a file that rebuildRoot refuses
              \* and for every entry that follows it in the file

VersionList == UNION {[S -> Entry] : S \in SUBSET Slots}

(* What a complete file holds.  A legacy file has no active map.           *)
File == [legacy  : BOOLEAN,
         schemas : [Names -> VersionList],
         active  : [Names -> Versions \cup {None}]]

Op == [kind    : {"register", "activate", "deprecate", "delete"},
       name    : Names,
       version : Versions,
       prev    : Versions \cup {None}]  \* the active version before it

ASSUME ConstantsAssumption ==
    /\ MaxSlot \in Nat
    /\ SaveMayFail \in BOOLEAN
    /\ None \notin Versions /\ None \notin Op /\ None \notin File
    /\ Torn \notin File /\ Torn # None
    /\ InitialFiles \subseteq File \cup {None, Torn}

VARIABLES
    schemas,  \* Registry.schemas: the version list of every name
    active,   \* Registry.active: the active version of every name
    loaded,   \* Registry.loaded
    up,       \* the server process is running
    phase,    \* where the holder of the write lock is
    op,       \* the operation that holds the write lock
    disk,     \* the file at StoragePath
    tmp,      \* the file at StoragePath.tmp
    acked     \* history: the version of the last registration of a name
              \* answered with success, None once another operation on the
              \* name that moves its active version begins

vars == <<schemas, active, loaded, up, phase, op, disk, tmp, acked>>

TypeOK ==
    /\ schemas \in [Names -> VersionList]
    /\ active \in [Names -> Versions \cup {None}]
    /\ loaded \in BOOLEAN
    /\ up \in BOOLEAN
    /\ phase \in {"idle", "write", "rename"}
    /\ op \in Op \cup {None}
    /\ disk \in File \cup {None, Torn}
    /\ tmp \in File \cup {None, Torn}
    /\ acked \in [Names -> Versions \cup {None}]

-----------------------------------------------------------------------------
(* Version lists.                                                          *)

EmptyList == [i \in {} |-> None]

NoSchemas == [n \in Names |-> EmptyList]

NothingActive == [n \in Names |-> None]

Matches(vs, v) == {i \in DOMAIN vs : vs[i].version = v}

(* The defect: the last slot is used twice.                                *)
NextSlotOffByOne(vs) == IF DOMAIN vs = {} THEN 0 ELSE Max(DOMAIN vs)

NextSlot(vs) == IF DOMAIN vs = {} THEN 1 ELSE Max(DOMAIN vs) + 1

(* The metadata Register builds for a version it has not got.              *)
NewEntry(v) ==
    [version |-> v, active |-> TRUE, deprecated |-> FALSE, loads |-> TRUE]

(* The defect: the flags of the older versions are not cleared.            *)
RegisteredKeepingFlags(vs, v) ==
    [i \in DOMAIN vs \cup {NextSlot(vs)} |->
        IF i \in DOMAIN vs THEN vs[i] ELSE NewEntry(v)]

(* Register: clear every Active flag, then append the new metadata.        *)
Registered(vs, v) ==
    [i \in DOMAIN vs \cup {NextSlot(vs)} |->
        IF i \in DOMAIN vs THEN [vs[i] EXCEPT !.active = FALSE]
                           ELSE NewEntry(v)]

(* Register's error path: drop the last element of the slice.  The flags   *)
(* cleared before the save stay cleared.                                   *)
RolledBack(vs) == Restrict(vs, DOMAIN vs \ {Max(DOMAIN vs)})

(* Activate: the Active flag of every entry follows its version; matching  *)
(* entries also lose their Deprecated flag.                                *)
Activated(vs, v) ==
    [i \in DOMAIN vs |->
        [vs[i] EXCEPT !.active = (vs[i].version = v),
                      !.deprecated = @ /\ vs[i].version # v]]

(* Deprecate marks the first match only.                                   *)
DeprecatedAt(vs, i) == [vs EXCEPT ![i].deprecated = TRUE]

FlaggedAt(vs, i) == [vs EXCEPT ![i].active = TRUE]

(* DeleteVersion's filter.                                                 *)
Without(vs, v) == Restrict(vs, DOMAIN vs \ Matches(vs, v))

LastVersion(vs) ==
    IF DOMAIN vs = {} THEN None ELSE vs[Max(DOMAIN vs)].version

FirstVersion(vs) ==
    IF DOMAIN vs = {} THEN None ELSE vs[Min(DOMAIN vs)].version

-----------------------------------------------------------------------------
(* Reads, under the read lock.                                             *)

(* GetActive: a name's active version if some entry of the list carries it,*)
(* None for "not found".                                                   *)
GetActive(n) ==
    IF active[n] # None /\ Matches(schemas[n], active[n]) # {}
    THEN active[n] ELSE None

-----------------------------------------------------------------------------
(* The mutators.  Each one begins when the lock is free.                   *)

Serving == up /\ phase = "idle"

Begin(kind, n, v) ==
    /\ phase' = "write"
    /\ op' = [kind |-> kind, name |-> n, version |-> v,
              prev |-> active[n]]
    /\ acked' = IF kind = "deprecate" THEN acked
                                      ELSE [acked EXCEPT ![n] = None]
    /\ UNCHANGED <<loaded, up, disk, tmp>>

(* Register, first return: the version is active and stored already, so    *)
(* its metadata is returned, without a save.                               *)
RegisterExisting(n, v) ==
    /\ Serving
    /\ active[n] = v
    /\ Matches(schemas[n], v) # {}
    /\ acked' = [acked EXCEPT ![n] = v]
    /\ UNCHANGED <<schemas, active, loaded, up, phase, op, disk, tmp>>

(* The rest of Register.  An old version that is not the active one is     *)
(* appended once more.                                                     *)
RegisterNew(n, v) ==
    /\ Serving
    /\ active[n] # v \/ Matches(schemas[n], v) = {}
    /\ NextSlot(schemas[n]) <= MaxSlot
    /\ schemas' = [schemas EXCEPT ![n] = Registered(@, v)]
    /\ active' = [active EXCEPT ![n] = v]
    /\ Begin("register", n, v)

Activate(n, v) ==
    /\ Serving
    /\ Matches(schemas[n], v) # {}
    /\ schemas' = [schemas EXCEPT ![n] = Activated(@, v)]
    /\ active' = [active EXCEPT ![n] = v]
    /\ Begin("activate", n, v)

(* Activate of a version the name has not got answers "version not found", *)
(* after its loop has cleared the Active flag of every other version.      *)
ActivateMissing(n, v) ==
    /\ Serving
    /\ Matches(schemas[n], v) = {}
    /\ schemas' = [schemas EXCEPT ![n] = Activated(@, v)]
    /\ UNCHANGED <<active, loaded, up, phase, op, disk, tmp, acked>>

(* Deprecate of a missing version changes nothing and has no action.       *)
Deprecate(n, v) ==
    /\ Serving
    /\ Matches(schemas[n], v) # {}
    /\ schemas' = [schemas EXCEPT
                     ![n] = DeprecatedAt(@, Min(Matches(@, v)))]
    /\ UNCHANGED active
    /\ Begin("deprecate", n, v)

(* What DeleteVersion leaves: when the active version goes, the last       *)
(* remaining one takes its place.                                          *)
Deleted(vs, v, promote) ==
    LET out == Without(vs, v)
    IN  IF promote /\ DOMAIN out # {}
        THEN FlaggedAt(out, Max(DOMAIN out))
        ELSE out

(* The defect: the active map still names the deleted version.             *)
ActiveAfterDeleteStale(vs, v, current) ==
    IF DOMAIN Without(vs, v) = {} THEN None ELSE current

ActiveAfterDelete(vs, v, current) ==
    LET out == Without(vs, v)
    IN  IF DOMAIN out = {} \/ current = v THEN LastVersion(out) ELSE current

DeleteVersion(n, v) ==
    /\ Serving
    /\ schemas' = [schemas EXCEPT ![n] = Deleted(@, v, active[n] = v)]
    /\ active' = [active EXCEPT ![n] = ActiveAfterDelete(schemas[n], v, @)]
    /\ Begin("delete", n, v)

-----------------------------------------------------------------------------
(* saveToFileLocked and the replies.                                       *)

Snapshot == [legacy |-> FALSE, schemas |-> schemas, active |-> active]

(* The defect: a file written in place.                                    *)
WriteInPlace ==
    /\ phase = "write"
    /\ disk' = Torn
    /\ tmp' = Snapshot
    /\ phase' = "rename"
    /\ UNCHANGED <<schemas, active, loaded, up, op, acked>>

WriteTemp ==
    /\ phase = "write"
    /\ tmp' = Snapshot
    /\ phase' = "rename"
    /\ UNCHANGED <<schemas, active, loaded, up, op, disk, acked>>

Renamed ==
    /\ phase = "rename"
    /\ disk' = tmp
    /\ tmp' = None
    /\ phase' = "idle"
    /\ op' = None
    /\ acked' = IF op.kind = "register"
                THEN [acked EXCEPT ![op.name] = op.version] ELSE acked
    /\ UNCHANGED <<schemas, active, loaded, up>>

(* The defect: the error is reported and the new version stays.            *)
SaveFailedKeepsVersion ==
    /\ phase' = "idle"
    /\ op' = None
    /\ UNCHANGED <<schemas, active, loaded, up, disk, acked>>

(* A failed save: Register takes its new version back, the other mutators  *)
(* keep the change in memory and only report the error.                    *)
SaveFailed ==
    /\ schemas' = IF op.kind = "register"
                  THEN [schemas EXCEPT ![op.name] = RolledBack(@)]
                  ELSE schemas
    /\ active' = IF op.kind = "register"
                 THEN [active EXCEPT ![op.name] = op.prev] ELSE active
    /\ phase' = "idle"
    /\ op' = None
    /\ UNCHANGED <<loaded, up, disk, acked>>

WriteTempFails ==
    /\ SaveMayFail
    /\ phase = "write"
    /\ tmp' \in {tmp, Torn}
    /\ SaveFailed

RenameFails ==
    /\ SaveMayFail
    /\ phase = "rename"
    /\ tmp' = Torn
    /\ SaveFailed

-----------------------------------------------------------------------------
(* main: LoadFromFile runs once, before the server listens; an error is    *)
(* only printed and the server starts all the same.                        *)

(* The defect: the rule for legacy files is applied to every file.         *)
StoredActiveLast(f) == [n \in Names |-> LastVersion(f.schemas[n])]

(* The active map of the document; for a legacy file, the last entry of    *)
(* each name.                                                              *)
StoredActive(f) ==
    IF f.legacy THEN [n \in Names |-> LastVersion(f.schemas[n])] ELSE f.active

(* LoadFromFile returns at the first entry it cannot rebuild, keeping the  *)
(* lists built so far and the whole active map.                            *)
LoadedLists(f) ==
    [n \in Names |-> Restrict(f.schemas[n],
                {i \in DOMAIN f.schemas[n] : f.schemas[n][i].loads})]

(* A name the map does not mention starts with the first version loaded.   *)
LoadedActive(f) ==
    [n \in Names |-> IF StoredActive(f)[n] # None THEN StoredActive(f)[n]
                     ELSE FirstVersion(LoadedLists(f)[n])]

Start(lists, act, ok) ==
    /\ ~up
    /\ up' = TRUE
    /\ schemas' = lists
    /\ active' = act
    /\ loaded' = ok
    /\ UNCHANGED <<phase, op, disk, tmp, acked>>

StartWithoutFile == disk = None /\ Start(NoSchemas, NothingActive, TRUE)

StartUnreadable == disk = Torn /\ Start(NoSchemas, NothingActive, FALSE)

StartFromFile ==
    /\ disk \in File
    /\ Start(LoadedLists(disk), LoadedActive(disk),
             LoadedLists(disk) = disk.schemas)

(* The process is killed.  A write in progress may leave a torn .tmp file; *)
(* rename happens entirely or not at all.                                  *)
Crash ==
    /\ up
    /\ up' = FALSE
    /\ schemas' = NoSchemas
    /\ active' = NothingActive
    /\ loaded' = FALSE
    /\ phase' = "idle"
    /\ op' = None
    /\ tmp' \in CASE phase = "idle"   -> {tmp}
               [] phase = "write"  -> {tmp, Torn}
               [] phase = "rename" -> {Torn}
    /\ UNCHANGED <<disk, acked>>

Init ==
    /\ schemas = NoSchemas
    /\ active = NothingActive
    /\ loaded = FALSE
    /\ up = FALSE
    /\ phase = "idle"
    /\ op = None
    /\ disk \in InitialFiles
    /\ tmp = None
    /\ acked = NothingActive

Next ==
    \/ \E n \in Names, v \in Versions :
         \/ RegisterExisting(n, v)
         \/ RegisterNew(n, v)
         \/ Activate(n, v)
         \/ ActivateMissing(n, v)
         \/ Deprecate(n, v)
         \/ DeleteVersion(n, v)
    \/ WriteTemp
    \/ Renamed
    \/ WriteTempFails
    \/ RenameFails
    \/ StartWithoutFile
    \/ StartUnreadable
    \/ StartFromFile
    \/ Crash

Spec == Init /\ [][Next]_vars

-----------------------------------------------------------------------------
(* Properties.                                                             *)

(* A version list and an active version agree.                             *)
Resolves(vs, a) ==
    IF a = None THEN DOMAIN vs = {} ELSE Matches(vs, a) # {}

OnlyFlags(vs, a) ==
    \A i \in DOMAIN vs : vs[i].active => vs[i].version = a

(* Lookup never dangles: in every state, also inside a critical section    *)
(* and after a failed save, a name has an active version exactly when it   *)
(* has versions, and that version is one of them (GetActive finds it).     *)
ActiveResolves == \A n \in Names : Resolves(schemas[n], active[n])

(* An entry whose Active flag is set carries the version the active map    *)
(* names: no step leaves two versions of a name marked active.             *)
FlaggedIsActive == \A n \in Names : OnlyFlags(schemas[n], active[n])

(* Every file the registry leaves behind can be loaded with all its        *)
(* lookups resolving, wherever the process was killed.                     *)
StoreResolves ==
    disk \in File =>
        \A n \in Names : Resolves(LoadedLists(disk)[n], LoadedActive(disk)[n])

(* When the lock is free, every version the registry serves from memory is *)
(* in the file: a registration whose save failed has been taken back       *)
(* completely, so nothing that is served can vanish with a crash.          *)
MemoryBackedByDisk ==
    Serving => \A n \in Names : \A i \in DOMAIN schemas[n] :
        disk \in File /\ Matches(disk.schemas[n], schemas[n][i].version) # {}

(* A save replaces the file in one step: a complete file never becomes a   *)
(* torn or a missing one.                                                  *)
StoreNeverTorn == [][(disk \in File) => (disk' \in File)]_vars

(* A registration answered with success is what a restart would make       *)
(* active, and what the running server serves, until another operation on  *)
(* the name begins.                                                        *)
AckedRegistrationDurable ==
    \A n \in Names : acked[n] # None =>
        /\ disk \in File
        /\ LoadedActive(disk)[n] = acked[n]
        /\ Matches(LoadedLists(disk)[n], acked[n]) # {}
        /\ Serving => GetActive(n) = acked[n]

-----------------------------------------------------------------------------
(* The inductive invariant behind the four state invariants above.         *)

(* A file written by this program, or a legacy file: every entry loads.    *)
WholeFile(f) ==
    \A n \in Names :
        /\ \A i \in DOMAIN f.schemas[n] : f.schemas[n][i].loads
        /\ Resolves(f.schemas[n], LoadedActive(f)[n])
        /\ OnlyFlags(f.schemas[n], LoadedActive(f)[n])

(* The hypothesis of the theorems on the file the server finds first.      *)
InitialFilesWhole == \A f \in InitialFiles : f \in File => WholeFile(f)

Registering(n) == op # None /\ op.kind = "register" /\ op.name = n

LockInv ==
    /\ phase = "idle" <=> op = None
    /\ phase # "idle" => up
    /\ phase = "rename" => tmp = Snapshot
    /\ ~up => schemas = NoSchemas /\ active = NothingActive

(* What the error path of Register finds: the new entry is the last one,   *)
(* and without it the list agrees with the active version to restore.      *)
RollbackInv ==
    \A n \in Names : Registering(n) =>
        /\ DOMAIN schemas[n] # {}
        /\ Resolves(RolledBack(schemas[n]), op.prev)
        /\ \A i \in DOMAIN schemas[n] :
              i # Max(DOMAIN schemas[n]) => ~schemas[n][i].active

MemoryLoads == \A n \in Names : \A i \in DOMAIN schemas[n] : schemas[n][i].loads

BackedInv ==
    \A n \in Names : \A i \in DOMAIN schemas[n] :
        \/ Registering(n) /\ i = Max(DOMAIN schemas[n])
        \/ disk \in File /\ Matches(disk.schemas[n], schemas[n][i].version) # {}

RegistryInv ==
    /\ TypeOK
    /\ LockInv
    /\ RollbackInv
    /\ MemoryLoads
    /\ ActiveResolves
    /\ FlaggedIsActive
    /\ BackedInv
    /\ disk \in File => WholeFile(disk)
=============================================================================
