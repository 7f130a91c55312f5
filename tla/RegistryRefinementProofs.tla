---------------------- MODULE RegistryRefinementProofs ----------------------
(***************************************************************************)
(* Proofs about RegistryRefinement: when saves work, the registry with its *)
(* file implements DurableStore and an acknowledged registration is        *)
(* durable, for any names and versions, wherever the process is killed and *)
(* whatever the file at the storage path holds at first: files that load   *)
(* only in part, a map that names no version, and torn files included.     *)
(***************************************************************************)
EXTENDS RegistryRefinement, RegistryProofs

-----------------------------------------------------------------------------
(* The inductive invariant.                                                *)

Memory == VersionsOf(schemas, active)

(* The content of a name once operation o has been saved.                  *)
AfterOp(c, o) ==
    CASE o.kind = "register"  -> Durable!WithNew(c, o.version)
      [] o.kind = "activate"  -> Durable!WithActive(c, o.version)
      [] o.kind = "delete"    -> Durable!WithoutVersion(c, o.version)
      [] o.kind = "deprecate" -> c

(* The memory loads from the file that is written of it.                   *)
Writable ==
    \A n \in Names : /\ active[n] = None => DOMAIN schemas[n] = {}
                     /\ \A i \in DOMAIN schemas[n] : schemas[n][i].loads

(* Between operations the memory is what is stored; during one it is one   *)
(* operation ahead.                                                        *)
InStep ==
    /\ Serving => Memory = Stored
    /\ phase # "idle" =>
         /\ Memory = [Stored EXCEPT ![op.name] = AfterOp(@, op)]
         /\ op.kind = "activate" => op.version \in Range(Stored[op.name].list)

(* What has been acknowledged is stored, and no operation that would move  *)
(* the active version of its name is under way.                            *)
AckedStored ==
    \A n \in Names : acked[n] # None =>
        /\ Stored[n].active = acked[n]
        /\ acked[n] \in Range(Stored[n].list)
        /\ phase # "idle" /\ op.name = n => op.kind = "deprecate"

DurableInv == TypeOK /\ LockInv /\ Writable /\ InStep /\ AckedStored

-----------------------------------------------------------------------------
(* The lists without their flags.                                          *)

(* The newest slot of a list of versions.                                  *)
LEMMA NewestSlot ==
    ASSUME NEW vs \in VersionList
    PROVE  /\ DOMAIN Hashes(vs) = DOMAIN vs
           /\ NextSlot(vs) = Durable!Newest(Hashes(vs)) + 1
           /\ DOMAIN vs # {} => Durable!Newest(Hashes(vs)) = Max(DOMAIN vs)
<1>1. DOMAIN Hashes(vs) = DOMAIN vs
    BY DEF Hashes
<1>2. DOMAIN vs # {} => Durable!Newest(Hashes(vs)) = Max(DOMAIN vs)
    BY <1>1 DEF Durable!Newest, Durable!Max, Max
<1>3. DOMAIN vs = {} => Durable!Newest(Hashes(vs)) = 0
    BY <1>1 DEF Durable!Newest
<1> QED
    BY <1>1, <1>2, <1>3 DEF NextSlot

(* Register appends one version and makes it active.                       *)
LEMMA RegisteredHashes ==
    ASSUME NEW vs \in VersionList, NEW v \in Versions, NextSlot(vs) <= MaxSlot, NEW a
    PROVE  [list |-> Hashes(Registered(vs, v)), active |-> v]
             = Durable!WithNew([list |-> Hashes(vs), active |-> a], v)
<1> DEFINE new == Registered(vs, v)
           last == NextSlot(vs)
<1>1. /\ DOMAIN new = DOMAIN vs \cup {last}
      /\ last \notin DOMAIN vs
      /\ new[last].version = v
      /\ \A i \in DOMAIN vs : new[i].version = vs[i].version
  <2>1. \A i \in DOMAIN vs : vs[i] \in Entry
    BY ListElim
  <2>2. /\ DOMAIN new = DOMAIN vs \cup {last}
        /\ last \notin DOMAIN vs
        /\ new[last] = NewEntry(v)
        /\ \A i \in DOMAIN vs : new[i] = [vs[i] EXCEPT !.active = FALSE]
    BY RegisteredFacts
  <2> HIDE DEF new, last
  <2> QED
    BY <2>1, <2>2 DEF Entry, NewEntry
<1>2. last = Durable!Newest(Hashes(vs)) + 1 /\ DOMAIN Hashes(vs) = DOMAIN vs
    BY NewestSlot
<1> HIDE DEF new, last
<1>3. Hashes(new) = [i \in DOMAIN vs \cup {last} |-> IF i = last THEN v ELSE Hashes(vs)[i]]
    BY <1>1 DEF Hashes
<1> QED
    BY <1>2, <1>3 DEF Durable!WithNew, new

(* Activate and Deprecate change flags only.                               *)
LEMMA FlagsHashes ==
    ASSUME NEW vs \in VersionList
    PROVE  /\ \A v \in Versions : Hashes(Activated(vs, v)) = Hashes(vs)
           /\ \A k \in DOMAIN vs : Hashes(DeprecatedAt(vs, k)) = Hashes(vs)
<1>1. ASSUME NEW v \in Versions PROVE Hashes(Activated(vs, v)) = Hashes(vs)
    BY ActivatedFacts DEF Hashes
<1>2. ASSUME NEW k \in DOMAIN vs PROVE Hashes(DeprecatedAt(vs, k)) = Hashes(vs)
    BY DeprecatedFacts DEF Hashes
<1> QED
    BY <1>1, <1>2

(* DeleteVersion drops a version and, when it was active, promotes the     *)
(* last one that is left.                                                  *)
LEMMA DeletedHashes ==
    ASSUME NEW vs \in VersionList, NEW v \in Versions, NEW a \in Versions \cup {None},
           a = None => DOMAIN vs = {}
    PROVE  LET new == Deleted(vs, v, a = v)
               act == ActiveAfterDelete(vs, v, a)
           IN  /\ [list |-> Hashes(new), active |-> act]
                    = Durable!WithoutVersion([list |-> Hashes(vs), active |-> a], v)
               /\ act = None => DOMAIN new = {}
               /\ \A i \in DOMAIN new : i \in DOMAIN vs /\ new[i].loads = vs[i].loads
<1> DEFINE new == Deleted(vs, v, a = v)
           act == ActiveAfterDelete(vs, v, a)
           out == Without(vs, v)
           left == Durable!Restrict(Hashes(vs), {i \in DOMAIN Hashes(vs) : Hashes(vs)[i] # v})
<1>1. DOMAIN vs \subseteq Slots /\ \A i \in DOMAIN vs : vs[i] \in Entry
    BY ListElim
<1>2. /\ out \in VersionList
      /\ DOMAIN out = DOMAIN vs \ Matches(vs, v)
      /\ \A i \in DOMAIN out : out[i] = vs[i]
    BY RestrictFacts DEF Without
<1>3. DOMAIN out # {} => Max(DOMAIN out) \in DOMAIN out
    BY <1>1, <1>2, SlotsMax
<1>4. Hashes(out) = left
  <2>1. {i \in DOMAIN Hashes(vs) : Hashes(vs)[i] # v} = DOMAIN vs \ Matches(vs, v)
    BY DEF Hashes, Matches
  <2> HIDE DEF out
  <2>2. Hashes(out) = [i \in DOMAIN vs \ Matches(vs, v) |-> Hashes(vs)[i]]
    BY <1>2 DEF Hashes
  <2> QED
    BY <2>1, <2>2 DEF Durable!Restrict
<1>5. /\ DOMAIN new = DOMAIN out /\ Hashes(new) = Hashes(out)
      /\ \A i \in DOMAIN new : i \in DOMAIN vs /\ new[i].loads = vs[i].loads
  <2>1. CASE a = v /\ DOMAIN out # {}
    <3>1. new = FlaggedAt(out, Max(DOMAIN out))
      BY <2>1 DEF Deleted
    <3> HIDE DEF new, out
    <3>2. /\ DOMAIN new = DOMAIN out
          /\ \A i \in DOMAIN out : /\ new[i].version = out[i].version
                                   /\ new[i].loads = out[i].loads
      BY <1>2, <1>3, <2>1, <3>1, FlaggedFacts
    <3>3. Hashes(new) = Hashes(out)
      BY <3>2 DEF Hashes
    <3> QED
      BY <1>2, <3>2, <3>3
  <2>2. CASE ~(a = v /\ DOMAIN out # {})
    <3>1. new = out
      BY <2>2 DEF Deleted
    <3> QED
      BY <1>2, <3>1
  <2> QED
    BY <2>1, <2>2
<1>6. /\ act = IF DOMAIN left = {} THEN None
               ELSE IF a = v THEN left[Durable!Newest(left)] ELSE a
      /\ act = None => DOMAIN out = {}
  <2>1. DOMAIN left = DOMAIN out
    BY <1>4 DEF Hashes
  <2>2. CASE DOMAIN out = {}
    BY <2>1, <2>2 DEF ActiveAfterDelete, LastVersion
  <2>3. CASE DOMAIN out # {} /\ a = v
    <3> DEFINE m == Max(DOMAIN out)
    <3>1. act = out[m].version
      BY <2>3 DEF ActiveAfterDelete, LastVersion
    <3>2. Durable!Newest(left) = m
      BY <1>2, <1>4, <2>3, NewestSlot
    <3>3. m \in DOMAIN out /\ out[m] \in Entry
      BY <1>1, <1>2, <1>3, <2>3
    <3> HIDE DEF m, out, act, left
    <3>4. left[m] = out[m].version /\ out[m].version # None
      BY <1>4, <3>3, ConstantsAssumption DEF Hashes, Entry
    <3> QED
      BY <2>1, <2>3, <3>1, <3>2, <3>4
  <2>4. CASE DOMAIN out # {} /\ a # v
    <3>1. act = a /\ a # None
      BY <1>2, <2>4 DEF ActiveAfterDelete
    <3> QED
      BY <2>1, <2>4, <3>1
  <2> QED
    BY <2>2, <2>3, <2>4
<1>7. Durable!WithoutVersion([list |-> Hashes(vs), active |-> a], v)
        = [list |-> left, active |-> IF DOMAIN left = {} THEN None
                                     ELSE IF a = v THEN left[Durable!Newest(left)] ELSE a]
    BY DEF Durable!WithoutVersion
<1> HIDE DEF new, act, out, left
<1> QED
    BY <1>4, <1>5, <1>6, <1>7 DEF new, act

-----------------------------------------------------------------------------
(* Files and memory.                                                       *)

(* What a restart would load depends on the file only.                     *)
LEMMA StoredKept ==
    ASSUME UNCHANGED disk
    PROVE  Stored' = Stored
    BY DEF Stored, Contents, VersionsOf, Hashes, LoadedLists, LoadedActive, StoredActive

(* A file loads into lists and active versions, and an active version is   *)
(* missing only where there is none to take.                               *)
LEMMA LoadedWritable ==
    ASSUME NEW f \in File, NEW n \in Names
    PROVE  /\ LoadedActive(f)[n] = None => DOMAIN LoadedLists(f)[n] = {}
           /\ \A i \in DOMAIN LoadedLists(f)[n] : LoadedLists(f)[n][i].loads
<1>1. f.schemas[n] \in VersionList
    BY DEF File
<1>2. PICK vs : vs = LoadedLists(f)[n]
    OBVIOUS
<1>3. vs \in VersionList
    BY <1>2, LoadFacts
<1>4. \A i \in DOMAIN vs : vs[i].loads
  <2>1. vs = Restrict(f.schemas[n],
                      {i \in DOMAIN f.schemas[n] : f.schemas[n][i].loads})
    BY <1>2 DEF LoadedLists
  <2> QED
    BY <1>1, <2>1, RestrictFacts
<1>5. DOMAIN vs # {} => FirstVersion(vs) # None
  <2>1. DOMAIN vs \subseteq Slots /\ \A i \in DOMAIN vs : vs[i].version \in Versions
    BY <1>3, ListElim DEF Entry
  <2>2. DOMAIN vs # {} => Min(DOMAIN vs) \in DOMAIN vs
    BY <2>1, SlotsMin
  <2> QED
    BY <2>1, <2>2, ConstantsAssumption DEF FirstVersion
<1>6. LoadedActive(f)[n] = None => FirstVersion(vs) = None
    BY <1>2 DEF LoadedActive
<1> QED
    BY <1>2, <1>4, <1>5, <1>6

(* What is written is what is loaded.                                      *)
LEMMA SnapshotContents ==
    ASSUME TypeOK, Writable
    PROVE  Snapshot \in File /\ Contents(Snapshot) = Memory
<1>1. Snapshot \in File
    BY DEF Snapshot, File, TypeOK
<1>2. Snapshot.schemas = schemas /\ StoredActive(Snapshot) = active
    BY DEF Snapshot, StoredActive
<1>3. ASSUME NEW n \in Names
      PROVE  LoadedLists(Snapshot)[n] = schemas[n] /\ LoadedActive(Snapshot)[n] = active[n]
  <2>1. schemas[n] \in VersionList
    BY DEF TypeOK
  <2>2. {i \in DOMAIN schemas[n] : schemas[n][i].loads} = DOMAIN schemas[n]
    BY DEF Writable
  <2>3. LoadedLists(Snapshot)[n] = schemas[n]
    <3>1. schemas[n] \in [DOMAIN schemas[n] -> Entry]
      BY <2>1, ListElim
    <3> QED
      BY <1>2, <2>2, <3>1 DEF LoadedLists, Restrict
  <2>4. LoadedActive(Snapshot)[n]
          = IF active[n] # None THEN active[n] ELSE FirstVersion(schemas[n])
    BY <1>2, <2>3 DEF LoadedActive
  <2>5. active[n] = None => FirstVersion(schemas[n]) = None
    BY DEF Writable, FirstVersion
  <2> QED
    BY <2>3, <2>4, <2>5
<1> QED
    BY <1>1, <1>3 DEF Contents, Memory, VersionsOf

(* The store has a content of the right type for every name.               *)
LEMMA StoredTyped ==
    ASSUME disk \in File \cup {None, Torn}
    PROVE  /\ Stored \in [Names -> Durable!Content]
           /\ Stored = [n \in Names |-> Stored[n]]
<1>1. ASSUME NEW lists \in [Names -> VersionList],
             NEW act \in [Names -> Versions \cup {None}]
      PROVE  VersionsOf(lists, act) \in [Names -> Durable!Content]
  <2> SUFFICES ASSUME NEW n \in Names
               PROVE  [list |-> Hashes(lists[n]), active |-> act[n]] \in Durable!Content
    BY DEF VersionsOf
  <2>1. PICK vs \in VersionList : vs = lists[n]
    OBVIOUS
  <2>2. DOMAIN vs \in SUBSET (1 .. MaxSlot) /\ \A i \in DOMAIN vs : vs[i].version \in Versions
    BY ListElim DEF Slots, Entry
  <2>3. Hashes(vs) \in [DOMAIN vs -> Versions]
    BY <2>2 DEF Hashes
  <2>4. Hashes(vs) \in UNION {[S -> Versions] : S \in SUBSET (1 .. MaxSlot)}
    BY <2>2, <2>3
  <2> QED
    BY <2>1, <2>4 DEF Durable!Content
<1>2. CASE disk \in File
    BY <1>1, <1>2, LoadFacts DEF Stored, Contents
<1>3. CASE disk \notin File
  <2>1. NoSchemas \in [Names -> VersionList]
        /\ NothingActive \in [Names -> Versions \cup {None}]
    BY EmptyListFacts DEF NoSchemas, NothingActive
  <2> QED
    BY <1>1, <1>3, <2>1 DEF Stored, Contents
<1> QED
    BY <1>2, <1>3

(* The memory of one name.                                                 *)
LEMMA MemoryOf ==
    ASSUME NEW n \in Names
    PROVE  Memory[n] = [list |-> Hashes(schemas[n]), active |-> active[n]]
    BY DEF Memory, VersionsOf

(* A memory that changes for one name.                                     *)
LEMMA MemoryChanged ==
    ASSUME TypeOK, NEW n \in Names, NEW L, NEW a,
           schemas' = [schemas EXCEPT ![n] = L], active' = [active EXCEPT ![n] = a]
    PROVE  Memory' = [Memory EXCEPT ![n] = [list |-> Hashes(L), active |-> a]]
    BY DEF Memory, VersionsOf, TypeOK, Hashes

-----------------------------------------------------------------------------
(* The steps.                                                              *)

(* A mutator takes the lock: the memory is one operation ahead.            *)
LEMMA BeginStep ==
    ASSUME DurableInv, TypeOK', Serving, NEW n \in Names, NEW v \in Versions,
           NEW kind \in {"register", "activate", "deprecate", "delete"},
           Begin(kind, n, v), NEW L, NEW a,
           schemas' = [schemas EXCEPT ![n] = L], active' = [active EXCEPT ![n] = a],
           a = None => DOMAIN L = {}, \A i \in DOMAIN L : L[i].loads,
           kind = "activate" => v \in Range(Hashes(schemas[n])),
           [list |-> Hashes(L), active |-> a]
             = AfterOp([list |-> Hashes(schemas[n]), active |-> active[n]], op')
    PROVE  DurableInv'
<1>1. /\ phase = "idle" /\ up /\ phase' = "write" /\ up' = up
      /\ UNCHANGED <<disk, tmp>>
      /\ op' = [kind |-> kind, name |-> n, version |-> v, prev |-> active[n]]
    BY DEF Serving, Begin
<1>2. op' # None /\ op'.kind = kind /\ op'.name = n /\ op'.version = v
  <2>1. op' \in Op
    BY <1>1 DEF Op, DurableInv, TypeOK
  <2> QED
    BY <1>1, <2>1, ConstantsAssumption
<1>3. LockInv'
    BY <1>1, <1>2 DEF LockInv
<1>4. Writable'
    BY DEF Writable, DurableInv, TypeOK
<1>5. Memory = Stored /\ Stored' = Stored
    BY <1>1, StoredKept DEF DurableInv, InStep
<1>6. Stored[n] = [list |-> Hashes(schemas[n]), active |-> active[n]]
    BY <1>5, MemoryOf
<1>7. Memory' = [Stored EXCEPT ![n] = AfterOp(Stored[n], op')]
  <2>1. AfterOp(Stored[n], op')
          = AfterOp([list |-> Hashes(schemas[n]), active |-> active[n]], op')
    BY <1>6 DEF AfterOp
  <2>2. Memory' = [Memory EXCEPT ![n] = [list |-> Hashes(L), active |-> a]]
    BY MemoryChanged DEF DurableInv
  <2> QED
    BY <1>5, <2>1, <2>2
<1>8. InStep'
  <2>1. ~Serving'
    BY <1>1 DEF Serving
  <2>2. kind = "activate" => v \in Range(Stored[n].list)
    BY <1>6
  <2>3. (Memory = [Stored EXCEPT ![op.name] = AfterOp(@, op)])'
    BY <1>2, <1>5, <1>7 DEF AfterOp
  <2>4. (op.kind = "activate" => op.version \in Range(Stored[op.name].list))'
    BY <1>2, <1>5, <2>2
  <2> QED
    BY <2>1, <2>3, <2>4 DEF InStep
<1>9. AckedStored'
  <2> SUFFICES ASSUME NEW k \in Names, acked'[k] # None
               PROVE  /\ Stored[k].active = acked'[k]
                      /\ acked'[k] \in Range(Stored[k].list)
                      /\ op'.name = k => op'.kind = "deprecate"
    BY <1>1, <1>5 DEF AckedStored
  <2>1. acked \in [Names -> Versions \cup {None}]
    BY DEF DurableInv, TypeOK
  <2>2. acked'[k] = acked[k] /\ (k = n => kind = "deprecate")
    BY <2>1 DEF Begin
  <2> QED
    BY <1>2, <2>2 DEF DurableInv, AckedStored
<1> QED
    BY <1>3, <1>4, <1>8, <1>9 DEF DurableInv

(* The mutators: Register, Activate, Deprecate and DeleteVersion.          *)
LEMMA MutatorStep ==
    ASSUME DurableInv, TypeOK', NEW n \in Names, NEW v \in Versions,
           \/ RegisterNew(n, v) \/ Activate(n, v)
           \/ Deprecate(n, v) \/ DeleteVersion(n, v)
    PROVE  DurableInv'
<1> DEFINE c == [list |-> Hashes(schemas[n]), active |-> active[n]]
<1>1. /\ schemas \in [Names -> VersionList] /\ active \in [Names -> Versions \cup {None}]
      /\ active[n] = None => DOMAIN schemas[n] = {}
      /\ \A i \in DOMAIN schemas[n] : schemas[n][i].loads
    BY DEF DurableInv, TypeOK, Writable
<1>2. PICK vs \in VersionList : vs = schemas[n]
    BY <1>1
<1>3. v # None
    BY ConstantsAssumption
<1>4. CASE RegisterNew(n, v)
  <2> DEFINE L == Registered(vs, v)
  <2>1. /\ Serving /\ Begin("register", n, v) /\ NextSlot(vs) <= MaxSlot
        /\ schemas' = [schemas EXCEPT ![n] = L] /\ active' = [active EXCEPT ![n] = v]
    BY <1>2, <1>4 DEF RegisterNew
  <2>2. \A i \in DOMAIN L : L[i].loads
    <3>1. /\ DOMAIN L = DOMAIN vs \cup {NextSlot(vs)}
          /\ L[NextSlot(vs)] = NewEntry(v)
          /\ \A i \in DOMAIN vs : L[i] = [vs[i] EXCEPT !.active = FALSE]
      BY <2>1, RegisteredFacts
    <3>2. \A i \in DOMAIN vs : vs[i] \in Entry
      BY ListElim
    <3> HIDE DEF L
    <3> QED
      BY <1>1, <1>2, <3>1, <3>2 DEF NewEntry, Entry
  <2>3. op'.kind = "register" /\ op'.version = v
    BY <2>1 DEF Begin
  <2>4. AfterOp(c, op') = Durable!WithNew(c, v)
    BY <2>3 DEF AfterOp
  <2>5. [list |-> Hashes(L), active |-> v] = AfterOp(c, op')
    BY <1>2, <2>1, <2>4, RegisteredHashes
  <2> HIDE DEF L
  <2> QED
    BY <1>3, <2>1, <2>2, <2>5, BeginStep
<1>5. CASE Activate(n, v)
  <2> DEFINE L == Activated(vs, v)
  <2>1. /\ Serving /\ Begin("activate", n, v) /\ Matches(vs, v) # {}
        /\ schemas' = [schemas EXCEPT ![n] = L] /\ active' = [active EXCEPT ![n] = v]
    BY <1>2, <1>5 DEF Activate
  <2>2. \A i \in DOMAIN L : L[i].loads
    BY <1>1, <1>2, ActivatedFacts
  <2>3. op'.kind = "activate" /\ op'.version = v
    BY <2>1 DEF Begin
  <2>4. AfterOp(c, op') = Durable!WithActive(c, v)
    BY <2>3 DEF AfterOp
  <2>5. [list |-> Hashes(L), active |-> v] = AfterOp(c, op')
    BY <1>2, <2>4, FlagsHashes DEF Durable!WithActive
  <2>6. v \in Range(Hashes(vs))
    BY <2>1 DEF Range, Hashes, Matches
  <2> HIDE DEF L
  <2> QED
    BY <1>2, <1>3, <2>1, <2>2, <2>5, <2>6, BeginStep
<1>6. CASE Deprecate(n, v)
  <2>1. PICK k : k = Min(Matches(vs, v))
    OBVIOUS
  <2>2. k \in DOMAIN vs
    <3>1. Matches(vs, v) \subseteq Slots
      BY ListElim DEF Matches
    <3>2. Matches(vs, v) # {}
      BY <1>2, <1>6 DEF Deprecate
    <3>3. k \in Matches(vs, v)
      BY <2>1, <3>1, <3>2, SlotsMin
    <3> QED
      BY <3>3 DEF Matches
  <2> DEFINE L == DeprecatedAt(vs, k)
  <2>3. PICK a : a = active[n]
    OBVIOUS
  <2>4. /\ Serving /\ Begin("deprecate", n, v)
        /\ schemas' = [schemas EXCEPT ![n] = L] /\ active' = [active EXCEPT ![n] = a]
    BY <1>1, <1>2, <1>6, <2>1, <2>3 DEF Deprecate
  <2>5. DOMAIN L = DOMAIN vs /\ \A i \in DOMAIN L : L[i].loads
    <3>1. /\ DOMAIN L = DOMAIN vs
          /\ \A i \in DOMAIN vs : L[i].loads = vs[i].loads
      BY <2>2, DeprecatedFacts
    <3> HIDE DEF L
    <3> QED
      BY <1>1, <1>2, <3>1
  <2>6. op'.kind = "deprecate"
    BY <2>4 DEF Begin
  <2>7. [list |-> Hashes(L), active |-> a] = AfterOp(c, op')
    BY <1>2, <2>2, <2>3, <2>6, FlagsHashes DEF AfterOp
  <2> HIDE DEF L
  <2> QED
    BY <1>1, <1>2, <2>3, <2>4, <2>5, <2>7, BeginStep
<1>7. CASE DeleteVersion(n, v)
  <2>1. PICK b \in Versions \cup {None} : b = active[n]
    BY <1>1
  <2> DEFINE L == Deleted(vs, v, b = v)
  <2>2. PICK a : a = ActiveAfterDelete(vs, v, b)
    OBVIOUS
  <2>3. /\ Serving /\ Begin("delete", n, v)
        /\ schemas' = [schemas EXCEPT ![n] = L] /\ active' = [active EXCEPT ![n] = a]
    BY <1>2, <1>7, <2>1, <2>2 DEF DeleteVersion
  <2>4. /\ [list |-> Hashes(L), active |-> a] = Durable!WithoutVersion(c, v)
        /\ a = None => DOMAIN L = {}
        /\ \A i \in DOMAIN L : i \in DOMAIN vs /\ L[i].loads = vs[i].loads
    <3>1. /\ b = None => DOMAIN vs = {}
          /\ c = [list |-> Hashes(vs), active |-> b]
      BY <1>1, <1>2, <2>1
    <3> HIDE DEF c
    <3> QED
      BY <2>2, <3>1, DeletedHashes
  <2>5. op'.kind = "delete" /\ op'.version = v
    BY <2>3 DEF Begin
  <2>6. [list |-> Hashes(L), active |-> a] = AfterOp(c, op')
    BY <2>4, <2>5 DEF AfterOp
  <2>7. \A i \in DOMAIN L : L[i].loads
    BY <1>1, <1>2, <2>4
  <2> HIDE DEF L
  <2> QED
    BY <2>3, <2>4, <2>6, <2>7, BeginStep
<1> QED
    BY <1>4, <1>5, <1>6, <1>7

(* A repeated registration is acknowledged without a save: it is stored.   *)
LEMMA RegisterExistingStep ==
    ASSUME DurableInv, TypeOK', NEW n \in Names, NEW v \in Versions,
           RegisterExisting(n, v)
    PROVE  DurableInv'
<1>1. /\ UNCHANGED <<schemas, active, loaded, up, phase, op, disk, tmp>>
      /\ Serving /\ active[n] = v /\ Matches(schemas[n], v) # {}
      /\ acked' = [acked EXCEPT ![n] = v]
    BY DEF RegisterExisting
<1>2. Stored' = Stored /\ Memory' = Memory /\ Memory = Stored /\ phase = "idle"
    BY <1>1, StoredKept DEF DurableInv, InStep, Memory, VersionsOf, Serving
<1>3. LockInv' /\ Writable'
    BY <1>1 DEF DurableInv, LockInv, Writable, Snapshot
<1>4. InStep'
    BY <1>1, <1>2 DEF InStep
<1>5. Stored[n].active = v /\ v \in Range(Stored[n].list)
  <2>1. Stored[n] = [list |-> Hashes(schemas[n]), active |-> v]
    BY <1>1, <1>2, MemoryOf
  <2>2. v \in Range(Hashes(schemas[n]))
    BY <1>1 DEF Range, Hashes, Matches
  <2> QED
    BY <2>1, <2>2
<1>6. AckedStored'
  <2>1. acked \in [Names -> Versions \cup {None}]
    BY DEF DurableInv, TypeOK
  <2> QED
    BY <1>1, <1>2, <1>5, <2>1 DEF DurableInv, AckedStored
<1> QED
    BY <1>3, <1>4, <1>6 DEF DurableInv

(* Activate of a missing version changes flags only.                       *)
LEMMA ActivateMissingStep ==
    ASSUME DurableInv, TypeOK', NEW n \in Names, NEW v \in Versions,
           ActivateMissing(n, v)
    PROVE  DurableInv'
<1>1. /\ UNCHANGED <<active, loaded, up, phase, op, disk, tmp, acked>> /\ Serving
      /\ schemas' = [schemas EXCEPT ![n] = Activated(@, v)]
    BY DEF ActivateMissing
<1>2. PICK vs \in VersionList : vs = schemas[n]
    BY DEF DurableInv, TypeOK
<1>3. PICK L : L = Activated(vs, v)
    OBVIOUS
<1>4. /\ DOMAIN L = DOMAIN vs /\ Hashes(L) = Hashes(vs)
      /\ \A i \in DOMAIN L : L[i].loads = vs[i].loads
    BY <1>3, ActivatedFacts, FlagsHashes
<1>5. PICK a : a = active[n]
    OBVIOUS
<1>6. schemas' = [schemas EXCEPT ![n] = L] /\ active' = [active EXCEPT ![n] = a]
    BY <1>1, <1>2, <1>3, <1>5 DEF DurableInv, TypeOK
<1>7. Memory' = Memory
  <2>1. Memory' = [Memory EXCEPT ![n] = [list |-> Hashes(L), active |-> a]]
    BY <1>6, MemoryChanged DEF DurableInv
  <2>2. Memory[n] = [list |-> Hashes(vs), active |-> a]
    BY <1>2, <1>5, MemoryOf
  <2>3. Memory = [k \in Names |-> Memory[k]]
    BY DEF Memory, VersionsOf
  <2> QED
    BY <1>4, <2>1, <2>2, <2>3
<1>8. Stored' = Stored
    BY <1>1, StoredKept
<1>9. LockInv'
    BY <1>1 DEF DurableInv, LockInv, Serving
<1>10. Writable'
    BY <1>1, <1>2, <1>4, <1>6 DEF DurableInv, Writable, TypeOK
<1>11. InStep' /\ AckedStored'
    BY <1>1, <1>7, <1>8 DEF DurableInv, InStep, AckedStored, Serving
<1> QED
    BY <1>9, <1>10, <1>11 DEF DurableInv

(* The rename makes the operation durable, and it is acknowledged.         *)
LEMMA RenamedStep ==
    ASSUME DurableInv, TypeOK', Renamed
    PROVE  /\ DurableInv'
           /\ Stored' = [Stored EXCEPT ![op.name] = AfterOp(@, op)]
<1>1. /\ UNCHANGED <<schemas, active, loaded, up>>
      /\ phase = "rename" /\ phase' = "idle" /\ op' = None /\ disk' = tmp
      /\ acked' = IF op.kind = "register"
                  THEN [acked EXCEPT ![op.name] = op.version] ELSE acked
    BY DEF Renamed
<1>2. /\ op \in Op /\ op.name \in Names /\ op.version \in Versions
      /\ op.kind \in {"register", "activate", "deprecate", "delete"}
      /\ tmp = Snapshot /\ up
  <2>1. op \in Op
    BY <1>1 DEF DurableInv, TypeOK, LockInv
  <2> QED
    BY <1>1, <2>1 DEF DurableInv, LockInv, Op
<1>3. Stored' = Memory
  <2>1. PICK f : f = Snapshot
    OBVIOUS
  <2>2. disk' = f
    BY <1>1, <1>2, <2>1
  <2>3. Stored' = Contents(f)
    BY <2>2 DEF Stored, Contents, VersionsOf, Hashes, LoadedLists, LoadedActive,
       StoredActive
  <2> QED
    BY <2>1, <2>3, SnapshotContents DEF DurableInv
<1>4. Memory' = Memory
    BY <1>1 DEF Memory, VersionsOf
<1>5. /\ Memory = [Stored EXCEPT ![op.name] = AfterOp(@, op)]
      /\ op.kind = "activate" => op.version \in Range(Stored[op.name].list)
    BY <1>1 DEF DurableInv, InStep
<1>6. LockInv' /\ Writable'
    BY <1>1, <1>2 DEF DurableInv, LockInv, Writable
<1>7. InStep'
    BY <1>1, <1>3, <1>4 DEF InStep
<1>8. AckedStored'
  <2> SUFFICES ASSUME NEW k \in Names, acked'[k] # None
               PROVE  Memory[k].active = acked'[k] /\ acked'[k] \in Range(Memory[k].list)
    BY <1>1, <1>3 DEF AckedStored
  <2>1. /\ acked \in [Names -> Versions \cup {None}]
        /\ Stored = [m \in Names |-> Stored[m]]
    BY StoredTyped DEF DurableInv, TypeOK
  <2>2. CASE k = op.name /\ op.kind = "register"
    <3>1. acked'[k] = op.version
      BY <1>1, <2>1, <2>2
    <3>2. Memory[k] = Durable!WithNew(Stored[k], op.version)
      <4>1. Memory[k] = AfterOp(Stored[k], op)
        BY <1>5, <2>1, <2>2
      <4> QED
        BY <2>2, <4>1 DEF AfterOp
    <3>3. PICK c, v : c = Stored[k] /\ v = op.version
      OBVIOUS
    <3>4. Durable!WithNew(c, v).active = v /\ v \in Range(Durable!WithNew(c, v).list)
      BY DEF Durable!WithNew, Range
    <3> QED
      BY <3>1, <3>2, <3>3, <3>4
  <2>3. CASE ~(k = op.name /\ op.kind = "register")
    <3>1. acked'[k] = acked[k]
      BY <1>1, <1>2, <2>1, <2>3
    <3>2. /\ Stored[k].active = acked[k] /\ acked[k] \in Range(Stored[k].list)
          /\ op.name = k => op.kind = "deprecate"
      BY <1>1, <3>1 DEF DurableInv, AckedStored
    <3>3. Memory[k] = Stored[k]
      <4>1. CASE k # op.name
        BY <1>5, <2>1, <4>1
      <4>2. CASE k = op.name
        <5>1. AfterOp(Stored[k], op) = Stored[k]
          BY <3>2, <4>2 DEF AfterOp
        <5> QED
          BY <1>5, <2>1, <4>2, <5>1
      <4> QED
        BY <4>1, <4>2
    <3> QED
      BY <3>1, <3>2, <3>3
  <2> QED
    BY <2>2, <2>3
<1> QED
    BY <1>3, <1>5, <1>6, <1>7, <1>8 DEF DurableInv

(* A start builds the memory from what is stored.                          *)
LEMMA StartStep ==
    ASSUME DurableInv, TypeOK', StartWithoutFile \/ StartUnreadable \/ StartFromFile
    PROVE  DurableInv'
<1>1. /\ UNCHANGED <<phase, op, disk, tmp, acked>> /\ ~up /\ up'
    BY DEF StartWithoutFile, StartUnreadable, StartFromFile, Start
<1>2. phase = "idle" /\ op = None
    BY <1>1 DEF DurableInv, LockInv, TypeOK
<1>3. LockInv'
    BY <1>1, <1>2 DEF LockInv
<1>4. Stored' = Stored
    BY <1>1, StoredKept
<1>5. Writable' /\ Memory' = Stored
  <2>1. CASE disk \in File
    <3>1. schemas' = LoadedLists(disk) /\ active' = LoadedActive(disk)
      BY <2>1, ConstantsAssumption DEF StartWithoutFile, StartUnreadable, StartFromFile, Start
    <3>2. Writable'
      BY <2>1, <3>1, LoadedWritable DEF Writable
    <3>3. Memory' = Stored
      BY <2>1, <3>1 DEF Memory, Stored, Contents, VersionsOf
    <3> QED
      BY <3>2, <3>3
  <2>2. CASE disk \notin File
    <3>1. schemas' = NoSchemas /\ active' = NothingActive
      BY <2>2 DEF StartWithoutFile, StartUnreadable, StartFromFile, Start
    <3>2. Writable'
      BY <3>1, EmptyListFacts DEF Writable, NoSchemas
    <3>3. Memory' = Stored
      BY <2>2, <3>1 DEF Memory, Stored, Contents, VersionsOf
    <3> QED
      BY <3>2, <3>3
  <2> QED
    BY <2>1, <2>2
<1>6. InStep' /\ AckedStored'
    BY <1>1, <1>2, <1>4, <1>5 DEF DurableInv, InStep, AckedStored
<1> QED
    BY <1>3, <1>5, <1>6 DEF DurableInv

(* A crash, a written .tmp file and a stuttering step leave the store.     *)
LEMMA IdleStep ==
    ASSUME DurableInv, TypeOK', Crash \/ WriteTemp \/ UNCHANGED vars
    PROVE  DurableInv'
<1>1. Stored' = Stored
    BY StoredKept DEF Crash, WriteTemp, vars
<1>2. CASE Crash
  <2>1. /\ ~up' /\ phase' = "idle" /\ op' = None /\ acked' = acked
        /\ schemas' = NoSchemas /\ active' = NothingActive
    BY <1>2 DEF Crash
  <2>2. LockInv' /\ Writable'
    BY <2>1, EmptyListFacts DEF LockInv, Writable, NoSchemas, NothingActive, EmptyList
  <2>3. InStep' /\ AckedStored'
    BY <1>1, <2>1 DEF DurableInv, InStep, AckedStored, Serving
  <2> QED
    BY <2>2, <2>3 DEF DurableInv
<1>3. CASE WriteTemp \/ UNCHANGED vars
  <2>1. /\ UNCHANGED <<schemas, active, up, op, acked>>
        /\ phase' # "idle" <=> phase # "idle"
    BY <1>3 DEF WriteTemp, vars
  <2>2. LockInv' /\ Writable'
    BY <1>3, <2>1 DEF DurableInv, LockInv, Writable, WriteTemp, vars, Snapshot
  <2>3. Memory' = Memory
    BY <2>1 DEF Memory, VersionsOf
  <2>4. InStep'
    BY <1>1, <2>1, <2>3 DEF DurableInv, InStep, Serving, AfterOp
  <2>5. AckedStored'
    BY <1>1, <2>1 DEF DurableInv, AckedStored
  <2> QED
    BY <2>2, <2>4, <2>5 DEF DurableInv
<1> QED
    BY <1>2, <1>3

(* The initial states.                                                     *)
LEMMA DurableInit == Init => DurableInv
<1> SUFFICES ASSUME Init PROVE DurableInv
    OBVIOUS
<1>1. TypeOK
    BY TypeInit DEF TypeInv
<1>2. LockInv /\ Writable
    BY EmptyListFacts DEF Init, LockInv, Writable, NoSchemas, NothingActive
<1>3. InStep /\ AckedStored
    BY DEF Init, InStep, AckedStored, Serving, NothingActive
<1> QED
    BY <1>1, <1>2, <1>3 DEF DurableInv

(* When saves work, every step keeps the invariant.                        *)
LEMMA DurableNext ==
    ASSUME ~SaveMayFail, DurableInv, [Next]_vars
    PROVE  DurableInv'
<1>1. TypeOK'
    BY TypeNext DEF DurableInv, LockInv, TypeInv
<1>2. CASE \E n \in Names, v \in Versions :
              RegisterNew(n, v) \/ Activate(n, v) \/ Deprecate(n, v) \/ DeleteVersion(n, v)
    BY <1>1, <1>2, MutatorStep
<1>3. CASE \E n \in Names, v \in Versions : RegisterExisting(n, v) \/ ActivateMissing(n, v)
    BY <1>1, <1>3, RegisterExistingStep, ActivateMissingStep
<1>4. CASE Renamed
    BY <1>1, <1>4, RenamedStep
<1>5. CASE StartWithoutFile \/ StartUnreadable \/ StartFromFile
    BY <1>1, <1>5, StartStep
<1>6. CASE Crash \/ WriteTemp \/ UNCHANGED vars
    BY <1>1, <1>6, IdleStep
<1>7. ~WriteTempFails /\ ~RenameFails
    BY DEF WriteTempFails, RenameFails
<1> QED
    BY <1>2, <1>3, <1>4, <1>5, <1>6, <1>7 DEF Next

-----------------------------------------------------------------------------
(* The theorems.                                                           *)

(* A step of the registry is a step of the store it implements.            *)
LEMMA StepRefines ==
    ASSUME ~SaveMayFail, DurableInv, [Next]_vars
    PROVE  Durable!Next
<1> DEFINE serves == IF Serving THEN Memory ELSE None
<1>1. DurableInv'
    BY DurableNext
<1>2. serves' \in {None, Stored'}
    BY <1>1 DEF DurableInv, InStep
<1>3. \/ Stored' = Stored
      \/ \E n \in Names, v \in Versions :
            Durable!Register(n, v) \/ Durable!Activate(n, v) \/ Durable!Delete(n, v)
  <2>1. CASE Renamed
    <3>1. TypeOK'
      BY <1>1 DEF DurableInv
    <3>2. Stored' = [Stored EXCEPT ![op.name] = AfterOp(@, op)]
      BY <2>1, <3>1, RenamedStep
    <3>3. op \in Op /\ phase # "idle"
      BY <2>1 DEF Renamed, DurableInv, TypeOK, LockInv
    <3>4. PICK n \in Names, v \in Versions : n = op.name /\ v = op.version
      BY <3>3 DEF Op
    <3>5. CASE op.kind = "register"
      <4>1. Stored' = [Stored EXCEPT ![n] = Durable!WithNew(@, v)]
        BY <3>2, <3>4, <3>5 DEF AfterOp
      <4> QED
        BY <4>1 DEF Durable!Register
    <3>6. CASE op.kind = "activate"
      <4>1. Stored' = [Stored EXCEPT ![n] = Durable!WithActive(@, v)]
        BY <3>2, <3>4, <3>6 DEF AfterOp
      <4>2. v \in Range(Stored[n].list)
        BY <3>3, <3>4, <3>6 DEF DurableInv, InStep
      <4> QED
        BY <4>1, <4>2 DEF Durable!Activate, Durable!Range, Range
    <3>7. CASE op.kind = "delete"
      <4>1. Stored' = [Stored EXCEPT ![n] = Durable!WithoutVersion(@, v)]
        BY <3>2, <3>4, <3>7 DEF AfterOp
      <4> QED
        BY <4>1 DEF Durable!Delete
    <3>8. CASE op.kind = "deprecate"
      <4>1. AfterOp(Stored[n], op) = Stored[n]
        BY <3>8 DEF AfterOp
      <4>2. Stored = [m \in Names |-> Stored[m]]
        BY StoredTyped DEF DurableInv, TypeOK
      <4> QED
        BY <3>2, <3>4, <4>1, <4>2
    <3> QED
      BY <3>3, <3>5, <3>6, <3>7, <3>8 DEF Op
  <2>2. CASE ~Renamed
    <3>1. UNCHANGED disk
      BY <2>2 DEF Next, RegisterExisting, RegisterNew, Activate, ActivateMissing,
         Deprecate, DeleteVersion, Begin, WriteTemp, WriteTempFails, RenameFails,
         SaveFailed, StartWithoutFile, StartUnreadable, StartFromFile, Start, Crash, vars
    <3> QED
      BY <3>1, StoredKept
  <2> QED
    BY <2>1, <2>2
<1> QED
    BY <1>2, <1>3 DEF Durable!Next, Memory

(* Register, Activate and DeleteVersion are atomic and durable, and the    *)
(* running server serves what is stored, wherever the process is killed    *)
(* and whatever file it finds, as long as a save does not fail.            *)
THEOREM RegistryIsDurable ==
    ASSUME ~SaveMayFail PROVE Spec => ImplementsDurableStore
<1>1. Init => Durable!Init
  <2> SUFFICES ASSUME Init PROVE Durable!Init
    OBVIOUS
  <2>1. disk \in File \cup {None, Torn} /\ ~Serving
    BY ConstantsAssumption DEF Init, Serving
  <2> QED
    BY <2>1, StoredTyped DEF Durable!Init
<1>2. DurableInv /\ [Next]_vars => DurableInv' /\ [Durable!Next]_Durable!storeVars
    BY DurableNext, StepRefines
<1> QED
    BY <1>1, <1>2, DurableInit, PTL DEF Spec, Durable!Spec, ImplementsDurableStore

(* A registration answered with success is what a restart would make       *)
(* active and what the running server serves, until another operation on   *)
(* its name begins (Register, saveToFileLocked and LoadFromFile).          *)
THEOREM RegistrationIsDurable ==
    ASSUME ~SaveMayFail PROVE Spec => []AckedRegistrationDurable
<1>1. ASSUME DurableInv PROVE AckedRegistrationDurable
  <2> SUFFICES ASSUME NEW n \in Names, acked[n] # None
               PROVE  /\ disk \in File
                      /\ LoadedActive(disk)[n] = acked[n]
                      /\ Matches(LoadedLists(disk)[n], acked[n]) # {}
                      /\ Serving => GetActive(n) = acked[n]
    BY DEF AckedRegistrationDurable
  <2>1. Stored[n].active = acked[n] /\ acked[n] \in Range(Stored[n].list)
    BY <1>1 DEF DurableInv, AckedStored
  <2>2. disk \in File
    BY <2>1 DEF Stored, Contents, VersionsOf, NothingActive
  <2>3. /\ Stored[n].active = LoadedActive(disk)[n]
        /\ Stored[n].list = Hashes(LoadedLists(disk)[n])
    BY <2>2 DEF Stored, Contents, VersionsOf
  <2>4. \A vs, v : v \in Range(Hashes(vs)) => Matches(vs, v) # {}
    BY DEF Range, Hashes, Matches
  <2>5. Matches(LoadedLists(disk)[n], acked[n]) # {}
    BY <2>1, <2>3, <2>4
  <2>6. ASSUME Serving PROVE GetActive(n) = acked[n]
    <3>1. Stored[n] = [list |-> Hashes(schemas[n]), active |-> active[n]]
      BY <1>1, <2>6, MemoryOf DEF DurableInv, InStep
    <3>2. active[n] = acked[n] /\ Matches(schemas[n], acked[n]) # {}
      BY <2>1, <2>4, <3>1
    <3> QED
      BY <3>2 DEF GetActive
  <2> QED
    BY <2>1, <2>2, <2>3, <2>5, <2>6
<1>2. DurableInv /\ [Next]_vars => DurableInv'
    BY DurableNext
<1> QED
    BY <1>1, <1>2, DurableInit, PTL DEF Spec
=============================================================================
