--------------------------- MODULE RegistryProofs ---------------------------
(***************************************************************************)
(* Proofs about Registry: type correctness, and the invariants that make   *)
(* lookups resolve, flags agree and memory be backed by the file, for any  *)
(* sets of names and versions, any bound on the lists, and any pattern of  *)
(* failed saves and crashes.                                               *)
(***************************************************************************)
EXTENDS Registry, WellFoundedInduction, TLAPS

-----------------------------------------------------------------------------
(* Slots.                                                                  *)

(* A non-empty set of slots has a smallest element.                        *)
LEMMA SlotsMin ==
    ASSUME NEW S, S \subseteq Slots, S # {}
    PROVE  Min(S) \in S /\ \A j \in S : Min(S) <= j
<1>1. S \subseteq Nat
    BY ConstantsAssumption DEF Slots
<1>2. PICK m \in S : \A j \in S : ~(<<j, m>> \in OpToRel(<, Nat))
    BY <1>1, NatLessThanWellFounded, WFMin
<1>3. \A j \in S : m <= j
  <2> SUFFICES ASSUME NEW j \in S, ~(m <= j) PROVE FALSE
    OBVIOUS
  <2>1. m \in Nat /\ j \in Nat /\ j < m
    BY <1>1
  <2>2. <<j, m>> \in OpToRel(<, Nat)
    BY <2>1 DEF OpToRel
  <2> QED
    BY <1>2, <2>2
<1> QED
    BY <1>3 DEF Min

(* A non-empty set of slots has a largest element.                         *)
LEMMA SlotsMax ==
    ASSUME NEW S, S \subseteq Slots, S # {}
    PROVE  Max(S) \in S /\ \A j \in S : Max(S) >= j
<1> DEFINE D == {MaxSlot - i : i \in S}
<1>1. S \subseteq Nat /\ MaxSlot \in Nat /\ \A i \in S : i <= MaxSlot
    BY ConstantsAssumption DEF Slots
<1>2. D \subseteq Nat /\ D # {}
  <2>1. \A i \in S : MaxSlot - i \in Nat
    BY <1>1
  <2> QED
    BY <2>1
<1>3. PICK d \in D : \A e \in D : ~(<<e, d>> \in OpToRel(<, Nat))
    BY <1>2, NatLessThanWellFounded, WFMin
<1>4. PICK m \in S : d = MaxSlot - m
    BY <1>3
<1>5. \A j \in S : m >= j
  <2> TAKE j \in S
  <2>1. MaxSlot - j \in D
    BY <1>1
  <2>2. ~(MaxSlot - j < MaxSlot - m)
    BY <1>2, <1>3, <1>4, <2>1 DEF OpToRel
  <2> QED
    BY <1>1, <2>2
<1> QED
    BY <1>5 DEF Max

-----------------------------------------------------------------------------
(* Version lists.                                                          *)

(* What membership in VersionList means.                                   *)
LEMMA ListElim ==
    ASSUME NEW vs \in VersionList
    PROVE  /\ DOMAIN vs \subseteq Slots
           /\ vs \in [DOMAIN vs -> Entry]
           /\ \A i \in DOMAIN vs : vs[i] \in Entry
BY DEF VersionList

(* A function from slots to entries is a version list.                     *)
LEMMA ListIntro ==
    ASSUME NEW S, S \subseteq Slots, NEW vs \in [S -> Entry]
    PROVE  vs \in VersionList /\ DOMAIN vs = S
BY DEF VersionList

(* The list of a name without versions.                                    *)
LEMMA EmptyListFacts ==
    EmptyList \in VersionList /\ DOMAIN EmptyList = {}
BY DEF EmptyList, VersionList

(* Registering appends one entry, in a fresh last slot, and clears flags.  *)
LEMMA RegisteredFacts ==
    ASSUME NEW vs \in VersionList, NEW v \in Versions,
           NextSlot(vs) <= MaxSlot
    PROVE  LET new == Registered(vs, v)
               last == NextSlot(vs)
           IN  /\ new \in VersionList
               /\ DOMAIN new = DOMAIN vs \cup {last}
               /\ last \notin DOMAIN vs
               /\ Max(DOMAIN new) = last
               /\ new[last] = NewEntry(v)
               /\ \A i \in DOMAIN vs : new[i] = [vs[i] EXCEPT !.active = FALSE]
<1> DEFINE new == Registered(vs, v)
           last == NextSlot(vs)
<1>1. DOMAIN vs \subseteq Slots /\ \A i \in DOMAIN vs : vs[i] \in Entry
    BY ListElim
<1>2. MaxSlot \in Nat
    BY ConstantsAssumption
<1>3. last \in Slots /\ \A i \in DOMAIN vs : i < last
  <2>1. CASE DOMAIN vs = {}
    BY <1>2, <2>1 DEF NextSlot, Slots
  <2>2. CASE DOMAIN vs # {}
    <3>1. Max(DOMAIN vs) \in DOMAIN vs /\ \A j \in DOMAIN vs : Max(DOMAIN vs) >= j
      BY <1>1, <2>2, SlotsMax
    <3> QED
      BY <1>1, <1>2, <2>2, <3>1 DEF NextSlot, Slots
  <2> QED
    BY <2>1, <2>2
<1>4. last \notin DOMAIN vs
    BY <1>3, <1>1, <1>2 DEF Slots
<1>5. DOMAIN new = DOMAIN vs \cup {last}
    BY DEF Registered
<1>6. new[last] = NewEntry(v)
    BY <1>4 DEF Registered
<1>7. \A i \in DOMAIN vs : new[i] = [vs[i] EXCEPT !.active = FALSE]
    BY DEF Registered
<1>8. \A i \in DOMAIN new : new[i] \in Entry
  <2>1. NewEntry(v) \in Entry
    BY DEF NewEntry, Entry
  <2>2. \A i \in DOMAIN vs : [vs[i] EXCEPT !.active = FALSE] \in Entry
    BY <1>1 DEF Entry
  <2> QED
    BY <1>5, <1>6, <1>7, <2>1, <2>2
<1>9. new \in [DOMAIN vs \cup {last} -> Entry]
  <2>1. new = [i \in DOMAIN new |-> new[i]]
    BY DEF Registered
  <2> HIDE DEF new
  <2> QED
    BY <1>5, <1>8, <2>1
<1>10. new \in VersionList
    BY <1>1, <1>3, <1>9, ListIntro
<1>11. Max(DOMAIN new) = last
  <2>1. Max(DOMAIN new) \in DOMAIN new /\ \A j \in DOMAIN new : Max(DOMAIN new) >= j
    BY <1>1, <1>3, <1>5, SlotsMax
  <2> QED
    BY <1>1, <1>2, <1>3, <1>5, <2>1 DEF Slots
<1> QED
    BY <1>4, <1>5, <1>6, <1>7, <1>10, <1>11

(* A restriction of a version list is one.                                 *)
LEMMA RestrictFacts ==
    ASSUME NEW vs \in VersionList, NEW S, S \subseteq DOMAIN vs
    PROVE  /\ Restrict(vs, S) \in VersionList
           /\ DOMAIN Restrict(vs, S) = S
           /\ \A i \in S : Restrict(vs, S)[i] = vs[i]
<1>1. DOMAIN vs \subseteq Slots /\ \A i \in DOMAIN vs : vs[i] \in Entry
    BY ListElim
<1>2. Restrict(vs, S) \in [S -> Entry]
    BY <1>1 DEF Restrict
<1> QED
    BY <1>1, <1>2, ListIntro DEF Restrict

(* Activate changes flags only, and flags only matching entries.           *)
LEMMA ActivatedFacts ==
    ASSUME NEW vs \in VersionList, NEW v \in Versions
    PROVE  /\ Activated(vs, v) \in VersionList
           /\ DOMAIN Activated(vs, v) = DOMAIN vs
           /\ \A i \in DOMAIN vs :
                /\ Activated(vs, v)[i].version = vs[i].version
                /\ Activated(vs, v)[i].loads = vs[i].loads
                /\ Activated(vs, v)[i].active = (vs[i].version = v)
<1>1. DOMAIN vs \subseteq Slots /\ \A i \in DOMAIN vs : vs[i] \in Entry
    BY ListElim
<1>2. Activated(vs, v) \in [DOMAIN vs -> Entry]
    BY <1>1 DEF Activated, Entry
<1> QED
    BY <1>1, <1>2, ListIntro DEF Activated, Entry

(* Deprecate changes the deprecated flag of one entry only.                *)
LEMMA DeprecatedFacts ==
    ASSUME NEW vs \in VersionList, NEW k \in DOMAIN vs
    PROVE  /\ DeprecatedAt(vs, k) \in VersionList
           /\ DOMAIN DeprecatedAt(vs, k) = DOMAIN vs
           /\ \A i \in DOMAIN vs :
                /\ DeprecatedAt(vs, k)[i].version = vs[i].version
                /\ DeprecatedAt(vs, k)[i].loads = vs[i].loads
                /\ DeprecatedAt(vs, k)[i].active = vs[i].active
<1>1. DOMAIN vs \subseteq Slots /\ vs \in [DOMAIN vs -> Entry]
    BY ListElim
<1>2. DeprecatedAt(vs, k) \in [DOMAIN vs -> Entry]
    BY <1>1 DEF DeprecatedAt, Entry
<1> QED
    BY <1>1, <1>2, ListIntro DEF DeprecatedAt, Entry

(* Setting one Active flag changes nothing else.                           *)
LEMMA FlaggedFacts ==
    ASSUME NEW vs \in VersionList, NEW k \in DOMAIN vs
    PROVE  /\ FlaggedAt(vs, k) \in VersionList
           /\ DOMAIN FlaggedAt(vs, k) = DOMAIN vs
           /\ \A i \in DOMAIN vs :
                /\ FlaggedAt(vs, k)[i].version = vs[i].version
                /\ FlaggedAt(vs, k)[i].loads = vs[i].loads
                /\ i # k => FlaggedAt(vs, k)[i].active = vs[i].active
<1>1. DOMAIN vs \subseteq Slots /\ vs \in [DOMAIN vs -> Entry]
    BY ListElim
<1>2. FlaggedAt(vs, k) \in [DOMAIN vs -> Entry]
    BY <1>1 DEF FlaggedAt, Entry
<1> QED
    BY <1>1, <1>2, ListIntro DEF FlaggedAt, Entry

(* What DeleteVersion leaves, and which version it makes active.           *)
LEMMA DeletedFacts ==
    ASSUME NEW vs \in VersionList, NEW v \in Versions,
           NEW a \in Versions \cup {None},
           Resolves(vs, a), OnlyFlags(vs, a)
    PROVE  LET new == Deleted(vs, v, a = v)
               act == ActiveAfterDelete(vs, v, a)
           IN  /\ new \in VersionList
               /\ DOMAIN new \subseteq DOMAIN vs
               /\ \A i \in DOMAIN new : /\ new[i].version = vs[i].version
                                        /\ new[i].loads = vs[i].loads
               /\ act \in Versions \cup {None}
               /\ Resolves(new, act)
               /\ OnlyFlags(new, act)
<1> DEFINE out == Without(vs, v)
           new == Deleted(vs, v, a = v)
           act == ActiveAfterDelete(vs, v, a)
           m   == Max(DOMAIN out)
<1>1. DOMAIN vs \subseteq Slots /\ \A i \in DOMAIN vs : vs[i] \in Entry
    BY ListElim
<1>2. /\ out \in VersionList
      /\ DOMAIN out = DOMAIN vs \ Matches(vs, v)
      /\ \A i \in DOMAIN out : out[i] = vs[i]
    BY RestrictFacts DEF Without
<1>3. \A i \in DOMAIN out : out[i].version # v
    BY <1>2 DEF Matches
<1>4. CASE DOMAIN out = {}
  <2>1. new = out /\ act = None
    BY <1>4 DEF Deleted, ActiveAfterDelete, LastVersion
  <2> QED
    BY <1>2, <1>4, <2>1 DEF Resolves, OnlyFlags
<1>5. CASE DOMAIN out # {} /\ a = v
  <2>1. m \in DOMAIN out
    BY <1>1, <1>2, <1>5, SlotsMax
  <2>2. act = out[m].version
    BY <1>5 DEF ActiveAfterDelete, LastVersion
  <2>3. new = FlaggedAt(out, m)
    BY <1>5 DEF Deleted
  <2>4. out \in [DOMAIN out -> Entry] /\ DOMAIN out \subseteq Slots
    BY <1>2, ListElim
  <2> HIDE DEF m, out, new, act
  <2>5. \A i \in DOMAIN out : /\ new[i].version = out[i].version
                              /\ new[i].loads = out[i].loads
                              /\ i # m => new[i].active = out[i].active
    BY <1>2, <2>1, <2>3, FlaggedFacts
  <2>6. new \in VersionList /\ DOMAIN new = DOMAIN out
    BY <1>2, <2>1, <2>3, FlaggedFacts
  <2>7. act \in Versions
    BY <2>1, <2>2, <2>4 DEF Entry
  <2>8. Resolves(new, act)
    BY <2>1, <2>2, <2>5, <2>6, <2>7, ConstantsAssumption DEF Resolves, Matches
  <2>9. \A i \in DOMAIN out : ~out[i].active
    BY <1>2, <1>3, <1>5 DEF OnlyFlags
  <2>10. OnlyFlags(new, act)
    BY <2>2, <2>5, <2>6, <2>9 DEF OnlyFlags
  <2>11. DOMAIN out \subseteq DOMAIN vs
    BY <1>2
  <2> QED
    BY <1>2, <2>5, <2>6, <2>7, <2>8, <2>10, <2>11 DEF new, act
<1>6. CASE DOMAIN out # {} /\ a # v
  <2>1. new = out /\ act = a
    BY <1>6 DEF Deleted, ActiveAfterDelete
  <2>2. a # None
    BY <1>2, <1>6 DEF Resolves
  <2>3. Matches(out, a) # {}
    BY <1>2, <1>6, <2>2 DEF Resolves, Matches
  <2> QED
    BY <1>2, <2>1, <2>2, <2>3 DEF Resolves, OnlyFlags
<1> QED
    BY <1>4, <1>5, <1>6

(* Registering keeps a list in agreement with its active version, and what *)
(* the error path leaves agrees with the previous one.                     *)
LEMMA RegisteredAgrees ==
    ASSUME NEW vs \in VersionList, NEW v \in Versions,
           NextSlot(vs) <= MaxSlot,
           NEW a \in Versions \cup {None}, Resolves(vs, a)
    PROVE  LET new == Registered(vs, v)
           IN  /\ Resolves(new, v)
               /\ OnlyFlags(new, v)
               /\ Resolves(RolledBack(new), a)
               /\ \A i \in DOMAIN new : i # Max(DOMAIN new) => ~new[i].active
<1> DEFINE new == Registered(vs, v)
           last == NextSlot(vs)
           old == RolledBack(new)
<1>1. /\ new \in VersionList
      /\ DOMAIN new = DOMAIN vs \cup {last}
      /\ last \notin DOMAIN vs
      /\ Max(DOMAIN new) = last
      /\ new[last] = NewEntry(v)
      /\ \A i \in DOMAIN vs : new[i] = [vs[i] EXCEPT !.active = FALSE]
    BY RegisteredFacts
<1>2. /\ DOMAIN old = DOMAIN vs
      /\ \A i \in DOMAIN vs : old[i] = new[i]
  <2>1. DOMAIN new \ {Max(DOMAIN new)} = DOMAIN vs
    BY <1>1
  <2> QED
    BY <1>1, <2>1, RestrictFacts DEF RolledBack
<1>3. \A i \in DOMAIN vs : new[i].version = vs[i].version /\ ~new[i].active
  <2>1. \A i \in DOMAIN vs : vs[i] \in Entry
    BY ListElim
  <2> QED
    BY <1>1, <2>1 DEF Entry
<1>4. new[last].version = v
    BY <1>1 DEF NewEntry
<1> HIDE DEF new, last, old
<1>5. Resolves(new, v)
    BY <1>1, <1>4, ConstantsAssumption DEF Resolves, Matches
<1>6. OnlyFlags(new, v)
    BY <1>1, <1>3, <1>4 DEF OnlyFlags
<1>7. Resolves(old, a)
    BY <1>2, <1>3 DEF Resolves, Matches
<1> QED
    BY <1>1, <1>3, <1>5, <1>6, <1>7 DEF new, old

-----------------------------------------------------------------------------
(* Files.                                                                  *)

(* The document saveToFileLocked writes is a file, and a whole one         *)
(* whenever the memory it is taken from agrees.                            *)
LEMMA SnapshotFacts ==
    ASSUME TypeOK, MemoryLoads, ActiveResolves, FlaggedIsActive
    PROVE  Snapshot \in File /\ WholeFile(Snapshot)
<1>1. Snapshot \in File
    BY DEF Snapshot, File, TypeOK
<1>2. \A n \in Names : LoadedActive(Snapshot)[n] = active[n]
  <2> SUFFICES ASSUME NEW n \in Names
               PROVE  LoadedActive(Snapshot)[n] = active[n]
    OBVIOUS
  <2>1. StoredActive(Snapshot) = active
    BY DEF StoredActive, Snapshot
  <2>2. CASE active[n] # None
    BY <2>1, <2>2 DEF LoadedActive
  <2>3. CASE active[n] = None
    <3>1. schemas[n] \in VersionList /\ DOMAIN schemas[n] = {}
      BY <2>3 DEF ActiveResolves, Resolves, TypeOK
    <3>2. DOMAIN LoadedLists(Snapshot)[n] = {}
      BY <3>1 DEF LoadedLists, Snapshot, Restrict
    <3> QED
      BY <2>1, <2>3, <3>2 DEF LoadedActive, FirstVersion
  <2> QED
    BY <2>2, <2>3
<1>3. Snapshot.schemas = schemas
    BY DEF Snapshot
<1> QED
    BY <1>1, <1>2, <1>3 DEF WholeFile, MemoryLoads, ActiveResolves, FlaggedIsActive

(* Loading a whole file builds its lists, and lists that agree.            *)
LEMMA LoadFacts ==
    ASSUME NEW f \in File
    PROVE  /\ LoadedLists(f) \in [Names -> VersionList]
           /\ LoadedActive(f) \in [Names -> Versions \cup {None}]
           /\ WholeFile(f) => LoadedLists(f) = f.schemas
<1>1. f.schemas \in [Names -> VersionList] /\ f.active \in [Names -> Versions \cup {None}]
    BY DEF File
<1>2. \A n \in Names :
        /\ LoadedLists(f)[n] \in VersionList
        /\ LoadedLists(f)[n] = Restrict(f.schemas[n],
                {i \in DOMAIN f.schemas[n] : f.schemas[n][i].loads})
    BY <1>1, RestrictFacts DEF LoadedLists
<1>3. LoadedLists(f) \in [Names -> VersionList]
    BY <1>2 DEF LoadedLists
<1>4. ASSUME NEW vs \in VersionList
      PROVE  /\ LastVersion(vs) \in Versions \cup {None}
             /\ FirstVersion(vs) \in Versions \cup {None}
  <2>1. DOMAIN vs \subseteq Slots /\ \A i \in DOMAIN vs : vs[i].version \in Versions
    BY ListElim DEF Entry
  <2>2. DOMAIN vs # {} => Max(DOMAIN vs) \in DOMAIN vs /\ Min(DOMAIN vs) \in DOMAIN vs
    BY <2>1, SlotsMax, SlotsMin
  <2> QED
    BY <2>1, <2>2 DEF LastVersion, FirstVersion
<1>5. StoredActive(f) \in [Names -> Versions \cup {None}]
    BY <1>1, <1>4 DEF StoredActive
<1>6. LoadedActive(f) \in [Names -> Versions \cup {None}]
    BY <1>2, <1>4, <1>5 DEF LoadedActive
<1>7. ASSUME WholeFile(f) PROVE LoadedLists(f) = f.schemas
  <2>1. ASSUME NEW n \in Names PROVE LoadedLists(f)[n] = f.schemas[n]
    <3>1. {i \in DOMAIN f.schemas[n] : f.schemas[n][i].loads} = DOMAIN f.schemas[n]
      BY <1>7 DEF WholeFile
    <3>2. f.schemas[n] \in [DOMAIN f.schemas[n] -> Entry]
      BY <1>1, ListElim
    <3> QED
      BY <1>2, <3>1, <3>2 DEF Restrict
  <2> QED
    BY <1>1, <1>3, <2>1
<1> QED
    BY <1>3, <1>6, <1>7

-----------------------------------------------------------------------------
(* Type correctness.                                                       *)

(* The last and the first version of a list are versions, or None.         *)
LEMMA VersionEnds ==
    ASSUME NEW vs \in VersionList
    PROVE  /\ LastVersion(vs) \in Versions \cup {None}
           /\ FirstVersion(vs) \in Versions \cup {None}
<1>1. DOMAIN vs \subseteq Slots /\ \A i \in DOMAIN vs : vs[i].version \in Versions
    BY ListElim DEF Entry
<1>2. DOMAIN vs # {} => Max(DOMAIN vs) \in DOMAIN vs /\ Min(DOMAIN vs) \in DOMAIN vs
    BY <1>1, SlotsMax, SlotsMin
<1> QED
    BY <1>1, <1>2 DEF LastVersion, FirstVersion

(* What DeleteVersion leaves is a version list and an active version.      *)
LEMMA DeletedType ==
    ASSUME NEW vs \in VersionList, NEW v \in Versions,
           NEW a \in Versions \cup {None}, NEW p \in BOOLEAN
    PROVE  /\ Deleted(vs, v, p) \in VersionList
           /\ ActiveAfterDelete(vs, v, a) \in Versions \cup {None}
<1> DEFINE out == Without(vs, v)
<1>1. out \in VersionList
    BY RestrictFacts DEF Without
<1>2. DOMAIN out \subseteq Slots
    BY <1>1, ListElim
<1>3. DOMAIN out # {} => Max(DOMAIN out) \in DOMAIN out
    BY <1>2, SlotsMax
<1> HIDE DEF out
<1>4. DOMAIN out # {} => FlaggedAt(out, Max(DOMAIN out)) \in VersionList
    BY <1>1, <1>3, FlaggedFacts
<1> QED
    BY <1>1, <1>4, VersionEnds DEF Deleted, ActiveAfterDelete, out

(* What the type of the state needs to know of the lock.                   *)
TypeInv == TypeOK /\ (phase = "idle" <=> op = None)

(* The initial states have their types.                                    *)
LEMMA TypeInit == Init => TypeInv
<1> SUFFICES ASSUME Init PROVE TypeInv
    OBVIOUS
<1>1. NoSchemas \in [Names -> VersionList]
    BY EmptyListFacts DEF NoSchemas
<1> QED
    BY <1>1, ConstantsAssumption DEF Init, TypeInv, TypeOK, NothingActive

(* A mutator that takes the lock records an operation.                     *)
LEMMA BeginType ==
    ASSUME TypeInv, NEW n \in Names, NEW v \in Versions,
           NEW kind \in {"register", "activate", "deprecate", "delete"},
           Begin(kind, n, v),
           schemas' \in [Names -> VersionList],
           active' \in [Names -> Versions \cup {None}]
    PROVE  TypeInv'
<1>1. op' \in Op
    BY DEF Begin, Op, TypeInv, TypeOK
<1>2. op' # None
    BY <1>1, ConstantsAssumption
<1>3. acked' \in [Names -> Versions \cup {None}]
    BY DEF Begin, TypeInv, TypeOK
<1> QED
    BY <1>1, <1>2, <1>3 DEF Begin, TypeInv, TypeOK

(* The error path of a save keeps the types.                               *)
LEMMA SaveFailedType ==
    ASSUME TypeInv, phase # "idle", SaveFailed, tmp' \in File \cup {None, Torn}
    PROVE  TypeInv'
<1>1. op \in Op
    BY DEF TypeInv, TypeOK
<1>2. op.name \in Names /\ op.prev \in Versions \cup {None}
    BY <1>1 DEF Op
<1>3. schemas[op.name] \in VersionList
    BY <1>2 DEF TypeInv, TypeOK
<1>4. RolledBack(schemas[op.name]) \in VersionList
    BY <1>3, RestrictFacts DEF RolledBack
<1>5. schemas' \in [Names -> VersionList]
    BY <1>4 DEF SaveFailed, TypeInv, TypeOK
<1>6. active' \in [Names -> Versions \cup {None}]
    BY <1>2 DEF SaveFailed, TypeInv, TypeOK
<1> QED
    BY <1>5, <1>6 DEF SaveFailed, TypeInv, TypeOK

(* Every step keeps the types.                                             *)
LEMMA TypeNext == TypeInv /\ [Next]_vars => TypeInv'
<1> SUFFICES ASSUME TypeInv, [Next]_vars PROVE TypeInv'
    OBVIOUS
<1>1. ASSUME NEW n \in Names, NEW v \in Versions, RegisterExisting(n, v)
      PROVE  TypeInv'
    BY <1>1 DEF RegisterExisting, TypeInv, TypeOK
<1>2. ASSUME NEW n \in Names, NEW v \in Versions, RegisterNew(n, v)
      PROVE  TypeInv'
  <2>1. Registered(schemas[n], v) \in VersionList
    BY <1>2, RegisteredFacts DEF RegisterNew, TypeInv, TypeOK
  <2> QED
    BY <1>2, <2>1, BeginType DEF RegisterNew, TypeInv, TypeOK
<1>3. ASSUME NEW n \in Names, NEW v \in Versions, Activate(n, v)
      PROVE  TypeInv'
  <2>1. Activated(schemas[n], v) \in VersionList
    BY ActivatedFacts DEF TypeInv, TypeOK
  <2> QED
    BY <1>3, <2>1, BeginType DEF Activate, TypeInv, TypeOK
<1>4. ASSUME NEW n \in Names, NEW v \in Versions, ActivateMissing(n, v)
      PROVE  TypeInv'
  <2>1. Activated(schemas[n], v) \in VersionList
    BY ActivatedFacts DEF TypeInv, TypeOK
  <2> QED
    BY <1>4, <2>1 DEF ActivateMissing, TypeInv, TypeOK
<1>5. ASSUME NEW n \in Names, NEW v \in Versions, Deprecate(n, v)
      PROVE  TypeInv'
  <2>1. schemas[n] \in VersionList
    BY DEF TypeInv, TypeOK
  <2>2. Min(Matches(schemas[n], v)) \in DOMAIN schemas[n]
    <3>1. Matches(schemas[n], v) \subseteq Slots
      BY <2>1, ListElim DEF Matches
    <3>2. Matches(schemas[n], v) # {}
      BY <1>5 DEF Deprecate
    <3>3. Min(Matches(schemas[n], v)) \in Matches(schemas[n], v)
      BY <3>1, <3>2, SlotsMin
    <3> QED
      BY <3>3 DEF Matches
  <2>3. DeprecatedAt(schemas[n], Min(Matches(schemas[n], v))) \in VersionList
    BY <2>1, <2>2, DeprecatedFacts
  <2> QED
    BY <1>5, <2>3, BeginType DEF Deprecate, TypeInv, TypeOK
<1>6. ASSUME NEW n \in Names, NEW v \in Versions, DeleteVersion(n, v)
      PROVE  TypeInv'
  <2>1. /\ Deleted(schemas[n], v, active[n] = v) \in VersionList
        /\ ActiveAfterDelete(schemas[n], v, active[n]) \in Versions \cup {None}
    BY DeletedType DEF TypeInv, TypeOK
  <2> QED
    BY <1>6, <2>1, BeginType DEF DeleteVersion, TypeInv, TypeOK
<1>7. CASE WriteTemp
    BY <1>7 DEF WriteTemp, Snapshot, File, TypeInv, TypeOK
<1>8. CASE Renamed
  <2>1. op \in Op
    BY <1>8 DEF Renamed, TypeInv, TypeOK
  <2>2. op.name \in Names /\ op.version \in Versions
    BY <2>1 DEF Op
  <2> QED
    BY <1>8, <2>2 DEF Renamed, TypeInv, TypeOK
<1>9. CASE WriteTempFails
    BY <1>9, SaveFailedType DEF WriteTempFails, TypeInv, TypeOK
<1>10. CASE RenameFails
    BY <1>10, SaveFailedType DEF RenameFails, TypeInv, TypeOK
<1>11. NoSchemas \in [Names -> VersionList]
       /\ NothingActive \in [Names -> Versions \cup {None}]
    BY EmptyListFacts DEF NoSchemas, NothingActive
<1>12. CASE StartWithoutFile
    BY <1>11, <1>12 DEF StartWithoutFile, Start, TypeInv, TypeOK
<1>13. CASE StartUnreadable
    BY <1>11, <1>13 DEF StartUnreadable, Start, TypeInv, TypeOK
<1>14. CASE StartFromFile
  <2>1. disk \in File
    BY <1>14 DEF StartFromFile
  <2> QED
    BY <1>14, <2>1, LoadFacts DEF StartFromFile, Start, TypeInv, TypeOK
<1>15. CASE Crash
  <2>1. tmp' \in File \cup {None, Torn}
    BY <1>15 DEF Crash, TypeInv, TypeOK
  <2> QED
    BY <1>11, <1>15, <2>1 DEF Crash, TypeInv, TypeOK
<1>16. CASE UNCHANGED vars
    BY <1>16 DEF vars, TypeInv, TypeOK
<1> QED
    BY <1>1, <1>2, <1>3, <1>4, <1>5, <1>6, <1>7, <1>8, <1>9, <1>10, <1>12,
       <1>13, <1>14, <1>15, <1>16 DEF Next

(* Every state of the registry, its file and its critical section has the  *)
(* type TypeOK gives, whatever the file at the storage path holds at first.*)
THEOREM TypeCorrect == Spec => []TypeOK
<1>1. TypeInv => TypeOK
    BY DEF TypeInv
<1> QED
    BY <1>1, TypeInit, TypeNext, PTL DEF Spec

-----------------------------------------------------------------------------
(* The inductive invariant.                                                *)

(* The inductive invariant contains the typing one.                        *)
LEMMA InvImpliesTypeInv == RegistryInv => TypeInv
BY DEF RegistryInv, LockInv, TypeInv

(* The initial states satisfy the inductive invariant.                     *)
LEMMA InvInit == InitialFilesWhole /\ Init => RegistryInv
<1> SUFFICES ASSUME InitialFilesWhole, Init PROVE RegistryInv
    OBVIOUS
<1>1. TypeOK
    BY TypeInit DEF TypeInv
<1>2. \A n \in Names : DOMAIN schemas[n] = {} /\ active[n] = None
    BY EmptyListFacts DEF Init, NoSchemas, NothingActive
<1>3. LockInv
    BY DEF Init, LockInv
<1>4. RollbackInv
    BY DEF Init, RollbackInv, Registering
<1>5. MemoryLoads /\ ActiveResolves /\ FlaggedIsActive /\ BackedInv
    BY <1>2 DEF MemoryLoads, ActiveResolves, FlaggedIsActive, BackedInv,
                Resolves, OnlyFlags
<1>6. disk \in File => WholeFile(disk)
    BY DEF Init, InitialFilesWhole
<1> QED
    BY <1>1, <1>3, <1>4, <1>5, <1>6 DEF RegistryInv

(* A step that replaces one name's list and active version by ones that    *)
(* agree keeps the three invariants of the memory.                         *)
LEMMA MemoryStep ==
    ASSUME RegistryInv, NEW n \in Names, NEW L, NEW a,
           schemas' = [schemas EXCEPT ![n] = L],
           active' = [active EXCEPT ![n] = a],
           Resolves(L, a), OnlyFlags(L, a), \A i \in DOMAIN L : L[i].loads
    PROVE  MemoryLoads' /\ ActiveResolves' /\ FlaggedIsActive'
<1>1. schemas \in [Names -> VersionList] /\ active \in [Names -> Versions \cup {None}]
    BY DEF RegistryInv, TypeOK
<1>2. schemas'[n] = L /\ active'[n] = a
    BY <1>1
<1>3. \A k \in Names : k # n => schemas'[k] = schemas[k] /\ active'[k] = active[k]
    BY <1>1
<1> QED
    BY <1>2, <1>3 DEF RegistryInv, MemoryLoads, ActiveResolves, FlaggedIsActive

(* A mutator other than Register that begins: its list has no versions     *)
(* that were not there before.                                             *)
LEMMA BeginInv ==
    ASSUME RegistryInv, TypeOK', Serving,
           NEW n \in Names, NEW v \in Versions,
           NEW kind \in {"activate", "deprecate", "delete"},
           Begin(kind, n, v), NEW L, NEW a,
           schemas' = [schemas EXCEPT ![n] = L],
           active' = [active EXCEPT ![n] = a],
           Resolves(L, a), OnlyFlags(L, a),
           DOMAIN L \subseteq DOMAIN schemas[n],
           \A i \in DOMAIN L : /\ L[i].version = schemas[n][i].version
                              /\ L[i].loads = schemas[n][i].loads
    PROVE  RegistryInv'
<1>1. schemas \in [Names -> VersionList] /\ op = None
    BY DEF RegistryInv, TypeOK, LockInv, Serving
<1>2. \A i \in DOMAIN L : L[i].loads
    BY DEF RegistryInv, MemoryLoads
<1>3. MemoryLoads' /\ ActiveResolves' /\ FlaggedIsActive'
    BY <1>2, MemoryStep
<1>4. op' # None /\ op'.kind # "register"
  <2>1. op' \in Op
    BY DEF Begin, Op, RegistryInv, TypeOK
  <2> QED
    BY <2>1, ConstantsAssumption DEF Begin
<1>5. LockInv'
    BY <1>4 DEF Begin, LockInv, Serving
<1>6. RollbackInv'
    BY <1>4 DEF RollbackInv, Registering
<1>7. BackedInv'
  <2> SUFFICES ASSUME NEW k \in Names, NEW i \in DOMAIN schemas'[k]
               PROVE  disk' \in File /\ Matches(disk'.schemas[k], schemas'[k][i].version) # {}
    BY DEF BackedInv
  <2>1. i \in DOMAIN schemas[k] /\ schemas'[k][i].version = schemas[k][i].version
    BY <1>1
  <2>2. disk' = disk
    BY DEF Begin
  <2> QED
    BY <1>1, <2>1, <2>2 DEF RegistryInv, BackedInv, Registering
<1>8. disk' \in File => WholeFile(disk')
    BY DEF Begin, RegistryInv
<1>9. (disk \in File => WholeFile(disk))'
    BY <1>8 DEF WholeFile, LoadedActive, LoadedLists, StoredActive
<1> QED
    BY <1>3, <1>5, <1>6, <1>7, <1>9 DEF RegistryInv

(* Register up to its save: only the new last entry is not in the file.    *)
LEMMA RegisterNewInv ==
    ASSUME RegistryInv, TypeOK', NEW n \in Names, NEW v \in Versions,
           RegisterNew(n, v)
    PROVE  RegistryInv'
<1> DEFINE vs == schemas[n]
           L  == Registered(vs, v)
<1>1. /\ schemas \in [Names -> VersionList] /\ op = None
      /\ vs \in VersionList /\ active[n] \in Versions \cup {None}
      /\ NextSlot(vs) <= MaxSlot /\ Resolves(vs, active[n])
    BY DEF RegistryInv, TypeOK, LockInv, RegisterNew, Serving, ActiveResolves
<1>2. /\ DOMAIN L = DOMAIN vs \cup {NextSlot(vs)}
      /\ Max(DOMAIN L) = NextSlot(vs)
      /\ L[NextSlot(vs)] = NewEntry(v)
      /\ \A i \in DOMAIN vs : L[i] = [vs[i] EXCEPT !.active = FALSE]
    BY <1>1, RegisteredFacts
<1>3. \A i \in DOMAIN vs : L[i].version = vs[i].version /\ L[i].loads = vs[i].loads
  <2>1. \A i \in DOMAIN vs : vs[i] \in Entry
    BY <1>1, ListElim
  <2> QED
    BY <1>2, <2>1 DEF Entry
<1>4. /\ Resolves(L, v) /\ OnlyFlags(L, v)
      /\ Resolves(RolledBack(L), active[n])
      /\ \A i \in DOMAIN L : i # Max(DOMAIN L) => ~L[i].active
    BY <1>1, RegisteredAgrees
<1>5. \A i \in DOMAIN L : L[i].loads
    BY <1>2, <1>3 DEF NewEntry, RegistryInv, MemoryLoads
<1> HIDE DEF L
<1>6. schemas' = [schemas EXCEPT ![n] = L] /\ active' = [active EXCEPT ![n] = v]
    BY DEF RegisterNew, L
<1>7. MemoryLoads' /\ ActiveResolves' /\ FlaggedIsActive'
    BY <1>4, <1>5, <1>6, MemoryStep
<1>8. op' # None /\ op'.kind = "register" /\ op'.name = n /\ op'.prev = active[n]
  <2>1. op' \in Op
    BY DEF RegisterNew, Begin, Op, RegistryInv, TypeOK
  <2> QED
    BY <2>1, ConstantsAssumption DEF RegisterNew, Begin
<1>9. LockInv'
    BY <1>8 DEF RegisterNew, Begin, LockInv, Serving
<1>10. schemas'[n] = L /\ \A k \in Names : k # n => schemas'[k] = schemas[k]
    BY <1>1, <1>6
<1>11. RollbackInv'
    BY <1>2, <1>4, <1>8, <1>10 DEF RollbackInv, Registering
<1>12. disk' = disk
    BY DEF RegisterNew, Begin
<1>13. BackedInv'
  <2> SUFFICES ASSUME NEW k \in Names, NEW i \in DOMAIN schemas'[k],
                      ~(Registering(k)' /\ i = Max(DOMAIN schemas'[k]))
               PROVE  disk' \in File /\ Matches(disk'.schemas[k], schemas'[k][i].version) # {}
    BY DEF BackedInv
  <2>1. i \in DOMAIN schemas[k] /\ schemas'[k][i].version = schemas[k][i].version
    BY <1>2, <1>3, <1>8, <1>10 DEF Registering
  <2> QED
    BY <1>1, <1>12, <2>1 DEF RegistryInv, BackedInv, Registering
<1>14. (disk \in File => WholeFile(disk))'
    BY <1>12 DEF RegistryInv, WholeFile, LoadedActive, LoadedLists, StoredActive
<1> QED
    BY <1>7, <1>9, <1>11, <1>13, <1>14 DEF RegistryInv

(* A failed save: Register's list loses its last entry, which was the only *)
(* one not in the file; the other mutators added none.                     *)
LEMMA SaveFailedInv ==
    ASSUME RegistryInv, TypeOK', phase # "idle", SaveFailed
    PROVE  RegistryInv'
<1>1. op \in Op /\ op # None /\ up
    BY DEF RegistryInv, TypeOK, LockInv
<1>2. schemas \in [Names -> VersionList] /\ active \in [Names -> Versions \cup {None}]
    BY DEF RegistryInv, TypeOK
<1>3. disk' = disk /\ op' = None /\ phase' = "idle" /\ up'
    BY <1>1 DEF SaveFailed
<1>4. (disk \in File => WholeFile(disk))'
    BY <1>3 DEF RegistryInv, WholeFile, LoadedActive, LoadedLists, StoredActive
<1>5. LockInv' /\ RollbackInv'
    BY <1>3 DEF LockInv, RollbackInv, Registering
<1>6. CASE op.kind # "register"
  <2>1. schemas' = schemas /\ active' = active
    BY <1>6 DEF SaveFailed
  <2>2. MemoryLoads' /\ ActiveResolves' /\ FlaggedIsActive'
    BY <2>1 DEF RegistryInv, MemoryLoads, ActiveResolves, FlaggedIsActive
  <2>3. BackedInv'
    BY <1>3, <1>6, <2>1 DEF RegistryInv, BackedInv, Registering
  <2> QED
    BY <1>4, <1>5, <2>2, <2>3 DEF RegistryInv
<1>7. CASE op.kind = "register"
  <2> DEFINE n == op.name
             vs == schemas[n]
             L == RolledBack(vs)
  <2>1. n \in Names /\ Registering(n)
    BY <1>1, <1>7 DEF Op, Registering
  <2>2. vs \in VersionList
    BY <1>2, <2>1
  <2>3. /\ DOMAIN L = DOMAIN vs \ {Max(DOMAIN vs)}
        /\ \A i \in DOMAIN L : L[i] = vs[i]
    BY <2>2, RestrictFacts DEF RolledBack
  <2>4. Resolves(L, op.prev)
    BY <2>1 DEF RegistryInv, RollbackInv
  <2>5. \A i \in DOMAIN L : ~L[i].active
    BY <2>1, <2>3 DEF RegistryInv, RollbackInv
  <2>6. OnlyFlags(L, op.prev)
    BY <2>5 DEF OnlyFlags
  <2>7. \A i \in DOMAIN L : L[i].loads
    BY <2>1, <2>3 DEF RegistryInv, MemoryLoads
  <2>8. schemas' = [schemas EXCEPT ![n] = L] /\ active' = [active EXCEPT ![n] = op.prev]
    BY <1>7 DEF SaveFailed
  <2> HIDE DEF n, L
  <2>9. MemoryLoads' /\ ActiveResolves' /\ FlaggedIsActive'
    BY <2>1, <2>4, <2>6, <2>7, <2>8, MemoryStep
  <2>10. schemas'[n] = L /\ \A k \in Names : k # n => schemas'[k] = schemas[k]
    BY <1>2, <2>1, <2>8
  <2>11. BackedInv'
    <3> SUFFICES ASSUME NEW k \in Names, NEW i \in DOMAIN schemas'[k]
                 PROVE  disk' \in File /\ Matches(disk'.schemas[k], schemas'[k][i].version) # {}
      BY DEF BackedInv
    <3>1. CASE k = n
      BY <1>3, <2>1, <2>3, <2>10, <3>1 DEF RegistryInv, BackedInv
    <3>2. CASE k # n
      <4>1. ~Registering(k)
        BY <2>1, <3>2 DEF Registering
      <4> QED
        BY <1>3, <2>10, <3>2, <4>1 DEF RegistryInv, BackedInv
    <3> QED
      BY <3>1, <3>2
  <2> QED
    BY <1>4, <1>5, <2>9, <2>11 DEF RegistryInv
<1> QED
    BY <1>6, <1>7

(* A start that leaves the file alone and builds lists that agree.         *)
LEMMA StartInv ==
    ASSUME RegistryInv, TypeOK', NEW lists, NEW act, NEW ok,
           Start(lists, act, ok),
           \A n \in Names :
              /\ \A i \in DOMAIN lists[n] :
                    /\ lists[n][i].loads
                    /\ disk \in File
                    /\ Matches(disk.schemas[n], lists[n][i].version) # {}
              /\ Resolves(lists[n], act[n])
              /\ OnlyFlags(lists[n], act[n])
    PROVE  RegistryInv'
<1>1. /\ schemas' = lists /\ active' = act /\ up' = TRUE
      /\ phase' = phase /\ op' = op /\ disk' = disk /\ tmp' = tmp /\ ~up
    BY DEF Start
<1>2. phase = "idle" /\ op = None
    BY <1>1 DEF RegistryInv, LockInv, TypeOK
<1>3. LockInv' /\ RollbackInv'
    BY <1>1, <1>2 DEF LockInv, RollbackInv, Registering
<1>4. MemoryLoads' /\ ActiveResolves' /\ FlaggedIsActive' /\ BackedInv'
    BY <1>1 DEF MemoryLoads, ActiveResolves, FlaggedIsActive, BackedInv
<1>5. (disk \in File => WholeFile(disk))'
    BY <1>1 DEF RegistryInv, WholeFile, LoadedActive, LoadedLists, StoredActive
<1> QED
    BY <1>3, <1>4, <1>5 DEF RegistryInv

(* The rename makes the file a copy of the memory.                         *)
LEMMA RenamedInv ==
    ASSUME RegistryInv, TypeOK', Renamed
    PROVE  RegistryInv'
<1>1. /\ schemas' = schemas /\ active' = active /\ up' = up
      /\ phase' = "idle" /\ op' = None /\ disk' = tmp /\ phase = "rename"
    BY DEF Renamed
<1>2. disk' = Snapshot /\ up
    BY <1>1 DEF RegistryInv, LockInv
<1>3. Snapshot \in File /\ WholeFile(Snapshot)
    BY SnapshotFacts DEF RegistryInv
<1>4. (disk \in File => WholeFile(disk))'
    BY <1>2, <1>3 DEF WholeFile, LoadedActive, LoadedLists, StoredActive
<1>5. LockInv' /\ RollbackInv'
    BY <1>1, <1>2 DEF LockInv, RollbackInv, Registering
<1>6. MemoryLoads' /\ ActiveResolves' /\ FlaggedIsActive'
    BY <1>1 DEF RegistryInv, MemoryLoads, ActiveResolves, FlaggedIsActive
<1>7. BackedInv'
    BY <1>1, <1>2, <1>3 DEF BackedInv, Matches, Snapshot
<1> QED
    BY <1>4, <1>5, <1>6, <1>7 DEF RegistryInv

(* Every step keeps the inductive invariant.                               *)
LEMMA InvNext == RegistryInv /\ [Next]_vars => RegistryInv'
<1> SUFFICES ASSUME RegistryInv, [Next]_vars PROVE RegistryInv'
    OBVIOUS
<1> USE DEF TypeInv
<1>0. TypeOK'
    BY InvImpliesTypeInv, TypeNext
<1>a. /\ schemas \in [Names -> VersionList]
      /\ active \in [Names -> Versions \cup {None}]
      /\ \A n \in Names : Resolves(schemas[n], active[n]) /\ OnlyFlags(schemas[n], active[n])
    BY DEF RegistryInv, TypeOK, ActiveResolves, FlaggedIsActive
<1>1. ASSUME NEW n \in Names, NEW v \in Versions, RegisterExisting(n, v)
      PROVE  RegistryInv'
  <2>1. UNCHANGED <<schemas, active, up, phase, op, disk, tmp>>
    BY <1>1 DEF RegisterExisting
  <2> QED
    BY <1>0, <2>1 DEF RegistryInv, LockInv, RollbackInv, MemoryLoads,
         ActiveResolves, FlaggedIsActive, BackedInv, Registering, Snapshot,
         WholeFile, LoadedActive, LoadedLists, StoredActive
<1>2. ASSUME NEW n \in Names, NEW v \in Versions, RegisterNew(n, v)
      PROVE  RegistryInv'
    BY <1>0, <1>2, RegisterNewInv
<1>3. ASSUME NEW n \in Names, NEW v \in Versions, Activate(n, v)
      PROVE  RegistryInv'
  <2> DEFINE L == Activated(schemas[n], v)
  <2>1. /\ DOMAIN L = DOMAIN schemas[n]
        /\ \A i \in DOMAIN L : /\ L[i].version = schemas[n][i].version
                               /\ L[i].loads = schemas[n][i].loads
                               /\ L[i].active = (schemas[n][i].version = v)
    BY <1>a, ActivatedFacts
  <2>2. Resolves(L, v)
    BY <1>3, <2>1, ConstantsAssumption DEF Activate, Resolves, Matches
  <2>3. OnlyFlags(L, v)
    BY <2>1 DEF OnlyFlags
  <2>4. /\ schemas' = [schemas EXCEPT ![n] = L] /\ active' = [active EXCEPT ![n] = v]
        /\ Begin("activate", n, v) /\ Serving
    BY <1>3 DEF Activate
  <2> HIDE DEF L
  <2> QED
    BY <1>0, <2>1, <2>2, <2>3, <2>4, BeginInv
<1>4. ASSUME NEW n \in Names, NEW v \in Versions, ActivateMissing(n, v)
      PROVE  RegistryInv'
  <2> DEFINE L == Activated(schemas[n], v)
  <2>1. /\ DOMAIN L = DOMAIN schemas[n]
        /\ \A i \in DOMAIN L : /\ L[i].version = schemas[n][i].version
                               /\ L[i].loads = schemas[n][i].loads
                               /\ L[i].active = (schemas[n][i].version = v)
    BY <1>a, ActivatedFacts
  <2>2. Resolves(L, active[n])
    BY <1>a, <2>1 DEF Resolves, Matches
  <2>3. OnlyFlags(L, active[n])
    BY <1>4, <2>1 DEF ActivateMissing, Matches, OnlyFlags
  <2>4. \A i \in DOMAIN L : L[i].loads
    BY <2>1 DEF RegistryInv, MemoryLoads
  <2>5. /\ schemas' = [schemas EXCEPT ![n] = L] /\ active' = [active EXCEPT ![n] = active[n]]
        /\ UNCHANGED <<active, up, phase, op, disk, tmp>> /\ Serving
    BY <1>4, <1>a DEF ActivateMissing
  <2> HIDE DEF L
  <2>6. MemoryLoads' /\ ActiveResolves' /\ FlaggedIsActive'
    BY <2>2, <2>3, <2>4, <2>5, MemoryStep
  <2>7. op = None /\ phase = "idle" /\ up
    BY <2>5 DEF RegistryInv, LockInv, Serving
  <2>8. LockInv' /\ RollbackInv'
    BY <2>5, <2>7 DEF LockInv, RollbackInv, Registering
  <2>9. BackedInv'
    <3> SUFFICES ASSUME NEW k \in Names, NEW i \in DOMAIN schemas'[k]
                 PROVE  disk' \in File /\ Matches(disk'.schemas[k], schemas'[k][i].version) # {}
      BY DEF BackedInv
    <3>1. i \in DOMAIN schemas[k] /\ schemas'[k][i].version = schemas[k][i].version
      BY <1>a, <2>1, <2>5
    <3> QED
      BY <2>5, <2>7, <3>1 DEF RegistryInv, BackedInv, Registering
  <2>10. (disk \in File => WholeFile(disk))'
    BY <2>5 DEF RegistryInv, WholeFile, LoadedActive, LoadedLists, StoredActive
  <2> QED
    BY <1>0, <2>6, <2>8, <2>9, <2>10 DEF RegistryInv
<1>5. ASSUME NEW n \in Names, NEW v \in Versions, Deprecate(n, v)
      PROVE  RegistryInv'
  <2> DEFINE k == Min(Matches(schemas[n], v))
             L == DeprecatedAt(schemas[n], k)
  <2>1. k \in DOMAIN schemas[n]
    <3>1. Matches(schemas[n], v) \subseteq Slots
      BY <1>a, ListElim DEF Matches
    <3>2. Matches(schemas[n], v) # {}
      BY <1>5 DEF Deprecate
    <3>3. k \in Matches(schemas[n], v)
      BY <3>1, <3>2, SlotsMin
    <3> QED
      BY <3>3 DEF Matches
  <2> HIDE DEF k
  <2>2. /\ DOMAIN L = DOMAIN schemas[n]
        /\ \A i \in DOMAIN L : /\ L[i].version = schemas[n][i].version
                               /\ L[i].loads = schemas[n][i].loads
                               /\ L[i].active = schemas[n][i].active
    BY <1>a, <2>1, DeprecatedFacts
  <2> HIDE DEF L
  <2>3. Resolves(L, active[n])
    BY <1>a, <2>2 DEF Resolves, Matches
  <2>4. OnlyFlags(L, active[n])
    BY <1>a, <2>2 DEF OnlyFlags
  <2>5. /\ schemas' = [schemas EXCEPT ![n] = L] /\ active' = [active EXCEPT ![n] = active[n]]
        /\ Begin("deprecate", n, v) /\ Serving
    BY <1>5, <1>a DEF Deprecate, k, L
  <2> DEFINE a == active[n]
  <2>6. /\ schemas' = [schemas EXCEPT ![n] = L] /\ active' = [active EXCEPT ![n] = a]
        /\ Resolves(L, a) /\ OnlyFlags(L, a) /\ DOMAIN L \subseteq DOMAIN schemas[n]
    BY <2>2, <2>3, <2>4, <2>5
  <2> HIDE DEF a
  <2> QED
    BY <1>0, <2>2, <2>5, <2>6, BeginInv
<1>6. ASSUME NEW n \in Names, NEW v \in Versions, DeleteVersion(n, v)
      PROVE  RegistryInv'
  <2> DEFINE L == Deleted(schemas[n], v, active[n] = v)
             a == ActiveAfterDelete(schemas[n], v, active[n])
  <2>1. /\ DOMAIN L \subseteq DOMAIN schemas[n]
        /\ \A i \in DOMAIN L : /\ L[i].version = schemas[n][i].version
                               /\ L[i].loads = schemas[n][i].loads
        /\ Resolves(L, a) /\ OnlyFlags(L, a)
    BY <1>a, DeletedFacts
  <2>2. /\ schemas' = [schemas EXCEPT ![n] = L] /\ active' = [active EXCEPT ![n] = a]
        /\ Begin("delete", n, v) /\ Serving
    BY <1>6 DEF DeleteVersion
  <2> HIDE DEF L, a
  <2> QED
    BY <1>0, <2>1, <2>2, BeginInv
<1>7. CASE WriteTemp
  <2>1. /\ UNCHANGED <<schemas, active, up, op, disk>>
        /\ phase = "write" /\ phase' = "rename" /\ tmp' = Snapshot
    BY <1>7 DEF WriteTemp
  <2>2. LockInv'
    BY <2>1 DEF RegistryInv, LockInv, Snapshot
  <2> QED
    BY <1>0, <2>1, <2>2 DEF RegistryInv, RollbackInv, MemoryLoads,
         ActiveResolves, FlaggedIsActive, BackedInv, Registering,
         WholeFile, LoadedActive, LoadedLists, StoredActive
<1>8. CASE Renamed
    BY <1>0, <1>8, RenamedInv
<1>9. CASE WriteTempFails
    BY <1>0, <1>9, SaveFailedInv DEF WriteTempFails
<1>10. CASE RenameFails
    BY <1>0, <1>10, SaveFailedInv DEF RenameFails
<1>11. \A n \in Names : DOMAIN NoSchemas[n] = {} /\ NothingActive[n] = None
    BY EmptyListFacts DEF NoSchemas, NothingActive
<1>12. CASE StartWithoutFile
    BY <1>0, <1>11, <1>12, StartInv DEF StartWithoutFile, Resolves, OnlyFlags
<1>13. CASE StartUnreadable
    BY <1>0, <1>11, <1>13, StartInv DEF StartUnreadable, Resolves, OnlyFlags
<1>14. CASE StartFromFile
  <2>1. disk \in File /\ WholeFile(disk)
    BY <1>14 DEF StartFromFile, RegistryInv
  <2>2. LoadedLists(disk) = disk.schemas
    BY <2>1, LoadFacts
  <2>3. \A n \in Names :
          /\ \A i \in DOMAIN disk.schemas[n] :
                /\ disk.schemas[n][i].loads
                /\ Matches(disk.schemas[n], disk.schemas[n][i].version) # {}
          /\ Resolves(disk.schemas[n], LoadedActive(disk)[n])
          /\ OnlyFlags(disk.schemas[n], LoadedActive(disk)[n])
    BY <2>1 DEF WholeFile, Matches
  <2>4. Start(disk.schemas, LoadedActive(disk), TRUE)
    BY <1>14, <2>2 DEF StartFromFile
  <2> QED
    BY <1>0, <2>1, <2>3, <2>4, StartInv
<1>15. CASE Crash
  <2>1. /\ schemas' = NoSchemas /\ active' = NothingActive /\ disk' = disk
        /\ phase' = "idle" /\ op' = None /\ up' = FALSE
    BY <1>15 DEF Crash
  <2>2. LockInv' /\ RollbackInv'
    BY <2>1 DEF LockInv, RollbackInv, Registering, NoSchemas, NothingActive, EmptyList
  <2>3. MemoryLoads' /\ ActiveResolves' /\ FlaggedIsActive' /\ BackedInv'
    BY <1>11, <2>1 DEF MemoryLoads, ActiveResolves, FlaggedIsActive, BackedInv,
                       Resolves, OnlyFlags
  <2>4. (disk \in File => WholeFile(disk))'
    BY <2>1 DEF RegistryInv, WholeFile, LoadedActive, LoadedLists, StoredActive
  <2> QED
    BY <1>0, <2>2, <2>3, <2>4 DEF RegistryInv
<1>16. CASE UNCHANGED vars
    BY <1>0, <1>16 DEF vars, RegistryInv, LockInv, RollbackInv, MemoryLoads,
         ActiveResolves, FlaggedIsActive, BackedInv, Registering, Snapshot,
         WholeFile, LoadedActive, LoadedLists, StoredActive
<1> QED
    BY <1>1, <1>2, <1>3, <1>4, <1>5, <1>6, <1>7, <1>8, <1>9, <1>10, <1>12,
       <1>13, <1>14, <1>15, <1>16 DEF Next

(* The inductive invariant holds in every state.                           *)
LEMMA InvHolds == ASSUME InitialFilesWhole PROVE Spec => []RegistryInv
<1>1. Init => RegistryInv
    BY InvInit
<1> QED
    BY <1>1, InvNext, PTL DEF Spec

-----------------------------------------------------------------------------
(* The theorems.                                                           *)

(* Registry.GetActive never misses: a name has an active version exactly   *)
(* when it has versions, and it is one of them, through every sequence of  *)
(* registrations, activations, deletions, failed saves and crashes.        *)
THEOREM LookupsResolve ==
    ASSUME InitialFilesWhole PROVE Spec => []ActiveResolves
<1>1. RegistryInv => ActiveResolves
    BY DEF RegistryInv
<1> QED
    BY <1>1, InvHolds, PTL

(* The Active flags of the metadata never disagree with the active map     *)
(* about which version is active.                                          *)
THEOREM FlagsAgree ==
    ASSUME InitialFilesWhole PROVE Spec => []FlaggedIsActive
<1>1. RegistryInv => FlaggedIsActive
    BY DEF RegistryInv
<1> QED
    BY <1>1, InvHolds, PTL

(* The file left behind at any moment loads into a registry whose lookups  *)
(* resolve (saveToFileLocked followed by LoadFromFile).                    *)
THEOREM FileResolves ==
    ASSUME InitialFilesWhole PROVE Spec => []StoreResolves
<1>1. RegistryInv => StoreResolves
    BY LoadFacts DEF RegistryInv, StoreResolves, WholeFile
<1> QED
    BY <1>1, InvHolds, PTL

(* Whatever is served between two operations is in the file: the error     *)
(* path of Register takes back all that was not saved.                     *)
THEOREM ServedIsStored ==
    ASSUME InitialFilesWhole PROVE Spec => []MemoryBackedByDisk
<1>1. RegistryInv => MemoryBackedByDisk
    BY DEF RegistryInv, MemoryBackedByDisk, BackedInv, LockInv, Serving, Registering
<1> QED
    BY <1>1, InvHolds, PTL

(* No step replaces a complete file by a torn or a missing one, wherever   *)
(* the process is killed: the file changes only by the rename of a .tmp    *)
(* file that holds the whole registry.                                     *)
THEOREM FileStaysWhole ==
    ASSUME InitialFilesWhole PROVE Spec => StoreNeverTorn
<1>1. RegistryInv /\ [Next]_vars => [(disk \in File) => (disk' \in File)]_vars
  <2> SUFFICES ASSUME RegistryInv, Next, disk \in File PROVE disk' \in File
    BY DEF vars
  <2>1. CASE Renamed
    <3>1. disk' = Snapshot
      BY <2>1 DEF Renamed, RegistryInv, LockInv
    <3> QED
      BY <3>1, SnapshotFacts DEF RegistryInv
  <2>2. CASE ~Renamed
    BY <2>2 DEF Next, RegisterExisting, RegisterNew, Activate, ActivateMissing,
         Deprecate, DeleteVersion, Begin, WriteTemp, WriteTempFails,
         RenameFails, SaveFailed, StartWithoutFile, StartUnreadable,
         StartFromFile, Start, Crash
  <2> QED
    BY <2>1, <2>2
<1> QED
    BY <1>1, InvHolds, PTL DEF Spec, StoreNeverTorn
=============================================================================
