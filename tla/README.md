# Omni-Schema: a TLA+ model

Omni-Schema is a gateway, written in Go, that converts data between formats,
keeps a registry of schemas and streams events to WebSocket clients. This
directory holds TLA+ modules for the parts of it that keep state and run
concurrently and for the algorithms on payloads, TLC configurations that check
them on small instances, and TLAPS proofs about the registry, the broker, the
connection, the limiter, the gateway, the conversions of values, the numbers and
heads of the codecs and the comparison of schemas. `PROJECT.json` lists
components, runs, mutants, the lines each definition models, findings, hazards
and theorems.

## Inventory

| Component | State | Operations | Interacts with | Hard behaviour | Module |
|---|---|---|---|---|---|
| Schema registry (`internal/registry`) | `schemas`, `active`, `loaded`, the JSON file and its `.tmp` | Register, Activate, Deprecate, DeleteVersion, GetActive, GetVersion, List, save, load | HTTP handlers; subscriptions bind a version of it | failing saves, crash inside a save, damaged files, duplicate versions | Registry, DurableStore, RegistryRefinement |
| Event broker (`internal/stream`) | set of subscriptions, event counter; per subscription: queue, remembered ids, batch, closed channel | AddSubscription, RemoveSubscription, PublishEvent | publishers call it without a common lock; writers read its queues | publishers interleave inside `enqueue` and batching; stale copy of the set; full queue | Broker |
| Subscription session (`subscriptionHandler`) | `activeSubs`, one writer goroutine per subscription, pinger | subscribe/start, complete/stop, other messages, end | broker, connection, registry | replacement of ids, cleanup on every way out, writers that outlive a removal | Broker, WebSocketConn |
| WebSocket connection (`internal/network`) | `closed`, `closeSent`, write lock, assembly buffer | ReadMessage, WriteMessage, CloseWithCode, Close, pinger | session, writers | frames of several goroutines, slow peers and deadlines, fragments with control frames between them | WebSocketConn |
| Rate limiter (`cmd/server`) | map of clients to count and window end | one check per request | every request | time read before the lock, rounding of Retry-After | RateLimiter |
| Routing, authentication, handlers (`cmd/server`) | none of their own | health, register, activate, morph, events | limiter, registry, plan cache, broker | active version changes between two lookups; error paths that must be counted | Gateway |
| Plan cache (`internal/uir/plan.go`) | `sync.Map` of compiled plans | load, compile, publish, apply | morph requests, broker | options that are not part of the key, plans and reports shared by requests | Gateway |
| Projection, coercion, comparison (`internal/uir`) | none | pure functions | handlers, broker | integer widths, rounding, names that look alike, order of a Go map | Coercion, Conversions, Projection, Compatibility |
| Selections of subscriptions (`internal/stream`) | none | choice of the operation, validation, filtering | session, broker | fragments, aliases, fields an event lacks | Selections |
| Codecs (`internal/codec`) | none | encode, decode | handlers, broker | limits of lengths and widths, truncated input, order of fields | Varints, Heads, MessagePack, Cbor, Protobuf, Avro, Columnar, CapnProto |
| Telemetry | counters, ring buffers | observe, snapshot | handlers | counts under concurrency; ring index | Gateway (the counters) |
| Lexers, lowering, example client | none | pure functions | handlers | text of any length | not modelled |

What makes each one correct: a registry lookup never dangles, what was answered
with success survives a crash, and the file is always loadable; an event is
delivered at most once and in its publisher's order, publishing never waits,
and no subscription or goroutine is left behind; frames on a connection stay
whole, messages arrive as sent, and closing always completes; a client is
limited by its own requests only and gets a useful time to come back; a
conversion uses versions that were active while it ran and a report of its own;
a loss of precision is reported; a projection has exactly the declared fields;
a codec reads back what it wrote and notices what was cut off.

## Modules

### Registry

`Registry.tla` models `registry.go` and the start of `main`. A version list is a
function from slots to entries, ordered by slot. The write lock is held from a
mutator's first assignment to the end of `saveToFileLocked`; `phase` is where
its holder stands (`write`: before the `.tmp` file, `rename`: before the
rename), because the process may be killed, or either system call may fail,
there. `RegisterExisting` is Register's early return, `RegisterNew` the rest;
`ActivateMissing` is the Activate that finds no version, having cleared flags
all the same. `SaveFailed` is the common error path: Register rolls back,
the others do not. Starting loads the file: missing, unreadable, a legacy array
(the last entry of a name becomes active), or complete; an entry that
`rebuildRoot` refuses ends the load (`loads = FALSE`). `acked` is a history
variable: the last registration answered with success.

A version is its hash, so two registrations of the same parsed schema are one
version. A rename is atomic and durable once it returns; the power failing
(no `fsync`) is not modelled, only the process being killed.

The proofs about a module are in the module of its name that ends in `Proofs`.

### Broker

`Broker.tla` models `broker.go`, `subscription.go` and the part of
`subscriptionHandler` that manages subscriptions. A publisher (a request to
`/dev/events`) moves through `PublishEvent` with one action per point where
another goroutine may run: the copy of the set, the closed check, Remember,
the schema check, the batch, and the three selects of `enqueue`. The session's
read loop is one process; subscribe and complete are split where the code
writes to the connection or validates the query. A writer goroutine takes a
frame, then writes it, or stops, choosing freely when both are possible, as
`select` does. `conn = "stalled"` is a connection whose write passed its
deadline: `bufio.Writer` keeps that error, so later writes fail while reads go
on. Decoding, matching and projecting may fail for any event (`SkipEvent`,
`BuildFrame`). Event ids are numbers; a client-chosen id may equal a generated
one, as "evt-1" may in the code.

### WebSocketConn

`WebSocketConn.tla` models `websocket.go` in the server role, with the read loop
of the handler around it. Each way through the loop of `ReadMessage` is an
action that takes one frame from the peer. A payload is a sequence of copies of
its frame's number, so a message shows which fragments it was made of. All
header checks that end in `failProtocol` are one predicate (`Malformed`). A
write acquires `wmu`, puts a head and a body on the wire, and ends by success,
by the connection being closed, or by its deadline when the peer does not read.
The peer may send anything; `conforming` records whether it has kept to RFC
6455 and the size limit so far. A close frame is empty, a lone byte, or a status
code of two bytes, which count like any payload; `crowded` records that a
control frame between fragments did not fit into what the limit leaves for the
rest of the message, because `ReadMessage` adds it to that message and answers
1009. `OnlyCrowdingRefused` says that this is the only way a conforming peer is
refused. A request for a missing schema ends in
`unserved`: `http.Error` has no effect on the hijacked connection, and nothing
in the handler closes it. `closeSent` needs no variable: only the read loop
calls `CloseWithCode`, and once.

### DurableStore and RegistryRefinement

`DurableStore.tla` is the abstract specification of the registry: per name, the
versions by slot and the active one, changed by atomic operations, and what
readers are given. `RegistryRefinement.tla` maps the registry to it: the store
is what a restart would load from the file at this moment, and readers see the
memory while the process serves and nobody holds the lock. A save's rename is
then the step that changes the store; writing the `.tmp` file, crashing and
restarting are steps that leave it as it is. The refinement is about saves that
succeed: `Activate` keeps its change in memory when the save fails, so it does
not hold otherwise (run `registry_ack_after_failed_save` shows what follows).

### RateLimiter

`rateLimiter.middleware`. `Arrive` reads the clock and the key, `Count` is the
part under the lock, `Limited` the answer 429, for which the clock is read
again. Between them other requests may pass and time may go by, so a request
may find a window that began after its own time. The key of a client comes from
`X-Forwarded-For`, its credential or its address, as in `rateLimitKey`; a tick
is a part of a second (`Second` ticks make one), so that the rounding of
`Retry-After` matters.

### Gateway

The composition of limiter, authentication, schema handlers, `morphHandler`,
plan cache and events. A request goes through the limiter, is dispatched, and
moves through its handler with one action per access to shared state: the two
lookups of the active version, loading, compiling and publishing a plan,
applying it. `CompilePlan` stores the plan under the names of the two nodes
besides, as the code does. A plan is the version it projects to, its
`EmitNullForMissing` and its report; conversions work on a copy with a report of
their own, events on the cached plan itself. Errors of decoding, projection and
encoding may happen to any request. One schema name stands for all; the
registry is reduced to its versions and the active one. `Workloads` says which
kinds of requests a behaviour has, so that one run asks several questions
without the product of all of them.

### Digits, Coercion, Conversions, Compatibility, Projection, Selections

`Digits.tla` has what the machine does with integers: powers of two, the low bits,
an integer as digits and back. `Coercion.tla` has the table of `compat.go` and `coerceValue` with its helpers.
Integers have `W32` and `W64` bits and floats significands of `M32` and `M64`
bits; the assumption keeps their order as in 24 < 32 <= 53 < 64, on which every
comparison of the code depends. Where Go leaves the conversion of a float to an
integer to the machine, the result is any of the possible ones. A number that may have a fraction is counted in
halves; `Values` has the values of every Go type. `Conversions.tla` has the task of converting one value and what its
result must be; it is apart from the other tasks because theorems about it are
proved.
`Compatibility.tla` has `DiffRecursive` and `CompatibilityClass`, over the nodes
of any finite schemas.
`Projection.tla` has `ResolvePayloadType` and `Project` with its options; a field whose name matches several names of the data may
take any, because the code ranges over a Go map. Its recursions are recursive
functions, over the nodes of the schemas and over data of at most `Deep` levels
(`DataTrees`; `Names` are the names that occur), because theorems about them are
proved: `Projecting` is `projectNode` for given options, and `Fitting` of
`Calculations` says which results fit a schema. `Selections.tla` has the choice
of the operation, the validation of a query against the schema, the expansion
of fragments and `filterBySelection`.

### Codecs: Bytes, Varints, Heads, MessagePack, Cbor, Protobuf, Avro, Columnar, CapnProto

Encoders and decoders as operators on byte sequences. `Bytes.tla` has payload
trees and numbers in big-endian bytes, where a byte has `ByteBits` bits instead
of 8: all boundaries of lengths and widths are then within reach. `Heads.tla` has
how MessagePack and CBOR begin a value, where a head byte is a pair of its kind
and the number in it. `Varints.tla` has the numbers of Protobuf and Avro; varints
carry `Group` bits per byte, chosen so that the last byte of the longest one is
only partly used, as the tenth byte of 64 bits is. Decoders answer with a tree and the rest of the
input, refuse, or panic (an index out of range in Go). `Columnar.tla` has Parquet and
HDF5 files as a directory of columns and the bytes of their values;
`CapnProto.tla` has a message as words.

### Calculations, Payloads

`Calculations.tla` has the tasks of reading a varint, of comparing two
schemas and of projecting data and then the result; it is apart from the others because theorems about it are proved.
`Payloads.tla` turns the operators into behaviours: each one is a task that is
converted (the action of `Conversions`), read, compared or projected (those of
`Calculations`), subscribed to and delivered, or transferred, where a transfer decodes a source in any order of its fields,
encodes it, possibly loses the end of it and decodes it again.
`ValidateCBORTarget` is applied where the source was CBOR. This module, the
codecs of whole payloads and `Selections` use RECURSIVE operators for trees and are
for TLC only.

## Runs

| Run | Checks | Bounds | Result |
|---|---|---|---|
| registry_faults | types, lookups, flags, file, memory against file, whole file kept | 1 name, 2 versions, 3 slots; saves may fail, crashes anywhere; no file or a legacy one first | holds |
| registry_durable | acknowledged registrations survive; the registry implements `DurableStore` | 2 names, 2 slots, saves succeed; all initial files: none, legacy, torn, one that loads partly, one without an active map | holds |
| registry_ack_after_failed_save | acknowledged registrations survive failing saves | 1 name | violated |
| broker_delivery | types, at most once, publisher order | 2 publishers with 2 events each, queue of 2, batches of 1 or 2, a colliding id, remembered set limited to 2 | holds |
| broker_session | no orphans, sessions end, removed writers stop, publishing returns | 2 subscriptions that replace each other, 2 events, queue of 1, all faults | holds |
| conn_frames | types and buffer limit, close codes, messages arrive as sent, a conforming peer is refused only for crowding control frames | any 3 frames, limit of 2 bytes, control frames of up to 2 bytes, close frames with and without a code | holds |
| conn_writers | whole frames, close frame last, pongs, closing completes | 1 writer with 2 messages beside the read loop, any 2 frames, a peer that may not read | holds |
| conn_limit | conforming peers are kept | control frames with a payload, close frames with a code | violated |
| gateway_requests | types, bursts, limits by own key, Retry-After, fresh versions, own report, counters | 3 requests, limit 1, window of 3 ticks, 2 ticks per second, 2 versions, 4 workloads | holds |
| gateway_options | no nulls for Protobuf | the same | violated |
| payloads | types, loss, lossless table, projection, its stability, selections, compatibility class, round trips, truncation, varints | integers of 3 and 5 bits, significands of 2 and 4; bytes of 2 bits; varints of 16 bits in groups of 3; trees of depth 2, data of at most `Deep` = 4 levels that is projected | holds |
| avro_fields | round trip | records whose members come in any order | violated |

A violated run states what a document or comment of the repository says;
`findings` in `PROJECT.json` quotes it. In short: Register can report success
for a version that is active only in memory; control frames count towards the
size of the message around them; the options of a conversion are not part of
the key of the plan cache, so that a Protobuf conversion may use a plan that
emits nulls; and Avro records are written in the order of their own members
under the first record's schema.

Some properties state an exception where the code's behaviour is known and
narrow. `LossIsReported` leaves out the powers of two at the limit of an integer
type, where the code's comparison is with a rounded float, and the rounding of a
uint64 to float64, which is reported as safe. `ProjectionStable` needs names
that differ and `EmitNullForMissing` off. `SelectionHonoured` leaves out a field
selected twice (the last selection wins), root fields without selections, the
elements of arrays and other target types; a selected field that the event lacks
is null, unless the broker finds a plan that a conversion to Protobuf or Cap'n
Proto has left in the shared cache: then such a field, and no other, may be left
out. `CutIsNoticed` lets Protobuf give the
fields that are whole and Avro a file without records, since neither format
marks its end. `OwnReport` is about conversions: an event works on the cached
plan and writes to the report of the conversion that compiled it.

`RoundTrip` compares what was read with what the format holds of what was
written, which `Held` defines:

- MessagePack and CBOR: everything. A key of a map, an integer or a float may
  have another type of the same value.
- Protobuf (`InMessage`): a null is left out; the elements of an array are the
  values of one field, a null among them an empty text; the name of an enum is
  written as 0, so it comes back as the name with the number 0.
- Avro, Parquet and HDF5 (`InRecords`, `InField`): an array of one record comes
  back as that record, and HDF5 has no records without fields. The name of an
  enum is a text; Avro writes an enum's number and the fields of fixed size as
  an empty text. A uint32 above the largest int32 is negative in Avro and
  Parquet, and every uint32 is 0 in HDF5.
- Cap'n Proto: SInt32 and SFixed32 come back without their sign, a 64-bit number
  above the largest int64 with one, and an enum is a number, 0 for a name.

Payloads for these four come as CBOR, of which `ValidateCBORTarget` refuses
nested containers and unequal records (files), nulls (all but Avro), a uint64
above the largest int64 (files) and byte strings (Parquet). Not among the transfers are
nested and null fields of Cap'n Proto structs (the hazard at capnproto.go:92).

Why the bounds are enough. Three slots hold a version, another, and the first
again, which is the smallest history with a duplicate that is not the active
one. Two names are needed for the damaged file, where one precedes the other.
Two publishers are enough for every race inside `enqueue`: one that has made
room and one that takes it; each needs a second event so that the queue is full
first. Two subscriptions and one id allow replacement while a publisher holds a
copy of the set; a session that ends with several subscriptions only repeats
the removal. A limit of two bytes allows a message of two fragments that meets
the limit exactly. A remembered set limited to 2 holds three ids before it is
emptied, by the fourth; the documentation promises duplicate suppression only
within the remembered set, so `AtMostOnce` leaves out subscriptions whose set
has been emptied. Three requests with a limit of one are enough for three
windows of one key, which is what `BurstBound` must exclude, and for a
conversion, another one that shares its plan and an activation between them; a
window of one and a half seconds makes the rounding of Retry-After matter. The
numbers of the payloads are all values of the small integer types, and lengths
and numbers on both sides of every power of the radix; the limits of depth and
items are met exactly and passed by one. Schemas have two fields with names that
are equal, look alike or differ, one of them an object or an array; documents
have one or two operations with nested fragments. Publishers, requests and
versions are interchangeable: symmetry is used in `broker_delivery` and in the
gateway's runs, which have no temporal property. The runs of broker, connection,
gateway and payloads do not check deadlock: a session ends, publishers and
requests are finite, a task has a result, so these systems may stop.

## Fairness

Registry, gateway and payloads have no liveness property. `PublisherFairness`
lets a goroutine inside `PublishEvent` go on: none of its steps waits, and the
locks it takes are held for a few assignments. `PublishReturns` is checked under that alone. The
properties of the session assume `SessionFairness` besides: writes end by their
deadline (30 s), a select with a ready case proceeds, a read on a closed
connection returns, and deferred calls run. In `WebSocketConn`
acquiring the lock is strongly fair, because `sync.Mutex` hands itself to a
waiter that has starved for a millisecond, and a write step is weakly fair,
because of its deadline; nothing is assumed of the peer.

## Proofs

The theorems hold for all sets of names, versions, publishers, requests and
goroutines, any capacity, limit and window, and any bound on the number of
events and frames: what a run shows for two publishers is proved for every
number. The assumptions on constants are the named `ASSUME`s of the modules,
which TLC evaluates on every run; a further hypothesis is part of the theorem.
None of the invariants the runs check is inductive by itself; each proof states
the stronger one by name, has a lemma per helper of the model,
one per action or kind of step, and combines them in a temporal step.

### Registry

`TypeCorrect`, for any initial file, needs besides the types only that an
operation is recorded exactly while the lock is held. `LookupsResolve`,
`FlagsAgree`, `FileResolves`, `ServedIsStored` and `FileStaysWhole` state
`ActiveResolves`, `FlaggedIsActive`, `StoreResolves`, `MemoryBackedByDisk` and
the action property `StoreNeverTorn`, with failing saves and crashes, provided
the first file is one the program wrote or a legacy file (`InitialFilesWhole`).
A file with an entry that does not load breaks them, so the hypothesis is needed.
`RegistryInv` adds: who holds the lock and what the `.tmp` file then contains
(`LockInv`); that the list an unfinished registration leaves after a rollback
agrees with the previous active version (`RollbackInv`), without which a failed
save could dangle; that every version in memory, except the one being
registered, is in the file (`BackedInv`); and that the file is whole, without
which a restart could break the rest. First and last slots exist by well-founded
induction on the naturals (`SlotsMin`, `SlotsMax`).

### Refinement of the durable store

`RegistryIsDurable` (the registry implements `DurableStore`) and
`RegistrationIsDurable` (`AckedRegistrationDurable`) assume that saves succeed
(`~SaveMayFail`), for the reason given above, and nothing about the first file:
torn ones and those that load in part are included. The invariant `DurableInv`
says that memory and file have the same content while nobody holds the lock,
that in an operation memory is ahead of the file by just that operation's atomic
change (`InStep`, with `AfterOp`), that the `.tmp` file about to be renamed is
what memory holds and would load (`Writable`), and that what was acknowledged
is in the file (`AckedStored`). The step lemmas then show for every action
that it is the abstract operation (the rename), a read, or a stutter.

### Rate limiter and gateway

`LimiterCorrect` proves the types, `BurstBound`, `LimitedByOwnKey` and
`RetryMeetsNewWindow` of `LimiterSpec`. A request uses the time it read before
it got the lock and, when refused, a copy of the entry that others go on
changing. `LimiterInv` therefore says that no time read is still to come and no
window ends later than one begun now would (`Timely`), that a copy is an earlier
count of the current entry or belongs to a window that ended before
(`Precedes`), that two windows of a key do not overlap (`Apart`), and that a
refusal's window was filled by that key's own requests (`Filled`). `BurstBound`
follows by counting: an interval of the length of a window meets at most two of
them, and each grants at most the limit.

`GatewayRunsLimiter` shows that a behaviour of the gateway is one of the limiter
(the handlers never touch its state), which gives `GatewayBurstBound`,
`GatewayLimitedByOwnKey` and `GatewayRetryMeetsNewWindow`. `GatewayTyped`,
`GatewayFreshVersions`, `GatewayOwnReport` and `GatewayMetricsAddUp` rest on
`HandlerInv`: what a handler has set where it stands (`Progress`), that a plan
cached under a pair of versions projects to the second of them (`CacheSound`),
that a looked-up version was active since the request began (`Looked`), and that the
counters are the numbers of requests that have taken each path (`Accounted`).

### Connection

`WireInv` is the types, what each goroutine is writing and who holds the lock
(`InControl`), the body that the last head is waiting for (`BodyDue`), the
structure of the wire (`Framed`) and the closed flag against the close frame
(`Sealed`). `ConnTyped`, `ConnFramesWhole`, `ConnCloseIsLast` and
`ConnSentCodesAllowed` follow from it. `ConnDeliveredAsSent` adds `Reassembled`:
while the peer conforms, the assembly buffer is what its unfinished message has
been so far. `ConnPongsAnswerPings` adds `PongsInStep`: before the next frame is
read as many pongs are on the wire as there were pings, the one being written
not counted. `ConnOnlyCrowdingRefused` adds `Blameless`: what the read loop
is about to say, and what is on the wire, blames a conforming peer only with a
code it has itself closed with (it is echoed) or with 1009 after `crowded`. It
rests on `ConformingAccepted`: a frame of such a peer is refused by no check but
that of the size, and only if it crowds a message (run `conn_limit` shows such a
ping or close frame). Nothing is assumed of the peer.

### Broker

`Control` says what publishers and writers have at hand where they stand, and
`SessionInv` that a subscription belongs to at most one id of its session and
has been started; with the types they give `BrokerTyped` and `BrokerNoOrphans`.

`BrokerAtMostOnce`: `Remember` and the enqueueing of a frame are separate steps,
and so are the three selects of `enqueue`, so an event may be in a publisher's
hands, in the batch, in the queue, in the writer's hand or delivered. `OnceInv`
says that all of these are pairwise apart by their ids and that each id is in the
remembered set, for every subscription whose set has not been emptied.
`Remember` is the only step that puts an id in a new place, and it refuses the
ids the invariant speaks of; every other step moves frames or drops them.

`BrokerPublisherOrder`: without batching, the pipeline of a subscription (what
was delivered, what its writer has, its queue) is in the order of each
publisher, and holds of a publisher that still owes its event to that
subscription only earlier ones (`OrderInv`, `Past`). That is needed for `Send`
and `Resend`, which append the owed event. Dropping the oldest frame makes a
pipeline thinner (`Thinner`), which keeps both invariants. With batching the
order is lost in the code, too: a batch that is full is enqueued after the lock
is released.

### Conversions

`ResultsFit` (the result is a value of the Go type that was asked for), `LossReported`
(`LossIsReported`) and `LosslessKeeps` (`LosslessEntriesHold`) hold for integers
and significands of any widths in the order of `WidthAssumption`, and for all
values; the run checks them for widths of 3 and 5 bits. They assume of a task
only `TasksAssumption`: its value has a Go type of the type it is declared to
have, and a number of that Go type. `ConversionSpec` is a conversion task of
`Payloads` by itself, whose only action is `Convert`; `Payloads` itself reaches
RECURSIVE operators, so nothing can be proved in it.

`ConversionInv` is no more than that the result is one that `coerceValue` gives,
so the argument is about the operators, bottom up:

- `Pow2` is a recursive function, and the induction theorems of the library
  cannot be used. That it satisfies its recursion is shown with finite chains
  of doublings, which exist and agree because a least counterexample would have
  a predecessor (`Least`).
- `Round` gives the nearest multiple of a power of two: it keeps every multiple
  of one that has few enough bits, never exceeds the next power of two, and
  rounding twice is rounding once (`RoundMeaning` to `RoundIdempotent`). From
  these follow the facts `coerceValue` relies on: an integer of 32 bits fits a
  float64 (`SmallIntegers`), and an integer of 64 bits becomes a whole float that
  is at most the power of two above its type (`IntegerRounded`).
- Each helper of `coerceValue` has a contract (`ToInt64Facts` and the like), and
  each case of its switch is `Sound`: the result is in range, and a changed
  number is reported unless it is at the limit. `CoerceCorrect` adds what the
  table, the policy and the notes do to the reported kind. `CoerceKeeps` goes
  through the table's lossless entries (`LosslessTable`), each of which accepts
  and keeps the value (`Kept`). `CoerceTyped` says the same of all values, texts,
  booleans and bytes included: the Go type of the result is one of the target's.
  Excepted is a number that becomes a Boolean, which keeps its own Go type unless
  it is an int64.

### Numbers, heads, schemas and projections

`PayloadProofs.tla` is about `Varints`, `Heads`, `Compatibility` and `Projection`, with the
behaviours of `Calculations`. Its theorems hold for bytes of any number of bits
(at least 2, `ByteAssumption`), groups of any size below the width of a varint
(`VarintAssumption`), any limits of the heads that fit their bytes
(`HeadAssumption`), and schemas that are finite and whose fields have different
names within one object (`NodesAssumption`), whose names, types and defaults are
names, types and values (`SchemaAssumption`), and data of any finite depth; of a
task they assume that its bytes are bytes, its schemas schemas and its data data
(`CalculationAssumption`).

- Recursive functions. `FixedPoint` says that a recursion whose calls lower a
  measure has a solution, by a least counterexample over sets of functions. With
  it the definitions of `Sums`, `DiffWalk` and `Paths` are unfolded once and
  for all (`SumsFacts`, `WalkEquation`, `PathsEquation`), and inductions are again
  least counterexamples of the measure.
- Digits. `DivUnique`, `DigitSums` and `NumberOfDigits` say that an integer is
  taken apart into digits and put together without loss, below the limit that
  their number sets. Varints, fixed-size and big-endian numbers all rest on it.
- Varints. `VarintRoundTrip`: what `encodeVarint` writes is read back, whatever
  follows. `VarintsAreExact` (`VarintExact`): no sequence of bytes is accepted
  with a number other than the one it denotes. The argument is about the last
  byte (`AcceptedFits`): where its limit holds, what the groups denote is below
  2^64, so that the shifts of the code lose nothing.
  `LongRoundTrip` adds Avro's zigzag, `NumberFieldRoundTrip` a Protobuf field's tag
  and number, for each of its types with its width and sign.
- Heads. `MessagePackHeads` and `CborHeads`: the smallest form of a head that holds
  a number is read back, at every boundary of the widths, and no prefix of it
  is a head. That no head is a prefix of another is what lets a decoder notice a
  cut there.
- Schemas. `ClassesAreContainment` (`ClassIsContainment`): the comparison walks two
  trees at once and reports changes with paths, while the class speaks of two
  sets of declarations. `WalkContainment` relates them for all pairs of nodes under
  one path: nothing is reported removed or changed below it exactly when the
  declarations of the first are among those of the second, and nothing added
  or changed exactly when it is the other way round.
- Projections. `ProjectionsFit` (`ProjectionFits`): every projection that succeeds
  fits its schema, and so does the projection of its result. The invariant
  `FitInv` adds that the result of the first is data that can be projected, one
  level deeper at most (a missing field adds a level). `projectNode` descends in the data, not in the schema, whose named types
  may refer to each other, so the measure is the depth of the data (`Depth`):
  `ProjectEquation` unfolds the recursion, `FitEquation` that of `Fitting`, and
  `ProjectGood` is the induction. `ProjectStep` has one lemma for scalars, for
  arrays and for objects; `MembersFacts` says of an object's fields, of which
  those without a value are left out, that the rest keep their order and
  which field each one is; `MissingFacts` is about defaults and nulls, and
  `ConvertedFacts` takes the types of values from `CoerceTyped`. `RenameFits` is
  needed because a field that was found under another name gets its own.
  The theorem is about the options under which unknown fields are ignored or refused:
  those that are preserved are not declared.

### Only model-checked

- Liveness (`PublishReturns`, `SessionEnds`, `RemovedWritersStop`,
  `CloseCompletes`): fairness is out of this prover's reach.
- `ProjectionStable` and `SelectionHonoured` of `Payloads`, and
  `RoundTrip`, `CutIsNoticed` and the part of `TypeOK` about decoded numbers, for
  whole payloads: their operators are RECURSIVE ones over trees, in which the
  prover cannot reason. What they are made of is proved: the projection, the
  conversion of each value, each number and head.
- The properties that the violated runs refute.

## Not modelled

- Lexers and lowering: sequential processing of texts character by character;
  schemas and queries enter the model as the trees they produce. Of the JSON
  lexer only the order of members is used. JSON, OData and GraphQL SDL as
  output are texts made mostly by the standard library.
- Telemetry's histograms and percentiles: nothing in the server depends on them.
- Nested Cap'n Proto structs, Avro's nested schemas,
  which the decoders do not give back as they were written; the binary envelope
  of events, which only clients read.
- Fragments that spread each other: the code expands them without end, and so
  would the model.
- Defaults that do not convert to their field's type: the schemas of the runs
  have none. The code keeps such a text as it is, and so does the model, to which
  the theorem about projections applies: `Defaulted` names the exception.
- The HTTP upgrade, the client role of `Conn`, multipart bodies, tenants' names,
  `SaveToFile` (no caller), the example client.
- Reads of shared metadata outside the registry's lock, which change nothing;
  graceful shutdown, which for the registry is a crash with the lock free.
- The growth of the limiter's map and of the plan cache: nothing bounds them,
  and the model's keys are a fixed set.

Go's memory model is taken as sequentially consistent.

## Plan

What is left:

1. Whole payloads: the encoders and decoders as recursive functions
   with a measure, as `Projection` has them, to which `FixedPoint` applies; then
   `RoundTrip` by induction over it.
2. Theorems that relate the parts: that a session's frames, in the order the
   broker hands them out, are what the connection delivers.
