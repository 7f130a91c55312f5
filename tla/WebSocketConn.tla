--------------------------- MODULE WebSocketConn ---------------------------
(***************************************************************************)
(* One server-side WebSocket connection (internal/network/websocket.go):   *)
(* the goroutine that reads and assembles messages (subscriptionHandler's  *)
(* loop over ReadMessage), and the goroutines that write beside it (the    *)
(* writers of the subscriptions, and the pinger).                          *)
(*                                                                         *)
(* The peer is part of the model.  A frame it sends is received in the     *)
(* same step: TCP delivers in order and nothing depends on the delay.  The *)
(* payload of a frame is a sequence of copies of the frame's number.       *)
(***************************************************************************)
EXTENDS Integers, Sequences, SequencesExt

CONSTANTS
    Writers,         \* goroutines that call WriteMessage
    Reader,          \* the goroutine of the read loop
    MaxMessageSize,  \* 5 MB in the code
    MaxControl,      \* longest payload of a control frame (125 in the code)
    ControlLens,     \* payload lengths of the peer's pings and pongs
    CloseLens,       \* those of its close frames: none, a lone byte, or a
                     \* status code of two bytes and a reason
    CloseCodes,      \* these codes
    MaxFrames,       \* bound: frames the peer sends
    MaxWrites,       \* bound: messages a writer writes
    None

ASSUME ConnAssumption ==
    /\ MaxMessageSize \in Nat /\ MaxControl \in 0 .. MaxMessageSize
    /\ ControlLens \subseteq Nat /\ CloseLens \subseteq Nat /\ CloseCodes \subseteq Nat
    /\ MaxFrames \in Nat /\ MaxWrites \in Nat
    /\ Reader \notin Writers /\ None \notin Writers \cup {Reader}
    /\ None \notin Seq(Nat)

VARIABLES
    rd,          \* where the read loop is
    assembling,  \* ReadMessage's local of that name
    buf,         \* its messageBuf
    delivered,   \* history: the messages ReadMessage returned
    received,    \* number of frames the peer sent
    conforming,  \* history: the peer has kept to RFC 6455 and to the limit
    composing,   \* the fragments of the message the peer has begun, or None
    crowded,     \* history: a control frame between fragments was longer than
                 \* what the limit leaves for the rest of the message
    peerCodes,   \* history: the status codes the peer closed with
    sentMsgs,    \* history: the messages the peer has completed
    pings,       \* history: payloads of the pings that arrived
    w,           \* where each goroutine is in WriteMessage or CloseWithCode
    job,         \* the frame it writes
    writes,      \* number of messages each goroutine wrote
    wmu,         \* holder of Conn.wmu
    wire,        \* history: what the server put on the wire, a head and a
                 \* body per frame
    closed,      \* Conn.closed
    stalled,     \* a write failed; bufio.Writer keeps the error
    peerReads    \* the peer's receive window has room

readVars == <<rd, assembling, buf, delivered>>
peerVars == <<received, conforming, composing, crowded, peerCodes, sentMsgs, pings>>
writeVars == <<w, job, writes, wmu, wire, closed, stalled>>
vars == <<readVars, peerVars, writeVars, peerReads>>

Goroutines == Writers \cup {Reader}

DataOps == {"text", "continuation"}   \* binary messages differ in the opcode only
ControlOps == {"close", "ping", "pong"}

Payload(k, len) == [i \in 1 .. len |-> k]

(* What the peer may send.  bits stands for the reserved bits, an unknown  *)
(* opcode, the mask bit and the sign of a 64-bit length.                   *)
DataFrames(k) ==
    {[op |-> o, fin |-> f, bits |-> "ok", data |-> Payload(k, l), code |-> None] :
        o \in DataOps, f \in BOOLEAN, l \in 0 .. (MaxMessageSize + 1)}

ControlFrames(k) ==
    {[op |-> o, fin |-> TRUE, bits |-> "ok", data |-> Payload(k, l), code |-> None] :
        o \in {"ping", "pong"}, l \in ControlLens}

(* A status code is the first two bytes of the payload.  A reason that is  *)
(* no UTF-8 is answered like an invalid code, which stands for it.         *)
CloseFrames(k) ==
    {[op |-> "close", fin |-> TRUE, bits |-> "ok", data |-> Payload(k, l), code |-> c] :
        l \in CloseLens \cap 0 .. 1, c \in {None}}
    \cup {[op |-> "close", fin |-> TRUE, bits |-> "ok", data |-> Payload(k, l), code |-> c] :
            l \in CloseLens \ (0 .. 1), c \in CloseCodes}

BadFrames(k) ==
    {[op |-> "text", fin |-> TRUE, bits |-> "bad", data |-> <<>>, code |-> None],
     [op |-> "ping", fin |-> FALSE, bits |-> "ok", data |-> <<>>, code |-> None],
     [op |-> "ping", fin |-> TRUE, bits |-> "ok",
      data |-> Payload(k, MaxControl + 1), code |-> None]}

PeerFrames(k) == DataFrames(k) \cup ControlFrames(k) \cup CloseFrames(k) \cup BadFrames(k)

(* ValidCloseCode.                                                         *)
ValidCloseCode(code) ==
    code \in 1000 .. 1003 \cup 1007 .. 1014 \cup 3000 .. 4999

(* ValidateClosePayload: a payload of one byte has no code.                *)
ClosePayloadValid(f) == f.data = <<>> \/ (f.code # None /\ ValidCloseCode(f.code))

(* What a conforming peer may send: it continues a message it has begun,   *)
(* begins none before that, and keeps each message within the limit.       *)
Conforms(f) ==
    CASE f.op \in DataOps ->
           /\ f.bits = "ok"
           /\ f.op = "continuation" <=> composing # None
           /\ Len(f.data) + (IF composing = None THEN 0 ELSE Len(composing))
                <= MaxMessageSize
      [] OTHER -> /\ f.fin /\ Len(f.data) <= MaxControl
                  /\ f.op = "close" => ClosePayloadValid(f)

(* A control frame that does not fit into the message it comes between.    *)
Crowds(f) ==
    /\ f.op \in ControlOps /\ composing # None
    /\ Len(composing) + Len(f.data) > MaxMessageSize

(* A payload, a frame to write, and one of the two parts of a frame.       *)
Data == Seq(Nat)
Job == [op : DataOps \cup ControlOps, data : Data]
Parts == [by : Goroutines, op : DataOps \cup ControlOps, part : {"head", "body"},
          data : Data]

TypeOK ==
    /\ rd \in {"start", "read", "pong", "reply", "notjson", "refuse", "close",
              "toobig", "abort", "done", "unserved"}
    /\ assembling \in BOOLEAN
    /\ buf \in Data /\ Len(buf) <= MaxMessageSize
    /\ delivered \in Seq(Data)
    /\ \A i \in DOMAIN delivered : Len(delivered[i]) <= MaxMessageSize
    /\ received \in 0 .. MaxFrames /\ conforming \in BOOLEAN
    /\ composing \in {None} \cup Data /\ sentMsgs \in Seq(Data) /\ pings \in Seq(Data)
    /\ crowded \in BOOLEAN /\ peerCodes \subseteq CloseCodes
    /\ w \in [Goroutines -> {"idle", "lock", "head", "body", "stopped"}]
    /\ job \in [Goroutines -> {None} \cup Job]
    /\ writes \in [Goroutines -> 0 .. MaxWrites]
    /\ wmu \in Goroutines \cup {None}
    /\ wire \in Seq(Parts)
    /\ closed \in BOOLEAN /\ stalled \in BOOLEAN /\ peerReads \in BOOLEAN

Init ==
    /\ rd = "start" /\ assembling = FALSE /\ buf = <<>> /\ delivered = <<>>
    /\ received = 0 /\ conforming = TRUE /\ composing = None /\ sentMsgs = <<>> /\ pings = <<>>
    /\ crowded = FALSE /\ peerCodes = {}
    /\ w = [g \in Goroutines |-> "idle"]
    /\ job = [g \in Goroutines |-> None]
    /\ writes = [g \in Goroutines |-> 0]
    /\ wmu = None
    /\ wire = <<>>
    /\ closed = FALSE /\ stalled = FALSE /\ peerReads = TRUE

-----------------------------------------------------------------------------
(* subscriptionHandler after the upgrade.                                  *)

BeginReading ==
    /\ rd = "start"
    /\ rd' = "read"
    /\ UNCHANGED <<assembling, buf, delivered, peerVars, writeVars, peerReads>>

(* http.Error has no effect on a hijacked connection, and the handler      *)
(* returns without closing it.                                             *)
SchemaMissing ==
    /\ rd = "start"
    /\ rd' = "unserved"
    /\ UNCHANGED <<assembling, buf, delivered, peerVars, writeVars, peerReads>>

-----------------------------------------------------------------------------
(* ReadMessage: one action per way through its loop.                       *)

(* The frame arrives; what the peer has sent so far is recorded.           *)
Arrives(f) ==
    /\ rd = "read"
    /\ received < MaxFrames
    /\ f \in PeerFrames(received + 1)
    /\ received' = received + 1
    /\ conforming' = (conforming /\ Conforms(f))
    /\ LET whole == (IF f.op = "continuation" /\ composing # None
                     THEN composing ELSE <<>>) \o f.data
       IN  IF f.op \in DataOps
           THEN /\ composing' = IF f.fin THEN None ELSE whole
                /\ sentMsgs' = IF f.fin THEN Append(sentMsgs, whole) ELSE sentMsgs
           ELSE UNCHANGED <<composing, sentMsgs>>
    /\ pings' = IF f.op = "ping" THEN Append(pings, f.data) ELSE pings
    /\ crowded' = (crowded \/ Crowds(f))
    /\ peerCodes' = peerCodes \cup ({f.code} \ {None})
    /\ UNCHANGED peerReads

Control(f) == f.op \in ControlOps

(* All the checks that answer with failProtocol before the payload.        *)
Malformed(f) ==
    \/ f.bits = "bad"
    \/ Control(f) /\ (~f.fin \/ Len(f.data) > MaxControl)

(* The defect: only the single frame is measured.                          *)
TooBigFrameOnly(f) == Len(f.data) > MaxMessageSize

(* The defect: a message of exactly the limit is refused.                  *)
TooBigOffByOne(f) ==
    \/ Len(f.data) >= MaxMessageSize
    \/ assembling /\ Len(buf) + Len(f.data) >= MaxMessageSize

(* The two size checks.  The second one also counts control frames, which  *)
(* are not part of the message being assembled.                            *)
TooBig(f) ==
    \/ Len(f.data) > MaxMessageSize
    \/ assembling /\ Len(buf) + Len(f.data) > MaxMessageSize

OutOfSequence(f) == ~Control(f) /\ (f.op = "continuation") # assembling

Accepted(f) == ~Malformed(f) /\ ~TooBig(f) /\ ~OutOfSequence(f)

CloseJob(code) == [op |-> "close", data |-> <<code>>]

(* The read loop takes up a write of its own, for the given reason.        *)
ReaderWrites(reason, j) ==
    /\ rd' = reason
    /\ job' = [job EXCEPT ![Reader] = j]
    /\ w' = [w EXCEPT ![Reader] = "lock"]
    /\ UNCHANGED <<writes, wmu, wire, closed, stalled>>

ReadMalformed(f) ==
    /\ Arrives(f)
    /\ Malformed(f) \/ (~TooBig(f) /\ OutOfSequence(f))
    /\ ReaderWrites("close", CloseJob(1002))
    /\ UNCHANGED <<assembling, buf, delivered>>

(* failClose with an error of its own, after which the handler calls Close.*)
ReadTooBig(f) ==
    /\ Arrives(f)
    /\ ~Malformed(f) /\ TooBig(f)
    /\ ReaderWrites("toobig", CloseJob(1009))
    /\ UNCHANGED <<assembling, buf, delivered>>

(* The defect: the pong has no payload.                                    *)
ReadPingEmptyPong(f) ==
    /\ Arrives(f)
    /\ Accepted(f) /\ f.op = "ping"
    /\ ReaderWrites("pong", [op |-> "pong", data |-> <<>>])
    /\ UNCHANGED <<assembling, buf, delivered>>

ReadPing(f) ==
    /\ Arrives(f)
    /\ Accepted(f) /\ f.op = "ping"
    /\ ReaderWrites("pong", [op |-> "pong", data |-> f.data])
    /\ UNCHANGED <<assembling, buf, delivered>>

ReadPong(f) ==
    /\ Arrives(f)
    /\ Accepted(f) /\ f.op = "pong"
    /\ UNCHANGED <<readVars, writeVars>>

(* The defect: the code is echoed unchecked.                               *)
ReplyCodeUnchecked(f) == IF f.code = None THEN 1000 ELSE f.code

(* HandleCloseFrame: 1000 for an empty payload, 1002 for one that is not   *)
(* valid, else the code that came.                                         *)
ReplyCode(f) ==
    IF f.data = <<>> THEN 1000 ELSE IF ClosePayloadValid(f) THEN f.code ELSE 1002

(* ReadMessage returns OpClose and the handler calls HandleCloseFrame.     *)
ReadClose(f) ==
    /\ Arrives(f)
    /\ Accepted(f) /\ f.op = "close"
    /\ ReaderWrites("close", CloseJob(ReplyCode(f)))
    /\ UNCHANGED <<assembling, buf, delivered>>

FirstFragment(f) ==
    /\ Arrives(f)
    /\ Accepted(f) /\ ~Control(f) /\ ~assembling /\ ~f.fin
    /\ assembling' = TRUE
    /\ buf' = f.data
    /\ UNCHANGED <<rd, delivered, writeVars>>

(* The defect: every fragment starts the buffer over.                      *)
NextFragmentOverwrites(f) ==
    /\ Arrives(f)
    /\ Accepted(f) /\ ~Control(f) /\ assembling /\ ~f.fin
    /\ buf' = f.data
    /\ UNCHANGED <<rd, assembling, delivered, writeVars>>

NextFragment(f) ==
    /\ Arrives(f)
    /\ Accepted(f) /\ ~Control(f) /\ assembling /\ ~f.fin
    /\ buf' = buf \o f.data
    /\ UNCHANGED <<rd, assembling, delivered, writeVars>>

(* A message is complete.  The handler answers it with a text message, or  *)
(* not at all, or takes it for the last one because it is not JSON.        *)
Deliver(msg) ==
    /\ delivered' = Append(delivered, msg)
    /\ \/ \E reason \in {"reply", "notjson"} :
             ReaderWrites(reason, [op |-> "text", data |-> <<0>>])
       \/ UNCHANGED <<rd, writeVars>>

WholeMessage(f) ==
    /\ Arrives(f)
    /\ Accepted(f) /\ ~Control(f) /\ ~assembling /\ f.fin
    /\ Deliver(f.data)
    /\ UNCHANGED <<assembling, buf>>

LastFragment(f) ==
    /\ Arrives(f)
    /\ Accepted(f) /\ ~Control(f) /\ assembling /\ f.fin
    /\ assembling' = FALSE
    /\ Deliver(buf \o f.data)
    /\ UNCHANGED buf       \* a local, out of scope from here on

RefuseMessage ==
    /\ rd = "refuse"
    /\ ReaderWrites("close", CloseJob(1007))
    /\ UNCHANGED <<assembling, buf, delivered, peerVars, peerReads>>

(* A read returns an error (end of file, or nothing within the deadline).  *)
ReadFails ==
    /\ rd = "read"
    /\ rd' = "abort"
    /\ UNCHANGED <<assembling, buf, delivered, peerVars, writeVars, peerReads>>

(* Conn.Close, by the handler; without effect if the connection is closed. *)
Abort ==
    /\ rd = "abort"
    /\ wmu = None
    /\ closed' = TRUE
    /\ rd' = "done"
    /\ UNCHANGED <<assembling, buf, delivered, peerVars, w, job, writes, wmu,
                   wire, stalled, peerReads>>

-----------------------------------------------------------------------------
(* WriteMessage, and CloseWithCode by the read loop.                       *)

(* A subscription's frame, or a ping, which has no payload.                *)
Jobs == {[op |-> "text", data |-> <<0>>], [op |-> "ping", data |-> <<>>]}

StartWrite(g) ==
    /\ w[g] = "idle"
    /\ rd \notin {"done", "unserved"}
    /\ writes[g] < MaxWrites
    /\ \E j \in Jobs : job' = [job EXCEPT ![g] = j]
    /\ w' = [w EXCEPT ![g] = "lock"]
    /\ writes' = [writes EXCEPT ![g] = @ + 1]
    /\ UNCHANGED <<readVars, peerVars, wmu, wire, closed, stalled, peerReads>>

(* The defect: no mutex.                                                   *)
AcquireFree(g) ==
    /\ w[g] = "lock"
    /\ wmu' = g
    /\ w' = [w EXCEPT ![g] = "head"]
    /\ UNCHANGED <<readVars, peerVars, job, writes, wire, closed, stalled,
                   peerReads>>

Acquire(g) ==
    /\ w[g] = "lock"
    /\ wmu = None
    /\ wmu' = g
    /\ w' = [w EXCEPT ![g] = "head"]
    /\ UNCHANGED <<readVars, peerVars, job, writes, wire, closed, stalled,
                   peerReads>>

(* Where the read loop goes on after a write of its own.                   *)
After(ok) ==
    CASE rd = "pong"    -> IF ok THEN "read" ELSE "abort"
      [] rd = "reply"   -> "read"
      [] rd = "notjson" -> "refuse"
      [] rd = "close"   -> "done"
      [] rd = "toobig"  -> "abort"

(* The defect: the close frame is written and the connection left open.    *)
FinishLeavesOpen(g, ok) ==
    /\ wmu' = None
    /\ job' = [job EXCEPT ![g] = None]
    /\ IF g = Reader
       THEN /\ rd' = After(ok)
            /\ w' = [w EXCEPT ![g] = "idle"]
       ELSE /\ w' = [w EXCEPT ![g] = IF ok THEN "idle" ELSE "stopped"]
            /\ UNCHANGED rd
    /\ UNCHANGED <<closed, assembling, buf, delivered, peerVars, writes>>

(* The end of WriteMessage or CloseWithCode.  A writer whose write failed  *)
(* returns; CloseWithCode closes the connection in either case.            *)
Finish(g, ok) ==
    /\ wmu' = None
    /\ job' = [job EXCEPT ![g] = None]
    /\ IF g = Reader
       THEN /\ rd' = After(ok)
            /\ w' = [w EXCEPT ![g] = "idle"]
            /\ closed' = (closed \/ job[g].op = "close")
       ELSE /\ w' = [w EXCEPT ![g] = IF ok THEN "idle" ELSE "stopped"]
            /\ UNCHANGED <<rd, closed>>
    /\ UNCHANGED <<assembling, buf, delivered, peerVars, writes>>

Usable == ~closed /\ ~stalled

Piece(g, part) == [by |-> g, op |-> job[g].op, part |-> part, data |-> job[g].data]

WriteHead(g) ==
    /\ w[g] = "head"
    /\ Usable /\ peerReads
    /\ wire' = Append(wire, Piece(g, "head"))
    /\ IF job[g].data = <<>>
       THEN Finish(g, TRUE)
       ELSE /\ w' = [w EXCEPT ![g] = "body"]
            /\ UNCHANGED <<readVars, peerVars, job, writes, wmu, closed>>
    /\ UNCHANGED <<stalled, peerReads>>

WriteBody(g) ==
    /\ w[g] = "body"
    /\ peerReads
    /\ wire' = Append(wire, Piece(g, "body"))
    /\ Finish(g, TRUE)
    /\ UNCHANGED <<stalled, peerReads>>

(* c.closed, or the error bufio.Writer has kept.                           *)
WriteRefused(g) ==
    /\ w[g] = "head"
    /\ ~Usable
    /\ Finish(g, FALSE)
    /\ UNCHANGED <<wire, stalled, peerReads>>

(* The defect: the second write has no deadline.                           *)
WriteTimesOutHead(g) ==
    /\ w[g] = "head"
    /\ Usable /\ ~peerReads
    /\ stalled' = TRUE
    /\ Finish(g, FALSE)
    /\ UNCHANGED <<wire, peerReads>>

(* The deadline of applyWriteDeadline passes while the peer does not read. *)
WriteTimesOut(g) ==
    /\ w[g] \in {"head", "body"}
    /\ Usable /\ ~peerReads
    /\ stalled' = TRUE
    /\ Finish(g, FALSE)
    /\ UNCHANGED <<wire, peerReads>>

(* The session is over: pingStop and the Closed channels are closed.       *)
WriterQuits(g) ==
    /\ g \in Writers
    /\ w[g] = "idle"
    /\ rd \in {"done", "unserved"}
    /\ w' = [w EXCEPT ![g] = "stopped"]
    /\ UNCHANGED <<readVars, peerVars, job, writes, wmu, wire, closed, stalled,
                   peerReads>>

(* The peer's window fills up or empties.                                  *)
PeerWindow ==
    /\ ~closed
    /\ peerReads' = ~peerReads
    /\ UNCHANGED <<readVars, peerVars, writeVars>>

ReadFrame ==
    \E f \in PeerFrames(received + 1) :
        \/ ReadMalformed(f) \/ ReadTooBig(f)
        \/ ReadPing(f) \/ ReadPong(f) \/ ReadClose(f)
        \/ WholeMessage(f) \/ FirstFragment(f) \/ NextFragment(f) \/ LastFragment(f)

WriteStep(g) ==
    \/ Acquire(g) \/ WriteHead(g) \/ WriteBody(g)
    \/ WriteRefused(g) \/ WriteTimesOut(g)

Next ==
    \/ BeginReading
    \/ SchemaMissing
    \/ ReadFrame
    \/ RefuseMessage
    \/ ReadFails
    \/ Abort
    \/ \E g \in Writers : StartWrite(g) \/ WriterQuits(g)
    \/ \E g \in Goroutines : WriteStep(g)
    \/ PeerWindow

Spec == Init /\ [][Next]_vars

(* sync.Mutex is starvation free, a write ends by its deadline, and the    *)
(* select of a writer whose session is over has a ready case.  Nothing is  *)
(* assumed of the peer.                                                    *)
Fairness ==
    /\ WF_vars(RefuseMessage)
    /\ SF_vars(Abort)
    /\ \A g \in Goroutines : SF_vars(Acquire(g)) /\ WF_vars(WriteStep(g))
    /\ \A g \in Writers : WF_vars(WriterQuits(g))

FairSpec == Spec /\ Fairness

-----------------------------------------------------------------------------
(* Properties.                                                             *)

(* The frames of different goroutines do not mix on the wire: the body of  *)
(* a frame follows its head at once, and only the last head may lack its   *)
(* body, while its writer holds wmu or after a write that failed.          *)
FramesWhole ==
    \A i \in DOMAIN wire :
        /\ wire[i].part = "body" =>
              i > 1 /\ wire[i - 1] = [wire[i] EXCEPT !.part = "head"]
        /\ wire[i].part = "head" /\ wire[i].data # <<>> =>
              \/ i < Len(wire) /\ wire[i + 1] = [wire[i] EXCEPT !.part = "body"]
              \/ i = Len(wire) /\ (stalled \/ wmu = wire[i].by)

(* The close frame is the last thing the server puts on the wire, whatever *)
(* the other goroutines were about to write.                               *)
CloseIsLast ==
    \A i \in DOMAIN wire :
        wire[i].op = "close" /\ wire[i].part = "body" => i = Len(wire)

(* The status codes that RFC 6455 allows on the wire.                      *)
AllowedCodes ==
    {c \in 1000 .. 4999 : c \notin {1004, 1005, 1006, 1015} /\ (c < 1016 \/ c > 2999)}

(* A close frame of the server carries a code that RFC 6455 allows on the  *)
(* wire, also when it answers one that does not.                           *)
SentCodesAllowed ==
    \A i \in DOMAIN wire : wire[i].op = "close" => wire[i].data[1] \in AllowedCodes

(* Reassembly: the messages ReadMessage returns are the ones a conforming  *)
(* peer has completed, in their order and with all their fragments, however*)
(* pings and pongs come between the fragments.                             *)
DeliveredAsSent ==
    conforming /\ rd \in {"read", "pong", "reply", "notjson"} =>
        delivered = sentMsgs

(* Position i of the wire is the head of a pong.                           *)
IsPong(i) == wire[i].op = "pong" /\ wire[i].part = "head"

(* Pings are answered in order, each with its own payload: the k-th pong   *)
(* has the payload of the k-th ping.                                       *)
PongsAnswerPings ==
    \A i \in DOMAIN wire : IsPong(i) =>
        LET k == Cardinality({j \in 1 .. i : IsPong(j)})
        IN  k <= Len(pings) /\ wire[i].data = pings[k]

(* The peer gave cause for this code, though it kept to the protocol.      *)
Excused(code) == code \in peerCodes \/ (code = 1009 /\ crowded)

(* A peer that keeps to the protocol and to the size limit is told that it *)
(* violated them only in answer to the same complaint of its own, or when  *)
(* a control frame of it, a close frame too, comes between fragments with  *)
(* a payload longer than the limit leaves for the rest of the message:     *)
(* ReadMessage counts it into that message (websocket.go:345).             *)
OnlyCrowdingRefused ==
    conforming =>
        \A i \in DOMAIN wire :
            wire[i].op = "close" /\ wire[i].data[1] \in {1002, 1009} =>
                Excused(wire[i].data[1])

(* Control frames between fragments "are handled inline without disrupting *)
(* the assembly buffer" (websocket.go:254): such a peer is never told so   *)
(* for a control frame.                                                    *)
ConformingPeerKept ==
    conforming =>
        \A i \in DOMAIN wire :
            wire[i].op = "close" /\ wire[i].data[1] \in {1002, 1009} =>
                wire[i].data[1] \in peerCodes

(* Once the server decides to close the connection, it does so, even if    *)
(* the peer reads nothing and other goroutines are in the middle of a      *)
(* write; and then every one of them returns.                              *)
CloseCompletes ==
    rd \in {"refuse", "close", "toobig", "abort"} ~>
        closed /\ \A g \in Writers : w[g] = "stopped"
=============================================================================
