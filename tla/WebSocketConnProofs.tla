------------------------ MODULE WebSocketConnProofs ------------------------
(***************************************************************************)
(* Proofs about WebSocketConn: type correctness, whole frames and the last *)
(* close frame on the wire, its codes, the answers to pings, and the       *)
(* reassembly of messages, for any number of writers and any bounds on     *)
(* frames, writes and sizes.                                               *)
(***************************************************************************)
EXTENDS WebSocketConn, FiniteSetTheorems, SequenceTheorems, TLAPS

-----------------------------------------------------------------------------
(* The inductive invariant.                                                *)

Busy == {"pong", "reply", "notjson", "close", "toobig"}
Writing == {"lock", "head", "body"}

(* What goroutine g may write: closes and pongs come from the read loop.   *)
Permitted(g, j) ==
    /\ j \in Job
    /\ j.op = "close" => /\ g = Reader
                         /\ Len(j.data) = 1 /\ j.data[1] \in AllowedCodes
    /\ j.op = "pong" => g = Reader

(* The read loop is busy while it writes, each goroutine in WriteMessage   *)
(* has its frame, and the holder of wmu is the one between its two writes. *)
InControl ==
    /\ rd \in Busy <=> w[Reader] # "idle"
    /\ w[Reader] # "stopped"
    /\ \A g \in Goroutines : /\ w[g] \in Writing => Permitted(g, job[g])
                             /\ w[g] \in {"head", "body"} <=> wmu = g
    /\ rd = "pong" <=> w[Reader] \in Writing /\ job[Reader].op = "pong"

(* Between its two writes a goroutine's head is the last thing on the wire *)
(* and the connection is usable.                                           *)
BodyDue ==
    \A g \in Goroutines : w[g] = "body" =>
        /\ Usable
        /\ job[g].data # <<>>
        /\ Len(wire) > 0
        /\ wire[Len(wire)] = Piece(g, "head")

(* FramesWhole, with the place of the goroutine that owes a body.          *)
Framed ==
    \A i \in DOMAIN wire :
        /\ wire[i].part = "body" =>
              i > 1 /\ wire[i - 1] = [wire[i] EXCEPT !.part = "head"]
        /\ wire[i].part = "head" /\ wire[i].data # <<>> =>
              \/ i < Len(wire) /\ wire[i + 1] = [wire[i] EXCEPT !.part = "body"]
              \/ i = Len(wire) /\ (stalled \/ w[wire[i].by] = "body")

(* After a whole close frame the connection is closed and nothing follows. *)
Sealed ==
    \A i \in DOMAIN wire : wire[i].op = "close" =>
        /\ Len(wire[i].data) = 1 /\ wire[i].data[1] \in AllowedCodes
        /\ wire[i].part = "body" => closed /\ i = Len(wire)

(* The read loop has assembled what a conforming peer has begun.           *)
InStep == {"start", "read", "pong", "reply", "notjson"}

Reassembled ==
    conforming /\ rd \in InStep =>
        /\ assembling <=> composing # None
        /\ assembling => buf = composing
        /\ delivered = sentMsgs

(* The pongs on the wire up to position i.                                 *)
PongsUpTo(i) == {j \in 1 .. i : IsPong(j)}

(* Every ping but the last one is answered as long as the loop reads; the  *)
(* pong of the last one is on the wire or being written.                   *)
PongsInStep ==
    LET n == Cardinality(PongsUpTo(Len(wire)))
    IN  /\ n <= Len(pings)
        /\ rd \in {"start", "read", "reply", "notjson"} => n = Len(pings)
        /\ rd = "pong" /\ w[Reader] \in {"lock", "head"} =>
             /\ n + 1 = Len(pings)
             /\ job[Reader].data = pings[Len(pings)]
        /\ rd = "pong" /\ w[Reader] = "body" => n = Len(pings)

(* A code that blames the peer for nothing, or for what it did.            *)
Deserved(code) == code \in {1002, 1009} => Excused(code)

(* No close of the read loop blames a conforming peer without cause.       *)
Blameless ==
    conforming =>
        /\ w[Reader] \in Writing /\ job[Reader].op = "close"
             => Deserved(job[Reader].data[1])
        /\ \A i \in DOMAIN wire : wire[i].op = "close" => Deserved(wire[i].data[1])

ConnInv ==
    /\ TypeOK /\ InControl /\ BodyDue /\ Framed /\ Sealed
    /\ Reassembled /\ PongsInStep /\ PongsAnswerPings

-----------------------------------------------------------------------------
(* Frames of the peer.                                                     *)

(* A payload is a sequence of its length.                                  *)
LEMMA PayloadTyped ==
    ASSUME NEW k \in Nat, NEW l \in Nat
    PROVE  Payload(k, l) \in Data /\ Len(Payload(k, l)) = l
    BY DEF Payload, Data

(* What the frames of the peer have in common.                             *)
LEMMA FrameTyped ==
    ASSUME NEW k \in Nat, NEW f \in PeerFrames(k)
    PROVE  /\ f.op \in DataOps \cup ControlOps
           /\ f.fin \in BOOLEAN
           /\ f.data \in Data
           /\ f.code \in CloseCodes \cup {None}
           /\ f.op = "close" => f.fin
           /\ f.bits = "bad" => f.op \in DataOps
<1>1. CASE f \in DataFrames(k)
  <2>1. PICK o \in DataOps, b \in BOOLEAN, l \in 0 .. (MaxMessageSize + 1) :
          f = [op |-> o, fin |-> b, bits |-> "ok", data |-> Payload(k, l),
               code |-> None]
    BY <1>1 DEF DataFrames
  <2>2. l \in Nat
    BY ConnAssumption
  <2> QED
    BY <2>1, <2>2, PayloadTyped DEF DataOps
<1>2. CASE f \in ControlFrames(k)
  <2>1. PICK o \in {"ping", "pong"}, l \in ControlLens :
          f = [op |-> o, fin |-> TRUE, bits |-> "ok", data |-> Payload(k, l),
               code |-> None]
    BY <1>2 DEF ControlFrames
  <2>2. l \in Nat
    BY ConnAssumption
  <2> QED
    BY <2>1, <2>2, PayloadTyped DEF ControlOps
<1>3. CASE f \in CloseFrames(k)
  <2>1. PICK l \in CloseLens, c \in CloseCodes \cup {None} :
          f = [op |-> "close", fin |-> TRUE, bits |-> "ok", data |-> Payload(k, l),
               code |-> c]
    BY <1>3 DEF CloseFrames
  <2>2. l \in Nat
    BY ConnAssumption
  <2> QED
    BY <2>1, <2>2, PayloadTyped DEF ControlOps
<1>4. CASE f \in BadFrames(k)
  <2>1. MaxControl \in Nat /\ MaxControl + 1 \in Nat
    BY ConnAssumption
  <2>2. /\ Payload(k, MaxControl + 1) \in Data
        /\ Len(Payload(k, MaxControl + 1)) = MaxControl + 1
    BY <2>1, PayloadTyped
  <2>3. <<>> \in Data
    BY DEF Data
  <2>4. CASE f = [op |-> "text", fin |-> TRUE, bits |-> "bad", data |-> <<>>,
                  code |-> None]
    BY <2>3, <2>4 DEF DataOps
  <2>5. CASE f = [op |-> "ping", fin |-> FALSE, bits |-> "ok", data |-> <<>>,
                  code |-> None]
    BY <2>3, <2>5 DEF ControlOps
  <2>6. CASE f = [op |-> "ping", fin |-> TRUE, bits |-> "ok",
                  data |-> Payload(k, MaxControl + 1), code |-> None]
    BY <2>1, <2>2, <2>6 DEF ControlOps
  <2> QED
    BY <1>4, <2>4, <2>5, <2>6 DEF BadFrames
<1> QED
    BY <1>1, <1>2, <1>3, <1>4 DEF PeerFrames

(* An arriving frame keeps what is recorded of the peer typed.             *)
LEMMA ArrivesTyped ==
    ASSUME TypeOK, NEW f, Arrives(f)
    PROVE  /\ received' \in 0 .. MaxFrames /\ conforming' \in BOOLEAN
           /\ composing' \in {None} \cup Data
           /\ sentMsgs' \in Seq(Data) /\ pings' \in Seq(Data)
           /\ crowded' \in BOOLEAN /\ peerCodes' \subseteq CloseCodes
           /\ peerReads' = peerReads /\ rd = "read"
           /\ f.op \in DataOps \cup ControlOps
           /\ f.fin \in BOOLEAN
           /\ f.data \in Data
           /\ f.code \in CloseCodes \cup {None}
           /\ f.op = "close" => f.fin
           /\ f.bits = "bad" => f.op \in DataOps
<1>1. received + 1 \in Nat /\ f \in PeerFrames(received + 1)
    BY ConnAssumption DEF TypeOK, Arrives
<1>2. /\ f.op \in DataOps \cup ControlOps
      /\ f.fin \in BOOLEAN
      /\ f.data \in Data
      /\ f.code \in CloseCodes \cup {None}
      /\ f.op = "close" => f.fin
      /\ f.bits = "bad" => f.op \in DataOps
    BY <1>1, FrameTyped
<1>3. received' \in 0 .. MaxFrames /\ conforming' \in BOOLEAN
    BY ConnAssumption DEF TypeOK, Arrives
<1> DEFINE whole == (IF f.op = "continuation" /\ composing # None
                     THEN composing ELSE <<>>) \o f.data
<1>4. whole \in Data
    BY <1>2 DEF TypeOK, Data
<1>5. /\ composing' \in {composing, None, whole}
      /\ sentMsgs' \in {sentMsgs, Append(sentMsgs, whole)}
      /\ pings' \in {pings, Append(pings, f.data)}
    BY DEF Arrives
<1> HIDE DEF whole
<1>6. composing' \in {None} \cup Data
    BY <1>4, <1>5 DEF TypeOK
<1>7. sentMsgs' \in Seq(Data) /\ pings' \in Seq(Data)
  <2>1. sentMsgs \in Seq(Data) /\ pings \in Seq(Data)
    BY DEF TypeOK
  <2>2. Append(sentMsgs, whole) \in Seq(Data) /\ Append(pings, f.data) \in Seq(Data)
    BY <1>2, <1>4, <2>1
  <2> QED
    BY <1>5, <2>1, <2>2
<1>8. crowded' \in BOOLEAN /\ peerCodes' \subseteq CloseCodes
    BY <1>2 DEF TypeOK, Arrives, Crowds
<1> QED
    BY <1>2, <1>3, <1>6, <1>7, <1>8 DEF Arrives

-----------------------------------------------------------------------------
(* Types and control.                                                      *)

(* The parts of TypeOK that the two sides of the connection change.        *)
ReadTyped ==
    /\ rd \in {"start", "read", "pong", "reply", "notjson", "refuse", "close",
               "toobig", "abort", "done", "unserved"}
    /\ assembling \in BOOLEAN
    /\ buf \in Data /\ Len(buf) <= MaxMessageSize
    /\ delivered \in Seq(Data)
    /\ \A i \in DOMAIN delivered : Len(delivered[i]) <= MaxMessageSize

PeerTyped ==
    /\ received \in 0 .. MaxFrames /\ conforming \in BOOLEAN
    /\ composing \in {None} \cup Data /\ sentMsgs \in Seq(Data) /\ pings \in Seq(Data)
    /\ crowded \in BOOLEAN /\ peerCodes \subseteq CloseCodes
    /\ peerReads \in BOOLEAN

WriteTyped ==
    /\ w \in [Goroutines -> {"idle", "lock", "head", "body", "stopped"}]
    /\ job \in [Goroutines -> {None} \cup Job]
    /\ writes \in [Goroutines -> 0 .. MaxWrites]
    /\ wmu \in Goroutines \cup {None}
    /\ wire \in Seq(Parts)
    /\ closed \in BOOLEAN /\ stalled \in BOOLEAN

(* TypeOK is the three of them.                                            *)
LEMMA TypeParts == TypeOK <=> ReadTyped /\ PeerTyped /\ WriteTyped
    BY DEF TypeOK, ReadTyped, PeerTyped, WriteTyped

(* And so they are after a step.                                           *)
LEMMA TypePartsNext == TypeOK' <=> ReadTyped' /\ PeerTyped' /\ WriteTyped'
    BY DEF TypeOK, ReadTyped, PeerTyped, WriteTyped

(* A step of the read loop that writes nothing.                            *)
Quiet == UNCHANGED writeVars /\ rd \notin Busy /\ rd' \notin Busy

(* A step of the read loop that takes up a write.                          *)
TakesUp(reason, j) ==
    /\ rd \notin Busy /\ reason \in Busy
    /\ Permitted(Reader, j)
    /\ reason = "pong" <=> j.op = "pong"
    /\ ReaderWrites(reason, j)

(* The read loop goes on without a write.                                  *)
LEMMA QuietControl ==
    ASSUME WriteTyped, InControl, Quiet
    PROVE  WriteTyped' /\ InControl'
    BY DEF WriteTyped, InControl, Quiet, writeVars, Permitted, Busy

(* The read loop starts to write: it was idle.                             *)
LEMMA TakesUpControl ==
    ASSUME WriteTyped, InControl, NEW reason, NEW j, TakesUp(reason, j)
    PROVE  WriteTyped' /\ InControl'
<1>1. Reader \in Goroutines
    BY DEF Goroutines
<1>2. j \in Job
    BY DEF TakesUp, Permitted
<1>3. WriteTyped'
    BY <1>1, <1>2 DEF WriteTyped, TakesUp, ReaderWrites
<1>4. /\ w'[Reader] = "lock" /\ job'[Reader] = j /\ rd' = reason /\ wmu' = wmu
      /\ w[Reader] = "idle"
      /\ \A g \in Goroutines \ {Reader} : w'[g] = w[g] /\ job'[g] = job[g]
    BY <1>1 DEF WriteTyped, InControl, TakesUp, ReaderWrites
<1>5. ASSUME NEW g \in Goroutines
      PROVE  /\ w'[g] \in Writing => Permitted(g, job'[g])
             /\ w'[g] \in {"head", "body"} <=> wmu' = g
    BY <1>4 DEF InControl, TakesUp, Writing
<1> QED
    BY <1>3, <1>4, <1>5 DEF InControl, TakesUp, Busy, Writing, Permitted

(* The end of a write by the holder of wmu.                                *)
LEMMA FinishControl ==
    ASSUME TypeOK, InControl, NEW g \in Goroutines, w[g] \in {"head", "body"},
           NEW ok \in BOOLEAN, Finish(g, ok),
           wire' \in Seq(Parts), stalled' \in BOOLEAN
    PROVE  /\ WriteTyped' /\ InControl'
           /\ rd' \notin Busy \/ g # Reader
           /\ rd' \in {rd, "read", "abort", "refuse", "done"}
           /\ g # Reader => rd' = rd
           /\ g = Reader => /\ rd \in {"pong", "reply"} => rd' \in {"read", "abort"}
                            /\ rd = "reply" => rd' = "read"
                            /\ rd = "pong" /\ rd' = "read" => ok
                            /\ rd = "notjson" => rd' = "refuse"
                            /\ rd = "close" => rd' = "done"
                            /\ rd = "toobig" => rd' = "abort"
<1>1. Reader \in Goroutines /\ None \notin Goroutines
    BY ConnAssumption DEF Goroutines
<1>2. /\ wmu = g /\ wmu' = None
      /\ w'[g] \in {"idle", "stopped"} /\ (g = Reader => w'[g] = "idle")
      /\ \A h \in Goroutines \ {g} : w'[h] = w[h] /\ job'[h] = job[h]
    BY DEF InControl, Finish, TypeOK
<1>3. WriteTyped'
    BY <1>1 DEF TypeOK, WriteTyped, Finish
<1>4. g = Reader => rd \in Busy
    BY DEF InControl
<1>5. /\ g # Reader => rd' = rd
      /\ g = Reader => /\ rd \in {"pong", "reply"} => rd' \in {"read", "abort"}
                       /\ rd = "reply" => rd' = "read"
                       /\ rd = "pong" /\ rd' = "read" => ok
                       /\ rd = "notjson" => rd' = "refuse"
                       /\ rd = "close" => rd' = "done"
                       /\ rd = "toobig" => rd' = "abort"
    BY DEF Finish, After
<1>6. g = Reader => rd' \in {"read", "abort", "refuse", "done"}
    BY <1>4, <1>5 DEF Busy
<1>7. ASSUME NEW h \in Goroutines
      PROVE  /\ w'[h] \in Writing => Permitted(h, job'[h])
             /\ w'[h] \in {"head", "body"} <=> wmu' = h
  <2>1. CASE h = g
    BY <1>1, <1>2, <2>1 DEF Writing
  <2>2. CASE h # g
    <3>1. w[h] \notin {"head", "body"}
      BY <1>2, <2>2 DEF InControl
    <3> QED
      BY <1>1, <1>2, <2>2, <3>1 DEF InControl
  <2> QED
    BY <2>1, <2>2
<1>8. InControl'
  <2>1. CASE g = Reader
    BY <1>2, <1>6, <1>7, <2>1 DEF InControl, Busy, Writing, Permitted
  <2>2. CASE g # Reader
    BY <1>1, <1>2, <1>5, <1>7, <2>2 DEF InControl, Permitted
  <2> QED
    BY <2>1, <2>2
<1> QED
    BY <1>3, <1>5, <1>6, <1>8 DEF Busy

-----------------------------------------------------------------------------
(* The read loop.                                                          *)

(* The codes the server sends are allowed.                                 *)
LEMMA CodesAllowed ==
    /\ 1002 \in AllowedCodes /\ 1007 \in AllowedCodes /\ 1009 \in AllowedCodes
    /\ \A f : f.code \in CloseCodes \cup {None} => ReplyCode(f) \in AllowedCodes
<1>1. ASSUME NEW c \in Int, ValidCloseCode(c) PROVE c \in AllowedCodes
  <2>1. CASE 1000 <= c /\ c <= 1003
    BY <2>1 DEF AllowedCodes
  <2>2. CASE 1007 <= c /\ c <= 1014
    BY <2>2 DEF AllowedCodes
  <2>3. CASE 3000 <= c /\ c <= 4999
    BY <2>3 DEF AllowedCodes
  <2>4. c \in 1000 .. 1003 \/ c \in 1007 .. 1014 \/ c \in 3000 .. 4999
    BY <1>1 DEF ValidCloseCode
  <2> QED
    BY <2>1, <2>2, <2>3, <2>4
<1>2. 1000 \in AllowedCodes /\ 1002 \in AllowedCodes
      /\ 1007 \in AllowedCodes /\ 1009 \in AllowedCodes
    BY DEF AllowedCodes
<1>3. \A c : ValidCloseCode(c) => c \in Int
    BY DEF ValidCloseCode
<1>4. \A f : ReplyCode(f) \in AllowedCodes
    BY <1>1, <1>2, <1>3 DEF ReplyCode, ClosePayloadValid
<1> QED
    BY <1>2, <1>4

(* A close frame with an allowed code is one the read loop may write.      *)
LEMMA CloseJobPermitted ==
    ASSUME NEW c \in AllowedCodes
    PROVE  Permitted(Reader, CloseJob(c)) /\ CloseJob(c).op = "close"
<1>1. c \in Nat
    BY DEF AllowedCodes
<1>2. CloseJob(c) \in Job /\ CloseJob(c).op = "close" /\ CloseJob(c).data = <<c>>
    BY <1>1 DEF CloseJob, Job, Data, ControlOps
<1> QED
    BY <1>1, <1>2 DEF Permitted

(* An answer to a message, or none.                                        *)
LEMMA DeliverEffect ==
    ASSUME NEW msg, Deliver(msg), rd = "read"
    PROVE  Quiet \/ \E reason, j : TakesUp(reason, j)
<1> DEFINE j == [op |-> "text", data |-> <<0>>]
<1>1. Permitted(Reader, j) /\ j.op = "text"
    BY DEF Permitted, Job, Data, DataOps
<1>2. CASE UNCHANGED <<rd, writeVars>>
    BY <1>2 DEF Quiet, Busy
<1>3. CASE \E reason \in {"reply", "notjson"} : ReaderWrites(reason, j)
  <2>1. PICK reason \in {"reply", "notjson"} : ReaderWrites(reason, j)
    BY <1>3
  <2>2. TakesUp(reason, j)
    BY <1>1, <2>1 DEF TakesUp, Busy
  <2> QED
    BY <2>2
<1> QED
    BY <1>2, <1>3 DEF Deliver

(* A message of a legal size is added to the delivered ones.               *)
LEMMA DeliverTyped ==
    ASSUME TypeOK, rd = "read", NEW msg \in Data, Len(msg) <= MaxMessageSize,
           Deliver(msg)
    PROVE  /\ rd' \in {"read", "reply", "notjson"}
           /\ delivered' \in Seq(Data)
           /\ \A i \in DOMAIN delivered' : Len(delivered'[i]) <= MaxMessageSize
<1>1. delivered \in Seq(Data) /\ delivered' = Append(delivered, msg)
    BY DEF TypeOK, Deliver
<1>2. \A i \in DOMAIN delivered' :
        delivered'[i] = IF i \in DOMAIN delivered THEN delivered[i] ELSE msg
    BY <1>1
<1>3. \A i \in DOMAIN delivered : Len(delivered[i]) <= MaxMessageSize
    BY DEF TypeOK
<1> QED
    BY <1>1, <1>2, <1>3 DEF Deliver, ReaderWrites

(* Reading a frame keeps the reading side typed, and does nothing to the   *)
(* writing side but take up a permitted write.                             *)
LEMMA ReadFrameEffect ==
    ASSUME TypeOK, ReadFrame
    PROVE  /\ ReadTyped' /\ PeerTyped'
           /\ Quiet \/ \E reason, j : TakesUp(reason, j)
<1>1. PICK f : \/ ReadMalformed(f) \/ ReadTooBig(f)
               \/ ReadPing(f) \/ ReadPong(f) \/ ReadClose(f)
               \/ WholeMessage(f) \/ FirstFragment(f) \/ NextFragment(f)
               \/ LastFragment(f)
    BY DEF ReadFrame
<1>2. Arrives(f)
    BY <1>1 DEF ReadMalformed, ReadTooBig, ReadPing, ReadPong, ReadClose,
       WholeMessage, FirstFragment, NextFragment, LastFragment
<1>3. /\ PeerTyped' /\ rd = "read" /\ f.data \in Data
      /\ f.code \in CloseCodes \cup {None}
    BY <1>2, ArrivesTyped DEF PeerTyped, TypeOK
<1>4. /\ buf \in Data /\ Len(buf) <= MaxMessageSize /\ MaxMessageSize \in Nat
      /\ Len(f.data) \in Nat /\ Len(buf) \in Nat
    BY <1>3, ConnAssumption DEF TypeOK, Data
<1>5. ASSUME NEW reason \in Busy, NEW j, ReaderWrites(reason, j),
             Permitted(Reader, j), reason = "pong" <=> j.op = "pong",
             UNCHANGED <<assembling, buf, delivered>>
      PROVE  ReadTyped' /\ TakesUp(reason, j)
    BY <1>3, <1>5 DEF TypeOK, ReadTyped, TakesUp, ReaderWrites, Busy
<1>6. CASE ReadMalformed(f)
    BY <1>5, <1>3, <1>6, CodesAllowed, CloseJobPermitted DEF ReadMalformed, Busy
<1>7. CASE ReadTooBig(f)
    BY <1>5, <1>3, <1>7, CodesAllowed, CloseJobPermitted DEF ReadTooBig, Busy
<1>8. CASE ReadPing(f)
  <2>1. LET j == [op |-> "pong", data |-> f.data]
        IN  Permitted(Reader, j) /\ j.op = "pong"
    BY <1>3 DEF Permitted, Job, ControlOps
  <2> QED
    BY <1>5, <1>3, <1>8, <2>1 DEF ReadPing, Busy
<1>9. CASE ReadClose(f)
    BY <1>5, <1>3, <1>9, CodesAllowed, CloseJobPermitted DEF ReadClose, Busy
<1>10. CASE ReadPong(f)
    BY <1>3, <1>10 DEF ReadPong, TypeOK, ReadTyped, Quiet, readVars, Busy
<1>11. CASE WholeMessage(f)
  <2>1. Deliver(f.data) /\ UNCHANGED <<assembling, buf>>
    BY <1>11 DEF WholeMessage
  <2>2. Len(f.data) <= MaxMessageSize
    BY <1>4, <1>11 DEF WholeMessage, Accepted, TooBig
  <2> QED
    BY <1>3, <2>1, <2>2, DeliverEffect, DeliverTyped DEF TypeOK, ReadTyped
<1>12. CASE FirstFragment(f)
  <2>1. Len(f.data) <= MaxMessageSize
    BY <1>4, <1>12 DEF FirstFragment, Accepted, TooBig
  <2> QED
    BY <1>3, <1>12, <2>1 DEF FirstFragment, TypeOK, ReadTyped, Quiet, Busy
<1>13. ASSUME assembling, Accepted(f)
       PROVE  buf \o f.data \in Data /\ Len(buf \o f.data) <= MaxMessageSize
    BY <1>3, <1>4, <1>13 DEF Accepted, TooBig, Data
<1>14. CASE NextFragment(f)
    BY <1>3, <1>13, <1>14 DEF NextFragment, TypeOK, ReadTyped, Quiet, Busy
<1>15. CASE LastFragment(f)
  <2>1. Deliver(buf \o f.data) /\ assembling' = FALSE /\ UNCHANGED buf
    BY <1>15 DEF LastFragment
  <2>2. buf \o f.data \in Data /\ Len(buf \o f.data) <= MaxMessageSize
    BY <1>13, <1>15 DEF LastFragment
  <2> QED
    BY <1>3, <2>1, <2>2, DeliverEffect, DeliverTyped DEF TypeOK, ReadTyped
<1> QED
    BY <1>1, <1>3, <1>6, <1>7, <1>8, <1>9, <1>10, <1>11, <1>12, <1>14, <1>15

(* The other steps of the read loop that leave the connection open.        *)
LEMMA ReadLoopEffect ==
    ASSUME TypeOK, BeginReading \/ SchemaMissing \/ RefuseMessage \/ ReadFails
    PROVE  /\ ReadTyped' /\ PeerTyped' /\ UNCHANGED <<peerVars, assembling, buf, delivered>>
           /\ Quiet \/ \E reason, j : TakesUp(reason, j)
<1>1. PeerTyped' /\ UNCHANGED <<peerVars, peerReads, assembling, buf, delivered>>
    BY DEF BeginReading, SchemaMissing, RefuseMessage, ReadFails, TypeOK,
           PeerTyped, peerVars
<1>2. CASE BeginReading \/ SchemaMissing \/ ReadFails
    BY <1>1, <1>2 DEF BeginReading, SchemaMissing, ReadFails, TypeOK, ReadTyped,
       Quiet, Busy
<1>3. CASE RefuseMessage
  <2>1. TakesUp("close", CloseJob(1007))
    BY <1>3, CodesAllowed, CloseJobPermitted DEF RefuseMessage, TakesUp, Busy
  <2>2. ReadTyped'
    BY <1>1, <1>3 DEF RefuseMessage, ReaderWrites, TypeOK, ReadTyped
  <2> QED
    BY <1>1, <2>1, <2>2
<1> QED
    BY <1>1, <1>2, <1>3

-----------------------------------------------------------------------------
(* The writing side: types, control, and the wire.                         *)

WireInv == TypeOK /\ InControl /\ BodyDue /\ Framed /\ Sealed

(* The wire after one more part.                                           *)
LEMMA Appended ==
    ASSUME WriteTyped, NEW p, wire' = Append(wire, p)
    PROVE  /\ Len(wire) \in Nat /\ DOMAIN wire = 1 .. Len(wire)
           /\ Len(wire') = Len(wire) + 1 /\ DOMAIN wire' = 1 .. Len(wire) + 1
           /\ wire'[Len(wire) + 1] = p
           /\ \A i \in 1 .. Len(wire) : wire'[i] = wire[i]
    BY DEF WriteTyped

(* The part a goroutine puts on the wire.                                  *)
LEMMA PieceTyped ==
    ASSUME NEW g \in Goroutines, job[g] \in Job, NEW part \in {"head", "body"}
    PROVE  /\ Piece(g, part) \in Parts
           /\ Piece(g, part).by = g /\ Piece(g, part).op = job[g].op
           /\ Piece(g, part).part = part /\ Piece(g, part).data = job[g].data
    BY DEF Piece, Parts, Job

(* Nothing is written, and nobody who owes a body moves.                   *)
LEMMA WireKept ==
    ASSUME WireInv, UNCHANGED <<wire, closed, stalled>>, WriteTyped',
           \A g \in Goroutines : /\ w'[g] = "body" <=> w[g] = "body"
                                 /\ w[g] = "body" => job'[g] = job[g]
    PROVE  BodyDue' /\ Framed' /\ Sealed'
<1>1. BodyDue'
    BY DEF WireInv, BodyDue, Usable, Piece
<1>2. \A i \in DOMAIN wire : wire[i].by \in Goroutines
  <2>1. \A i \in DOMAIN wire : wire[i] \in Parts
    BY DEF WireInv, TypeOK
  <2> QED
    BY <2>1 DEF Parts
<1>3. Framed'
    BY <1>2 DEF WireInv, Framed
<1>4. Sealed'
    BY DEF WireInv, Sealed
<1> QED
    BY <1>1, <1>3, <1>4

(* Steps of the read loop.                                                 *)
LEMMA ReadLoopWire ==
    ASSUME WireInv, ReadTyped', PeerTyped', Quiet \/ \E reason, j : TakesUp(reason, j)
    PROVE  WireInv'
<1>1. WriteTyped /\ InControl
    BY TypeParts DEF WireInv
<1>2. CASE Quiet
  <2>1. WriteTyped' /\ InControl'
    BY <1>1, <1>2, QuietControl
  <2>2. BodyDue' /\ Framed' /\ Sealed'
    BY <1>2, <2>1, WireKept DEF Quiet, writeVars
  <2> QED
    BY <2>1, <2>2, TypePartsNext DEF WireInv
<1>3. ASSUME NEW reason, NEW j, TakesUp(reason, j) PROVE WireInv'
  <2>1. WriteTyped' /\ InControl'
    BY <1>1, <1>3, TakesUpControl
  <2>2. w[Reader] = "idle" /\ Reader \in Goroutines
    BY <1>1, <1>3 DEF InControl, TakesUp, Goroutines
  <2>3. /\ UNCHANGED <<wire, closed, stalled>>
        /\ \A g \in Goroutines : /\ w'[g] = "body" <=> w[g] = "body"
                                 /\ w[g] = "body" => job'[g] = job[g]
    BY <1>1, <1>3, <2>2 DEF TakesUp, ReaderWrites, WriteTyped
  <2>4. BodyDue' /\ Framed' /\ Sealed'
    BY <2>1, <2>3, WireKept
  <2> QED
    BY <2>1, <2>4, TypePartsNext DEF WireInv
<1> QED
    BY <1>2, <1>3

(* Conn.Close waits for the mutex.                                         *)
LEMMA AbortWire ==
    ASSUME WireInv, Abort
    PROVE  WireInv'
<1>1. TypeOK'
    BY DEF WireInv, TypeOK, Abort, peerVars
<1>2. InControl'
    BY DEF WireInv, InControl, Abort, Busy, Permitted
<1>3. \A g \in Goroutines : w[g] # "body"
    BY ConnAssumption DEF WireInv, InControl, Abort, Goroutines
<1>4. BodyDue' /\ Framed' /\ Sealed'
    BY <1>3 DEF WireInv, BodyDue, Framed, Sealed, Abort
<1> QED
    BY <1>1, <1>2, <1>4 DEF WireInv

(* A goroutine calls WriteMessage.                                         *)
LEMMA StartWriteWire ==
    ASSUME WireInv, NEW g \in Writers, StartWrite(g)
    PROVE  WireInv'
<1>1. g \in Goroutines /\ g # Reader /\ Reader \in Goroutines
    BY ConnAssumption DEF Goroutines
<1>2. PICK j \in Jobs : job' = [job EXCEPT ![g] = j]
    BY DEF StartWrite
<1>3. Permitted(g, j) /\ j \in Job
  <2>1. <<0>> \in Data /\ <<>> \in Data
    BY DEF Data
  <2>2. CASE j = [op |-> "text", data |-> <<0>>]
    BY <2>1, <2>2 DEF Permitted, Job, DataOps
  <2>3. CASE j = [op |-> "ping", data |-> <<>>]
    BY <2>1, <2>3 DEF Permitted, Job, ControlOps
  <2> QED
    BY <2>2, <2>3 DEF Jobs
<1>4. TypeOK'
    BY <1>1, <1>2, <1>3, ConnAssumption
    DEF WireInv, TypeOK, StartWrite, readVars, peerVars
<1>5. /\ w[g] = "idle" /\ w'[g] = "lock" /\ job'[g] = j
      /\ \A h \in Goroutines \ {g} : w'[h] = w[h] /\ job'[h] = job[h]
      /\ UNCHANGED <<rd, wmu, wire, closed, stalled>>
    BY <1>1, <1>2 DEF WireInv, TypeOK, StartWrite, readVars
<1>6. InControl'
    BY <1>1, <1>3, <1>5 DEF WireInv, InControl, Writing, Permitted
<1>7. BodyDue' /\ Framed' /\ Sealed'
    BY <1>4, <1>5, WireKept, TypePartsNext
<1> QED
    BY <1>4, <1>6, <1>7 DEF WireInv

(* A goroutine returns.                                                    *)
LEMMA WriterQuitsWire ==
    ASSUME WireInv, NEW g \in Writers, WriterQuits(g)
    PROVE  WireInv'
<1>1. g \in Goroutines /\ g # Reader /\ Reader \in Goroutines
    BY ConnAssumption DEF Goroutines
<1>2. TypeOK'
    BY <1>1 DEF WireInv, TypeOK, WriterQuits, readVars, peerVars
<1>3. /\ w[g] = "idle" /\ w'[g] = "stopped"
      /\ \A h \in Goroutines \ {g} : w'[h] = w[h]
      /\ UNCHANGED <<rd, job, wmu, wire, closed, stalled>>
    BY <1>1 DEF WireInv, TypeOK, WriterQuits, readVars
<1>4. InControl'
    BY <1>1, <1>3 DEF WireInv, InControl, Writing, Permitted
<1>5. BodyDue' /\ Framed' /\ Sealed'
    BY <1>2, <1>3, WireKept, TypePartsNext
<1> QED
    BY <1>2, <1>4, <1>5 DEF WireInv

(* A goroutine takes the mutex.                                            *)
LEMMA AcquireWire ==
    ASSUME WireInv, NEW g \in Goroutines, Acquire(g)
    PROVE  WireInv'
<1>1. Reader \in Goroutines /\ None \notin Goroutines
    BY ConnAssumption DEF Goroutines
<1>2. TypeOK'
    BY DEF WireInv, TypeOK, Acquire, readVars, peerVars
<1>3. /\ w[g] = "lock" /\ w'[g] = "head" /\ wmu = None /\ wmu' = g
      /\ \A h \in Goroutines \ {g} : w'[h] = w[h]
      /\ UNCHANGED <<rd, job, wire, closed, stalled>>
    BY DEF WireInv, TypeOK, Acquire, readVars
<1>4. ASSUME NEW h \in Goroutines
      PROVE  /\ w'[h] \in Writing => Permitted(h, job[h])
             /\ w'[h] \in {"head", "body"} <=> wmu' = h
    BY <1>1, <1>3 DEF WireInv, InControl, Writing
<1>5. InControl'
    BY <1>1, <1>3, <1>4 DEF WireInv, InControl, Writing, Permitted
<1>6. BodyDue' /\ Framed' /\ Sealed'
    BY <1>2, <1>3, WireKept, TypePartsNext
<1> QED
    BY <1>2, <1>5, <1>6 DEF WireInv

(* A write that fails: nothing more is put on the wire.                    *)
LEMMA WriteFailsWire ==
    ASSUME WireInv, NEW g \in Goroutines, WriteRefused(g) \/ WriteTimesOut(g)
    PROVE  WireInv'
<1>1. /\ w[g] \in {"head", "body"} /\ Finish(g, FALSE)
      /\ UNCHANGED <<wire, peerReads>> /\ stalled' \in BOOLEAN
      /\ stalled => stalled'
      /\ w[g] = "body" => stalled'
    BY DEF WireInv, TypeOK, WriteRefused, WriteTimesOut
<1>2. TypeOK /\ InControl /\ wire' \in Seq(Parts)
    BY <1>1 DEF WireInv, TypeOK
<1>3. /\ WriteTyped' /\ InControl'
      /\ rd' \in {rd, "read", "abort", "refuse", "done"}
    BY <1>1, <1>2, FinishControl
<1>4. ReadTyped' /\ PeerTyped'
    BY <1>1, <1>2, <1>3 DEF Finish, TypeOK, ReadTyped, PeerTyped, peerVars
<1>5. /\ w'[g] \in {"idle", "stopped"}
      /\ \A h \in Goroutines \ {g} : w'[h] = w[h] /\ job'[h] = job[h]
      /\ closed => closed'
      /\ \A h \in Goroutines \ {g} : w[h] # "body"
    BY <1>1, <1>2 DEF TypeOK, InControl, Finish
<1>6. \A h \in Goroutines : w'[h] # "body"
    BY <1>5
<1>7. \A i \in DOMAIN wire : wire[i].by \in Goroutines
  <2>1. \A i \in DOMAIN wire : wire[i] \in Parts
    BY <1>2 DEF TypeOK
  <2> QED
    BY <2>1 DEF Parts
<1>8. BodyDue'
    BY <1>6 DEF BodyDue
<1>9. Framed'
    BY <1>1, <1>5, <1>7 DEF WireInv, Framed
<1>10. Sealed'
    BY <1>1, <1>5 DEF WireInv, Sealed
<1> QED
    BY <1>3, <1>4, <1>8, <1>9, <1>10, TypePartsNext DEF WireInv

(* No head on the wire waits for its body when another one begins.         *)
LEMMA NothingOwed ==
    ASSUME WireInv, NEW g \in Goroutines, w[g] = "head", Usable
    PROVE  \A i \in DOMAIN wire :
             wire[i].part = "head" /\ wire[i].data # <<>> =>
               i < Len(wire) /\ wire[i + 1] = [wire[i] EXCEPT !.part = "body"]
<1>1. \A h \in Goroutines : w[h] # "body"
    BY DEF WireInv, InControl
<1>2. \A i \in DOMAIN wire : wire[i].by \in Goroutines
  <2>1. \A i \in DOMAIN wire : wire[i] \in Parts
    BY DEF WireInv, TypeOK
  <2> QED
    BY <2>1 DEF Parts
<1> QED
    BY <1>1, <1>2 DEF WireInv, Framed, Usable

(* The head of a frame.                                                    *)
LEMMA WriteHeadWire ==
    ASSUME WireInv, NEW g \in Goroutines, WriteHead(g)
    PROVE  WireInv'
<1>1. PICK n : n = Len(wire)
    OBVIOUS
<1>2. PICK p : p = Piece(g, "head")
    OBVIOUS
<1>3. /\ w[g] = "head" /\ Usable /\ wire' = Append(wire, p)
      /\ UNCHANGED <<stalled, peerReads>>
    BY <1>2 DEF WriteHead
<1>4. TypeOK /\ InControl /\ WriteTyped /\ Permitted(g, job[g]) /\ job[g] \in Job
    BY <1>3, TypeParts DEF WireInv, InControl, Permitted, Writing
<1>5. /\ p \in Parts /\ p.by = g /\ p.op = job[g].op
      /\ p.part = "head" /\ p.data = job[g].data
    BY <1>2, <1>4, PieceTyped
<1>6. /\ n \in Nat /\ DOMAIN wire = 1 .. n
      /\ Len(wire') = n + 1 /\ DOMAIN wire' = 1 .. n + 1 /\ wire'[n + 1] = p
      /\ \A i \in 1 .. n : wire'[i] = wire[i]
      /\ wire' \in Seq(Parts)
    BY <1>1, <1>3, <1>4, <1>5, Appended DEF WriteTyped
<1>7. \A i \in 1 .. n :
        wire[i].part = "head" /\ wire[i].data # <<>> =>
          i < n /\ wire[i + 1] = [wire[i] EXCEPT !.part = "body"]
    BY <1>1, <1>3, <1>6, NothingOwed
<1>8. \A h \in Goroutines \ {g} : w[h] # "body"
    BY <1>3, <1>4 DEF InControl
<1>9. ASSUME p.data # <<>> => stalled' \/ w'[g] = "body", closed => closed'
      PROVE  Framed' /\ Sealed'
  <2>1. ASSUME NEW i \in 1 .. n + 1
        PROVE  /\ wire'[i].part = "body" =>
                    i > 1 /\ wire'[i - 1] = [wire'[i] EXCEPT !.part = "head"]
               /\ wire'[i].part = "head" /\ wire'[i].data # <<>> =>
                    \/ i < n + 1 /\ wire'[i + 1] = [wire'[i] EXCEPT !.part = "body"]
                    \/ i = n + 1 /\ (stalled' \/ w'[wire'[i].by] = "body")
    <3>1. CASE i = n + 1
      BY <1>5, <1>6, <1>9, <3>1
    <3>2. CASE i \in 1 .. n
      <4>1. wire[i].part = "body" =>
              i > 1 /\ wire[i - 1] = [wire[i] EXCEPT !.part = "head"]
        BY <1>6, <3>2 DEF WireInv, Framed
      <4>2. wire'[i] = wire[i] /\ (i > 1 => wire'[i - 1] = wire[i - 1])
            /\ (i < n => wire'[i + 1] = wire[i + 1])
        BY <1>6, <3>2
      <4> QED
        BY <1>6, <1>7, <3>2, <4>1, <4>2
    <3> QED
      BY <1>6, <3>1, <3>2
  <2>2. Framed'
    BY <1>6, <2>1 DEF Framed
  <2>3. \A i \in 1 .. n : wire[i].op = "close" => wire[i].part # "body"
    BY <1>3, <1>6 DEF WireInv, Sealed, Usable
  <2>4. Sealed'
    BY <1>4, <1>5, <1>6, <2>3 DEF WireInv, Sealed, Permitted
  <2> QED
    BY <2>2, <2>4
<1>10. CASE job[g].data = <<>>
  <2>1. Finish(g, TRUE)
    BY <1>10 DEF WriteHead
  <2>2. stalled' \in BOOLEAN
    BY <1>3, <1>4 DEF TypeOK
  <2>3. /\ WriteTyped' /\ InControl'
        /\ rd' \in {rd, "read", "abort", "refuse", "done"}
    BY <1>3, <1>4, <1>6, <2>1, <2>2, FinishControl
  <2>4. ReadTyped' /\ PeerTyped'
    BY <1>3, <1>4, <2>1, <2>3 DEF Finish, TypeOK, ReadTyped, PeerTyped, peerVars
  <2>5. \A h \in Goroutines : w'[h] # "body"
    BY <1>4, <1>8, <2>1 DEF TypeOK, Finish
  <2>6. BodyDue'
    BY <2>5 DEF BodyDue
  <2>7. Framed' /\ Sealed'
    BY <1>4, <1>5, <1>9, <1>10, <2>1 DEF Finish
  <2> QED
    BY <2>3, <2>4, <2>6, <2>7, TypePartsNext DEF WireInv
<1>11. CASE job[g].data # <<>>
  <2>1. /\ w' = [w EXCEPT ![g] = "body"]
        /\ UNCHANGED <<readVars, peerVars, job, writes, wmu, closed>>
    BY <1>11 DEF WriteHead
  <2>2. TypeOK'
    BY <1>3, <1>4, <1>6, <2>1 DEF TypeOK, readVars, peerVars
  <2>3. /\ w'[g] = "body" /\ rd' = rd
        /\ \A h \in Goroutines \ {g} : w'[h] = w[h]
    BY <1>4, <2>1 DEF TypeOK, readVars
  <2>4. InControl'
    BY <1>3, <1>4, <2>1, <2>3 DEF InControl, Writing, Permitted
  <2>5. BodyDue'
    BY <1>2, <1>3, <1>6, <1>8, <1>11, <2>1, <2>3 DEF BodyDue, Usable, Piece
  <2>6. Framed' /\ Sealed'
    BY <1>9, <2>1, <2>3
  <2> QED
    BY <2>2, <2>4, <2>5, <2>6 DEF WireInv
<1> QED
    BY <1>10, <1>11

(* The body of a frame, right after its head.                              *)
LEMMA WriteBodyWire ==
    ASSUME WireInv, NEW g \in Goroutines, WriteBody(g)
    PROVE  WireInv'
<1>1. PICK n : n = Len(wire)
    OBVIOUS
<1>2. PICK p : p = Piece(g, "body")
    OBVIOUS
<1>3. /\ w[g] = "body" /\ wire' = Append(wire, p) /\ Finish(g, TRUE)
      /\ UNCHANGED <<stalled, peerReads>>
    BY <1>2 DEF WriteBody
<1>4. TypeOK /\ InControl /\ WriteTyped /\ Permitted(g, job[g]) /\ job[g] \in Job
    BY <1>3, TypeParts DEF WireInv, InControl, Permitted, Writing
<1>5. /\ p \in Parts /\ p.by = g /\ p.op = job[g].op
      /\ p.part = "body" /\ p.data = job[g].data
    BY <1>2, <1>4, PieceTyped
<1>6. /\ n \in Nat /\ DOMAIN wire = 1 .. n
      /\ Len(wire') = n + 1 /\ DOMAIN wire' = 1 .. n + 1 /\ wire'[n + 1] = p
      /\ \A i \in 1 .. n : wire'[i] = wire[i]
      /\ wire' \in Seq(Parts)
    BY <1>1, <1>3, <1>4, <1>5, Appended DEF WriteTyped
<1>7. /\ Usable /\ n > 0 /\ wire[n] = Piece(g, "head")
    BY <1>1, <1>3 DEF WireInv, BodyDue
<1>8. /\ Piece(g, "head") = [p EXCEPT !.part = "head"]
      /\ p = [Piece(g, "head") EXCEPT !.part = "body"]
    BY <1>2 DEF Piece
<1>9. \A h \in Goroutines \ {g} : w[h] # "body"
    BY <1>3, <1>4 DEF InControl
<1>10. stalled' \in BOOLEAN
    BY <1>3, <1>4 DEF TypeOK
<1>11. /\ WriteTyped' /\ InControl'
       /\ rd' \in {rd, "read", "abort", "refuse", "done"}
    BY <1>3, <1>4, <1>6, <1>10, FinishControl
<1>12. ReadTyped' /\ PeerTyped'
    BY <1>3, <1>4, <1>11 DEF Finish, TypeOK, ReadTyped, PeerTyped, peerVars
<1>13. BodyDue'
  <2>1. \A h \in Goroutines : w'[h] # "body"
    BY <1>3, <1>4, <1>9 DEF TypeOK, Finish
  <2> QED
    BY <2>1 DEF BodyDue
<1>14. \A i \in 1 .. n : wire[i].by \in Goroutines
  <2>1. \A i \in 1 .. n : wire[i] \in Parts
    BY <1>4, <1>6 DEF TypeOK
  <2> QED
    BY <2>1 DEF Parts
<1>15. ASSUME NEW i \in 1 .. n + 1
       PROVE  /\ wire'[i].part = "body" =>
                   i > 1 /\ wire'[i - 1] = [wire'[i] EXCEPT !.part = "head"]
              /\ wire'[i].part = "head" /\ wire'[i].data # <<>> =>
                   /\ i < n + 1
                   /\ wire'[i + 1] = [wire'[i] EXCEPT !.part = "body"]
  <2>1. CASE i = n + 1
    <3>1. i - 1 = n /\ n \in 1 .. n
      BY <1>6, <1>7, <2>1
    <3>2. wire'[i - 1] = Piece(g, "head") /\ wire'[i] = p
      BY <1>6, <1>7, <2>1, <3>1
    <3>3. i > 1
      BY <1>6, <1>7, <2>1
    <3>4. wire'[i - 1] = [wire'[i] EXCEPT !.part = "head"]
      BY <1>8, <3>2
    <3>5. wire'[i].part = "body"
      BY <1>5, <3>2
    <3> QED
      BY <3>3, <3>4, <3>5
  <2>2. CASE i = n
    <3>1. wire'[i] = Piece(g, "head") /\ Piece(g, "head").part = "head"
          /\ wire'[i + 1] = p
      BY <1>6, <1>7, <2>2 DEF Piece
    <3> QED
      BY <1>6, <1>8, <2>2, <3>1
  <2>3. CASE i \in 1 .. n - 1
    <3>1. /\ wire[i].part = "body" =>
               i > 1 /\ wire[i - 1] = [wire[i] EXCEPT !.part = "head"]
          /\ wire[i].part = "head" /\ wire[i].data # <<>> =>
               wire[i + 1] = [wire[i] EXCEPT !.part = "body"]
      BY <1>1, <1>6, <2>3 DEF WireInv, Framed
    <3>2. /\ wire'[i] = wire[i] /\ wire'[i + 1] = wire[i + 1]
          /\ i > 1 => wire'[i - 1] = wire[i - 1]
      BY <1>6, <2>3
    <3> QED
      BY <1>6, <2>3, <3>1, <3>2
  <2> QED
    BY <1>6, <2>1, <2>2, <2>3
<1>16. Framed'
    BY <1>6, <1>15 DEF Framed
<1>17. \A i \in 1 .. n : wire[i].op = "close" => wire[i].part # "body"
    BY <1>6, <1>7 DEF WireInv, Sealed, Usable
<1>18. job[g].op = "close" => closed'
    BY <1>3, <1>4 DEF Permitted, Finish
<1>19. Sealed'
    BY <1>4, <1>5, <1>6, <1>17, <1>18 DEF WireInv, Sealed, Permitted
<1> QED
    BY <1>11, <1>12, <1>13, <1>16, <1>19, TypePartsNext DEF WireInv

(* The peer's window.                                                      *)
LEMMA PeerWindowWire ==
    ASSUME WireInv, PeerWindow \/ UNCHANGED vars
    PROVE  WireInv'
<1>1. UNCHANGED <<readVars, peerVars, writeVars>> /\ peerReads' \in BOOLEAN
    BY DEF WireInv, TypeOK, PeerWindow, vars
<1>2. UNCHANGED <<rd, assembling, buf, delivered, received, conforming, composing,
                  crowded, peerCodes, sentMsgs, pings, w, job, writes, wmu, wire,
                  closed, stalled>>
    BY <1>1 DEF readVars, peerVars, writeVars
<1>3. TypeOK'
    BY <1>1, <1>2 DEF WireInv, TypeOK
<1>4. InControl'
    BY <1>2 DEF WireInv, InControl, Permitted
<1>5. BodyDue' /\ Framed' /\ Sealed'
    BY <1>2, <1>3, WireKept, TypePartsNext
<1> QED
    BY <1>3, <1>4, <1>5 DEF WireInv

(* Nothing is on the wire at first.                                        *)
LEMMA WireInitInv == Init => WireInv
<1> SUFFICES ASSUME Init PROVE WireInv
    OBVIOUS
<1>1. TypeOK
  <2>1. <<>> \in Data /\ <<>> \in Seq(Data) /\ <<>> \in Seq(Parts) /\ Len(<<>>) = 0
    BY DEF Data
  <2>2. delivered \in Seq(Data) /\ \A i \in DOMAIN delivered : FALSE
    BY <2>1 DEF Init
  <2>3. buf \in Data /\ Len(buf) <= MaxMessageSize
    BY <2>1, ConnAssumption DEF Init
  <2>4. /\ composing \in {None} \cup Data /\ sentMsgs \in Seq(Data)
        /\ pings \in Seq(Data) /\ wire \in Seq(Parts)
    BY <2>1 DEF Init
  <2>5. /\ job \in [Goroutines -> {None} \cup Job]
        /\ wmu \in Goroutines \cup {None}
        /\ w \in [Goroutines -> {"idle", "lock", "head", "body", "stopped"}]
    BY DEF Init
  <2>6. writes \in [Goroutines -> 0 .. MaxWrites] /\ received \in 0 .. MaxFrames
    BY ConnAssumption DEF Init
  <2>7. /\ assembling \in BOOLEAN /\ conforming \in BOOLEAN
        /\ closed \in BOOLEAN /\ stalled \in BOOLEAN /\ peerReads \in BOOLEAN
        /\ rd = "start" /\ crowded \in BOOLEAN /\ peerCodes \subseteq CloseCodes
    BY DEF Init
  <2> QED
    BY <2>2, <2>3, <2>4, <2>5, <2>6, <2>7 DEF TypeOK
<1>2. InControl
    BY ConnAssumption DEF Init, InControl, Goroutines, Busy, Writing
<1>3. BodyDue /\ Framed /\ Sealed
    BY DEF Init, BodyDue, Framed, Sealed
<1> QED
    BY <1>1, <1>2, <1>3 DEF WireInv

(* Every step keeps the invariant of the wire.                             *)
LEMMA WireNextInv == WireInv /\ [Next]_vars => WireInv'
<1> SUFFICES ASSUME WireInv, [Next]_vars PROVE WireInv'
    OBVIOUS
<1>1. TypeOK
    BY DEF WireInv
<1>2. CASE BeginReading \/ SchemaMissing \/ RefuseMessage \/ ReadFails
    BY <1>1, <1>2, ReadLoopEffect, ReadLoopWire
<1>3. CASE ReadFrame
    BY <1>1, <1>3, ReadFrameEffect, ReadLoopWire
<1>4. ASSUME NEW g \in Goroutines, WriteStep(g) PROVE WireInv'
    BY <1>4, AcquireWire, WriteHeadWire, WriteBodyWire, WriteFailsWire DEF WriteStep
<1> QED
    BY <1>2, <1>3, <1>4, AbortWire, StartWriteWire, WriterQuitsWire, PeerWindowWire
    DEF Next

-----------------------------------------------------------------------------
(* Type correctness: no message or buffer grows past the limit.            *)
THEOREM ConnTyped == Spec => []TypeOK
<1>1. WireInv => TypeOK
    BY DEF WireInv
<1> QED
    BY <1>1, WireInitInv, WireNextInv, PTL DEF Spec

(* The frames of concurrent writers do not mix on the wire (Conn.wmu).     *)
THEOREM ConnFramesWhole == Spec => []FramesWhole
<1>1. WireInv => FramesWhole
  <2> SUFFICES ASSUME WireInv PROVE FramesWhole
    OBVIOUS
  <2>1. \A i \in DOMAIN wire : wire[i].by \in Goroutines
    <3>1. \A i \in DOMAIN wire : wire[i] \in Parts
      BY DEF WireInv, TypeOK
    <3> QED
      BY <3>1 DEF Parts
  <2> QED
    BY <2>1 DEF WireInv, Framed, InControl, FramesWhole
<1> QED
    BY <1>1, WireInitInv, WireNextInv, PTL DEF Spec

(* Nothing follows the close frame (CloseWithCode sets c.closed under the  *)
(* same lock).                                                             *)
THEOREM ConnCloseIsLast == Spec => []CloseIsLast
<1>1. WireInv => CloseIsLast
    BY DEF WireInv, Sealed, CloseIsLast
<1> QED
    BY <1>1, WireInitInv, WireNextInv, PTL DEF Spec

(* Whatever code the peer closes with, the answer's is an allowed one      *)
(* (HandleCloseFrame, ValidCloseCode).                                     *)
THEOREM ConnSentCodesAllowed == Spec => []SentCodesAllowed
<1>1. WireInv => SentCodesAllowed
    BY DEF WireInv, Sealed, SentCodesAllowed
<1> QED
    BY <1>1, WireInitInv, WireNextInv, PTL DEF Spec

-----------------------------------------------------------------------------
(* Reassembly.                                                             *)

(* Steps that read no frame: the read loop only comes back to reading from *)
(* a write of its own, and nothing of what it has read changes.            *)
LEMMA OtherSteps ==
    ASSUME WireInv, [Next]_vars, ~ReadFrame
    PROVE  /\ UNCHANGED <<peerVars, assembling, buf, delivered>>
           /\ rd' \in InStep => rd \in InStep
           /\ rd' \in {"start", "read", "reply", "notjson"} =>
                \/ rd \in {"start", "read", "reply", "notjson"}
                \/ rd = "pong" /\ w[Reader] \in {"head", "body"}
<1>1. CASE BeginReading \/ SchemaMissing \/ RefuseMessage \/ ReadFails \/ Abort
    BY <1>1 DEF BeginReading, SchemaMissing, RefuseMessage, ReaderWrites, ReadFails,
       Abort, InStep
<1>2. CASE \/ \E g \in Writers : StartWrite(g) \/ WriterQuits(g)
           \/ \E g \in Goroutines : Acquire(g)
           \/ PeerWindow
           \/ UNCHANGED vars
    BY <1>2 DEF StartWrite, WriterQuits, Acquire, PeerWindow, vars, readVars, InStep
<1>3. ASSUME NEW g \in Goroutines, NEW ok \in BOOLEAN, Finish(g, ok),
             w[g] \in {"head", "body"}, wire' \in Seq(Parts), stalled' \in BOOLEAN
      PROVE  /\ UNCHANGED <<peerVars, assembling, buf, delivered>>
             /\ rd' \in InStep => rd \in InStep
             /\ rd' \in {"start", "read", "reply", "notjson"} =>
                  \/ rd \in {"start", "read", "reply", "notjson"}
                  \/ rd = "pong" /\ w[Reader] \in {"head", "body"}
  <2>1. UNCHANGED <<peerVars, assembling, buf, delivered>>
    BY <1>3 DEF Finish
  <2>2. CASE g # Reader
    BY <1>3, <2>1, <2>2 DEF Finish
  <2>3. CASE g = Reader
    <3>1. rd \in Busy
      BY <1>3, <2>3 DEF WireInv, InControl
    <3>2. /\ rd = "reply" => rd' = "read"
          /\ rd = "pong" => rd' \in {"read", "abort"}
          /\ rd = "notjson" => rd' = "refuse"
          /\ rd = "close" => rd' = "done"
          /\ rd = "toobig" => rd' = "abort"
      BY <1>3, <2>3, FinishControl DEF WireInv
    <3> QED
      BY <1>3, <2>1, <2>3, <3>1, <3>2 DEF Busy, InStep
  <2> QED
    BY <2>2, <2>3
<1>4. ASSUME NEW g \in Goroutines,
             WriteHead(g) \/ WriteBody(g) \/ WriteRefused(g) \/ WriteTimesOut(g)
      PROVE  /\ UNCHANGED <<peerVars, assembling, buf, delivered>>
             /\ rd' \in InStep => rd \in InStep
             /\ rd' \in {"start", "read", "reply", "notjson"} =>
                  \/ rd \in {"start", "read", "reply", "notjson"}
                  \/ rd = "pong" /\ w[Reader] \in {"head", "body"}
  <2>1. wire' \in Seq(Parts) /\ stalled' \in BOOLEAN
    BY <1>4, WireNextInv DEF WireInv, TypeOK, Next, WriteStep
  <2>2. CASE WriteHead(g) /\ job[g].data # <<>>
    BY <2>2 DEF WriteHead, readVars
  <2>3. CASE ~(WriteHead(g) /\ job[g].data # <<>>)
    <3>1. PICK ok \in BOOLEAN : Finish(g, ok) /\ w[g] \in {"head", "body"}
      BY <1>4, <2>3 DEF WriteHead, WriteBody, WriteRefused, WriteTimesOut
    <3> QED
      BY <1>3, <2>1, <3>1
  <2> QED
    BY <2>2, <2>3
<1> QED
    BY <1>1, <1>2, <1>4 DEF Next, WriteStep

(* One frame of a conforming peer.                                         *)
LEMMA ReadFrameReassembles ==
    ASSUME TypeOK, Reassembled, ReadFrame
    PROVE  Reassembled'
<1> SUFFICES ASSUME conforming', rd' \in InStep
             PROVE  /\ assembling' <=> composing' # None
                    /\ assembling' => buf' = composing'
                    /\ delivered' = sentMsgs'
    BY DEF Reassembled
<1>1. PICK f : \/ ReadMalformed(f) \/ ReadTooBig(f) \/ ReadClose(f)
               \/ ReadPing(f) \/ ReadPong(f)
               \/ WholeMessage(f) \/ FirstFragment(f) \/ NextFragment(f)
               \/ LastFragment(f)
    BY DEF ReadFrame
<1>2. Arrives(f)
    BY <1>1 DEF ReadMalformed, ReadTooBig, ReadPing, ReadPong, ReadClose,
       WholeMessage, FirstFragment, NextFragment, LastFragment
<1>3. /\ f.data \in Data /\ f.op \in DataOps \cup ControlOps
      /\ f.fin \in BOOLEAN /\ rd = "read"
    BY <1>2, ArrivesTyped
<1>4. conforming /\ Conforms(f)
    BY <1>2 DEF Arrives
<1>5. /\ assembling <=> composing # None
      /\ assembling => buf = composing
      /\ delivered = sentMsgs
    BY <1>3, <1>4 DEF Reassembled, InStep
<1>6. f.data # None /\ <<>> \o f.data = f.data
      /\ (assembling => buf \in Data /\ buf \o f.data # None)
  <2>1. f.data \in Seq(Nat) /\ buf \in Seq(Nat)
    BY <1>3 DEF TypeOK, Data
  <2>2. buf \o f.data \in Seq(Nat)
    BY <2>1, ConcatProperties
  <2>3. <<>> \o f.data = f.data
    BY <2>1, ConcatEmptySeq
  <2> QED
    BY <2>1, <2>2, <2>3, ConnAssumption DEF Data
<1>7. CASE ReadMalformed(f) \/ ReadTooBig(f) \/ ReadClose(f)
    BY <1>7 DEF ReadMalformed, ReadTooBig, ReadClose, ReaderWrites, InStep
<1>8. CASE ReadPing(f) \/ ReadPong(f)
  <2>1. f.op \notin DataOps /\ UNCHANGED <<assembling, buf, delivered>>
    BY <1>8 DEF ReadPing, ReadPong, readVars, DataOps
  <2>2. UNCHANGED <<composing, sentMsgs>>
    BY <1>2, <2>1 DEF Arrives
  <2> QED
    BY <1>5, <2>1, <2>2
<1>9. CASE ~Control(f) /\ Accepted(f)
  <2>1. f.op \in DataOps /\ (f.op = "continuation" <=> assembling)
    BY <1>3, <1>9, <1>5 DEF Control, ControlOps, Accepted, OutOfSequence, TypeOK
  <2>2. /\ composing' = IF f.fin THEN None
                        ELSE IF assembling THEN buf \o f.data ELSE f.data
        /\ sentMsgs' = IF f.fin THEN Append(sentMsgs, IF assembling THEN buf \o f.data
                                                                    ELSE f.data)
                       ELSE sentMsgs
    BY <1>2, <1>5, <1>6, <2>1 DEF Arrives
  <2>3. CASE WholeMessage(f)
    BY <1>5, <2>2, <2>3 DEF WholeMessage, Deliver
  <2>4. CASE FirstFragment(f)
    BY <1>5, <1>6, <2>2, <2>4 DEF FirstFragment
  <2>5. CASE NextFragment(f)
    BY <1>5, <1>6, <2>2, <2>5 DEF NextFragment
  <2>6. CASE LastFragment(f)
    BY <1>5, <2>2, <2>6 DEF LastFragment, Deliver
  <2> QED
    BY <1>1, <1>7, <1>8, <2>3, <2>4, <2>5, <2>6
<1> QED
    BY <1>1, <1>7, <1>8, <1>9
    DEF WholeMessage, FirstFragment, NextFragment, LastFragment

(* Nothing has been sent at first; every step keeps the two in step.       *)
LEMMA ReassembledInv ==
    /\ Init => Reassembled
    /\ WireInv /\ Reassembled /\ [Next]_vars => Reassembled'
<1>1. Init => Reassembled
    BY DEF Init, Reassembled
<1>2. ASSUME WireInv, Reassembled, [Next]_vars PROVE Reassembled'
  <2>1. CASE ReadFrame
    BY <1>2, <2>1, ReadFrameReassembles DEF WireInv
  <2>2. CASE ~ReadFrame
    BY <1>2, <2>2, OtherSteps DEF Reassembled, peerVars
  <2> QED
    BY <2>1, <2>2
<1> QED
    BY <1>1, <1>2

(* ReadMessage returns the messages of a conforming peer, whole and in     *)
(* order, whatever control frames come between the fragments.              *)
THEOREM ConnDeliveredAsSent == Spec => []DeliveredAsSent
<1>1. Reassembled => DeliveredAsSent
    BY DEF Reassembled, DeliveredAsSent, InStep
<1> QED
    BY <1>1, WireInitInv, WireNextInv, ReassembledInv, PTL DEF Spec

-----------------------------------------------------------------------------
(* A conforming peer is not blamed.                                        *)

(* The server refuses a frame of a conforming peer only if it counts a     *)
(* control frame as part of the message being assembled.                   *)
LEMMA ConformingAccepted ==
    ASSUME TypeOK, Reassembled, NEW f, Arrives(f), conforming, Conforms(f)
    PROVE  ~Malformed(f) /\ ~OutOfSequence(f) /\ (TooBig(f) => Crowds(f))
<1>1. /\ f.data \in Data /\ f.op \in DataOps \cup ControlOps
      /\ f.fin \in BOOLEAN /\ rd = "read"
      /\ f.bits = "bad" => f.op \in DataOps
    BY ArrivesTyped
<1>2. /\ assembling <=> composing # None
      /\ assembling => buf = composing
    BY <1>1 DEF Reassembled, InStep
<1>3. /\ Len(f.data) \in Nat /\ Len(buf) \in Nat /\ Len(buf) <= MaxMessageSize
      /\ MaxMessageSize \in Nat /\ MaxControl \in Nat /\ MaxControl <= MaxMessageSize
    BY <1>1, ConnAssumption DEF TypeOK, Data
<1>4. CASE f.op \in DataOps
  <2>1. /\ f.bits = "ok"
        /\ f.op = "continuation" <=> composing # None
        /\ Len(f.data) + (IF composing = None THEN 0 ELSE Len(composing))
             <= MaxMessageSize
    BY <1>4 DEF Conforms, DataOps
  <2>2. ~Control(f)
    BY <1>4 DEF Control, DataOps, ControlOps
  <2>3. ~TooBig(f)
    <3>1. CASE composing = None
      BY <1>2, <1>3, <2>1, <3>1 DEF TooBig
    <3>2. CASE composing # None
      <4>1. Len(f.data) + Len(buf) <= MaxMessageSize
        BY <1>2, <2>1, <3>2
      <4> QED
        BY <1>3, <4>1 DEF TooBig
    <3> QED
      BY <3>1, <3>2
  <2> QED
    BY <1>2, <2>1, <2>2, <2>3 DEF Malformed, OutOfSequence, TypeOK
<1>5. CASE f.op \in ControlOps
  <2>1. f.bits # "bad" /\ Control(f) /\ f.op \notin DataOps
    BY <1>1, <1>5 DEF DataOps, ControlOps, Control
  <2>2. f.fin /\ Len(f.data) <= MaxControl
    BY <2>1 DEF Conforms
  <2>3. TooBig(f) => Crowds(f)
    BY <1>2, <1>3, <1>5, <2>2 DEF TooBig, Crowds
  <2> QED
    BY <1>3, <2>1, <2>2, <2>3 DEF Malformed, OutOfSequence
<1> QED
    BY <1>1, <1>4, <1>5

(* A peer that conforms with a frame did so before it.                     *)
LEMMA ArrivesConforming ==
    ASSUME NEW f, Arrives(f), conforming'
    PROVE  conforming /\ Conforms(f)
    BY DEF Arrives

(* Reading a frame blames no conforming peer without cause.                *)
LEMMA ReadFrameBlameless ==
    ASSUME WireInv, Reassembled, Blameless, ReadFrame
    PROVE  Blameless'
<1> SUFFICES ASSUME conforming' PROVE Blameless'
    BY DEF Blameless
<1>1. PICK f : \/ ReadMalformed(f) \/ ReadTooBig(f) \/ ReadClose(f)
               \/ ReadPing(f) \/ ReadPong(f)
               \/ WholeMessage(f) \/ FirstFragment(f) \/ NextFragment(f)
               \/ LastFragment(f)
    BY DEF ReadFrame
<1>2. Arrives(f)
  <2>1. CASE ReadMalformed(f)
    BY <2>1 DEF ReadMalformed
  <2>2. CASE ReadTooBig(f)
    BY <2>2 DEF ReadTooBig
  <2>3. CASE ReadPing(f)
    BY <2>3 DEF ReadPing
  <2>4. CASE ReadPong(f)
    BY <2>4 DEF ReadPong
  <2>5. CASE ReadClose(f)
    BY <2>5 DEF ReadClose
  <2>6. CASE WholeMessage(f)
    BY <2>6 DEF WholeMessage
  <2>7. CASE FirstFragment(f)
    BY <2>7 DEF FirstFragment
  <2>8. CASE NextFragment(f)
    BY <2>8 DEF NextFragment
  <2>9. CASE LastFragment(f)
    BY <2>9 DEF LastFragment
  <2> QED
    BY <1>1, <2>1, <2>2, <2>3, <2>4, <2>5, <2>6, <2>7, <2>8, <2>9
<1>3. conforming /\ Conforms(f) /\ rd = "read" /\ f.code \in CloseCodes \cup {None}
  <2>1. conforming /\ Conforms(f)
    BY <1>2, ArrivesConforming
  <2>2. rd = "read" /\ f.code \in CloseCodes \cup {None}
    BY <1>2, ArrivesTyped DEF WireInv
  <2> QED
    BY <2>1, <2>2
<1>4. ~Malformed(f) /\ ~OutOfSequence(f) /\ (TooBig(f) => Crowds(f))
    BY <1>2, <1>3, ConformingAccepted DEF WireInv
<1>5. /\ Reader \in Goroutines /\ job \in [Goroutines -> {None} \cup Job]
      /\ crowded \/ Crowds(f) => crowded'
      /\ peerCodes \subseteq peerCodes'
      /\ f.code # None => f.code \in peerCodes'
    BY <1>2 DEF WireInv, TypeOK, Goroutines, Arrives
<1>6. ASSUME NEW c, Deserved(c) PROVE Deserved(c)'
    BY <1>5, <1>6 DEF Deserved, Excused
<1>6a. ASSUME wire' = wire, NEW i \in DOMAIN wire, wire[i].op = "close"
       PROVE  Deserved(wire[i].data[1])'
  <2>1. PICK c : c = wire[i].data[1]
    OBVIOUS
  <2>2. Deserved(c)
    BY <1>3, <1>6a, <2>1 DEF Blameless
  <2>3. c = wire'[i].data[1]
    BY <1>6a, <2>1
  <2>4. Deserved(c)'
    BY <1>6, <2>2
  <2> QED
    BY <2>3, <2>4 DEF Deserved, Excused
<1>7. CASE UNCHANGED writeVars
  <2>1. wire' = wire /\ w'[Reader] = w[Reader] /\ job'[Reader] = job[Reader]
    BY <1>7 DEF writeVars
  <2>2. PICK c : c = job[Reader].data[1]
    OBVIOUS
  <2>3. w[Reader] \in Writing /\ job[Reader].op = "close" => Deserved(c)'
    BY <1>3, <1>6, <2>2 DEF Blameless
  <2> QED
    BY <1>6a, <2>1, <2>2, <2>3 DEF Blameless, Deserved
<1>8. ASSUME NEW reason, NEW j, ReaderWrites(reason, j),
             j.op = "close" => Deserved(j.data[1])'
      PROVE  Blameless'
  <2>1. job'[Reader] = j /\ wire' = wire
    BY <1>5, <1>8 DEF ReaderWrites
  <2> QED
    BY <1>8, <1>6a, <2>1 DEF Blameless, Deserved
<1>9. CASE ReadClose(f)
  <2>1. PICK c : c = ReplyCode(f)
    OBVIOUS
  <2>2. f.data = <<>> \/ (f.code # None /\ ValidCloseCode(f.code))
    BY <1>3, <1>9 DEF ReadClose, Conforms, DataOps, ClosePayloadValid
  <2>3. c = 1000 \/ c \in peerCodes'
    BY <1>5, <2>1, <2>2 DEF ReplyCode, ClosePayloadValid
  <2>4. CloseJob(c).data[1] = c /\ ReaderWrites("close", CloseJob(c))
    BY <1>9, <2>1 DEF CloseJob, ReadClose
  <2> QED
    BY <1>8, <2>3, <2>4 DEF Deserved, Excused
<1>9a. CASE ReadTooBig(f)
  <2>1. crowded' /\ ReaderWrites("toobig", CloseJob(1009))
    BY <1>4, <1>5, <1>9a DEF ReadTooBig
  <2>2. CloseJob(1009).data[1] = 1009
    BY DEF CloseJob
  <2> QED
    BY <1>8, <2>1, <2>2 DEF Deserved, Excused
<1>10. CASE ReadPing(f)
  <2>1. [op |-> "pong", data |-> f.data].op # "close"
    OBVIOUS
  <2> QED
    BY <1>8, <1>10, <2>1 DEF ReadPing
<1>11. CASE ReadPong(f) \/ FirstFragment(f) \/ NextFragment(f)
    BY <1>7, <1>11 DEF ReadPong, FirstFragment, NextFragment
<1>12. CASE WholeMessage(f) \/ LastFragment(f)
  <2>1. PICK msg : Deliver(msg)
    BY <1>12 DEF WholeMessage, LastFragment
  <2>2. [op |-> "text", data |-> <<0>>].op # "close"
    OBVIOUS
  <2> QED
    BY <1>7, <1>8, <2>1, <2>2 DEF Deliver
<1> QED
    BY <1>1, <1>4, <1>9, <1>10, <1>11, <1>12, <1>9a DEF ReadMalformed

(* The other steps put on the wire what the read loop has decided on.      *)
LEMMA OtherStepsBlameless ==
    ASSUME WireInv, Blameless, [Next]_vars, ~ReadFrame
    PROVE  Blameless'
<1> SUFFICES ASSUME conforming' PROVE Blameless'
    BY DEF Blameless
<1>1. conforming /\ UNCHANGED <<crowded, peerCodes>>
    BY OtherSteps DEF peerVars
<1>2. Reader \in Goroutines /\ TypeOK /\ InControl /\ WriteTyped
    BY TypeParts DEF WireInv, Goroutines
<1>3. /\ w[Reader] \in Writing /\ job[Reader].op = "close"
           => Deserved(job[Reader].data[1])
      /\ \A i \in DOMAIN wire : wire[i].op = "close" => Deserved(wire[i].data[1])
    BY <1>1 DEF Blameless
<1>4. ASSUME wire' = wire,
             w'[Reader] \in Writing => w[Reader] \in Writing /\ job'[Reader] = job[Reader]
      PROVE  Blameless'
    BY <1>1, <1>3, <1>4 DEF Blameless, Deserved, Excused
<1>5. CASE BeginReading \/ SchemaMissing \/ ReadFails \/ Abort \/ PeerWindow
           \/ UNCHANGED vars
    BY <1>4, <1>5 DEF BeginReading, SchemaMissing, ReadFails, Abort, PeerWindow,
       vars, writeVars
<1>6. CASE RefuseMessage
  <2>1. wire' = wire /\ job'[Reader] = CloseJob(1007) /\ CloseJob(1007).data[1] = 1007
    BY <1>2, <1>6 DEF RefuseMessage, ReaderWrites, TypeOK, CloseJob
  <2> QED
    BY <1>1, <1>3, <2>1 DEF Blameless, Deserved, Excused
<1>7. CASE \E g \in Writers : StartWrite(g) \/ WriterQuits(g)
  <2>1. PICK g \in Writers : StartWrite(g) \/ WriterQuits(g)
    BY <1>7
  <2>2. g # Reader
    BY ConnAssumption
  <2>3. wire' = wire /\ w'[Reader] = w[Reader] /\ job'[Reader] = job[Reader]
    BY <1>2, <2>1, <2>2 DEF StartWrite, WriterQuits, TypeOK
  <2> QED
    BY <1>4, <2>3
<1>8. ASSUME NEW g \in Goroutines, Acquire(g) PROVE Blameless'
    BY <1>2, <1>4, <1>8 DEF Acquire, TypeOK, Writing
<1>9. ASSUME NEW g \in Goroutines, WriteRefused(g) \/ WriteTimesOut(g)
      PROVE  Blameless'
    BY <1>2, <1>4, <1>9
    DEF WriteRefused, WriteTimesOut, Finish, TypeOK, Writing
<1>10. ASSUME NEW g \in Goroutines, WriteHead(g) \/ WriteBody(g)
       PROVE  Blameless'
  <2>1. PICK part \in {"head", "body"} : wire' = Append(wire, Piece(g, part))
    BY <1>10 DEF WriteHead, WriteBody
  <2>2. w[g] \in Writing /\ Permitted(g, job[g]) /\ job[g] \in Job
    BY <1>2, <1>10 DEF WriteHead, WriteBody, InControl, Writing, Permitted
  <2>3. Piece(g, part).op = job[g].op /\ Piece(g, part).data = job[g].data
    BY <2>2, PieceTyped
  <2>4. Piece(g, part).op = "close" => Deserved(Piece(g, part).data[1])
    <3>1. job[g].op = "close" => g = Reader
      BY <2>2 DEF Permitted
    <3>2. job[g].op = "close" => Deserved(job[g].data[1])
      BY <1>3, <2>2, <3>1
    <3> QED
      BY <2>3, <3>2
  <2>5. PICK p : p = Piece(g, part)
    OBVIOUS
  <2>6. \A i \in DOMAIN wire' : wire'[i] = p \/ (i \in DOMAIN wire /\ wire'[i] = wire[i])
    BY <1>2, <2>1, <2>5, Appended
  <2>7. \A i \in DOMAIN wire' : wire'[i].op = "close" => Deserved(wire'[i].data[1])
    BY <1>3, <2>4, <2>5, <2>6 DEF Deserved
  <2>8. w'[Reader] \in Writing => w[Reader] \in Writing /\ job'[Reader] = job[Reader]
    BY <1>2, <1>10 DEF WriteHead, WriteBody, Finish, TypeOK, Writing
  <2> QED
    BY <1>1, <1>3, <2>7, <2>8 DEF Blameless, Deserved, Excused
<1> QED
    BY <1>5, <1>6, <1>7, <1>8, <1>9, <1>10 DEF Next, WriteStep

(* A peer that keeps to the protocol and to the limit is told that it      *)
(* violated them only after the same complaint of its own, or after a      *)
(* control frame that ReadMessage counts as part of the message it comes   *)
(* between and that does not fit into it.                                  *)
THEOREM ConnOnlyCrowdingRefused == Spec => []OnlyCrowdingRefused
<1> DEFINE Inv == WireInv /\ Reassembled /\ Blameless
<1>1. Init => Inv
  <2>1. Init => Blameless
    BY DEF Init, Blameless, Writing, Goroutines
  <2> QED
    BY <2>1, WireInitInv, ReassembledInv
<1>2. Inv /\ [Next]_vars => Inv'
    BY WireNextInv, ReassembledInv, ReadFrameBlameless, OtherStepsBlameless
<1>3. Inv => OnlyCrowdingRefused
    BY DEF Blameless, Deserved, OnlyCrowdingRefused
<1> QED
    BY <1>1, <1>2, <1>3, PTL DEF Spec

-----------------------------------------------------------------------------
(* Answers to pings.                                                       *)

(* The pongs up to a position are finitely many.                           *)
LEMMA PongsFinite ==
    ASSUME NEW i \in Nat
    PROVE  IsFiniteSet(PongsUpTo(i)) /\ Cardinality(PongsUpTo(i)) \in Nat
<1>1. IsFiniteSet(1 .. i)
    BY FS_Interval
<1>2. PongsUpTo(i) \in SUBSET (1 .. i)
    BY DEF PongsUpTo
<1>3. IsFiniteSet(PongsUpTo(i))
    BY <1>1, <1>2, FS_Subset
<1> QED
    BY <1>3, FS_CardinalityType

(* A wire that grows by at most one part keeps the pongs it had.           *)
LEMMA PongsPrefix ==
    ASSUME WriteTyped, NEW p, wire' \in {wire, Append(wire, p)}
    PROVE  /\ Len(wire) \in Nat
           /\ \A i \in 1 .. Len(wire) : IsPong(i)' <=> IsPong(i)
           /\ \A i \in 0 .. Len(wire) : PongsUpTo(i)' = PongsUpTo(i)
<1>1. Len(wire) \in Nat /\ \A i \in 1 .. Len(wire) : wire'[i] = wire[i]
  <2>1. CASE wire' = wire
    BY <2>1 DEF WriteTyped
  <2>2. CASE wire' = Append(wire, p)
    BY <2>2, Appended
  <2> QED
    BY <2>1, <2>2
<1>2. \A i \in 1 .. Len(wire) : IsPong(i)' <=> IsPong(i)
    BY <1>1 DEF IsPong
<1>3. ASSUME NEW i \in 0 .. Len(wire) PROVE PongsUpTo(i)' = PongsUpTo(i)
  <2>1. \A j \in 1 .. i : j \in 1 .. Len(wire)
    BY <1>1
  <2> QED
    BY <1>2, <2>1 DEF PongsUpTo
<1> QED
    BY <1>1, <1>2, <1>3

(* Nothing that is a pong is added, and pings only grow.                   *)
LEMMA PongsKept ==
    ASSUME WriteTyped, pings \in Seq(Data), PongsAnswerPings,
           NEW p, ~(p.op = "pong" /\ p.part = "head"),
           wire' \in {wire, Append(wire, p)},
           NEW q \in Data, pings' \in {pings, Append(pings, q)}
    PROVE  /\ PongsUpTo(Len(wire))' = PongsUpTo(Len(wire))
           /\ PongsAnswerPings'
<1>1. PICK n : n = Len(wire)
    OBVIOUS
<1>2. /\ n \in Nat /\ DOMAIN wire = 1 .. n
      /\ \A i \in 1 .. n : wire'[i] = wire[i]
      /\ \A i \in 1 .. n : IsPong(i)' <=> IsPong(i)
      /\ \A i \in 0 .. n : PongsUpTo(i)' = PongsUpTo(i)
  <2>1. \A i \in 1 .. n : wire'[i] = wire[i]
    BY <1>1, Appended
  <2>2. DOMAIN wire = 1 .. n
    BY <1>1 DEF WriteTyped
  <2>3. /\ n \in Nat
        /\ \A i \in 1 .. n : IsPong(i)' <=> IsPong(i)
        /\ \A i \in 0 .. n : PongsUpTo(i)' = PongsUpTo(i)
    BY <1>1, PongsPrefix
  <2> QED
    BY <2>1, <2>2, <2>3
<1>3. \/ wire' = wire
      \/ /\ Len(wire') = n + 1 /\ DOMAIN wire' = 1 .. n + 1 /\ wire'[n + 1] = p
    BY <1>1, Appended
<1>4. ASSUME NEW i \in DOMAIN wire', IsPong(i)'
      PROVE  i \in 1 .. n /\ IsPong(i) /\ PongsUpTo(i)' = PongsUpTo(i)
             /\ wire'[i].data = wire[i].data
  <2>1. i \in 1 .. n
    BY <1>2, <1>3, <1>4 DEF IsPong
  <2>2. i \in 0 .. n
    BY <1>2, <2>1
  <2> QED
    BY <1>2, <1>4, <2>1, <2>2
<1>5. PongsUpTo(Len(wire))' = PongsUpTo(Len(wire))
  <2>1. CASE wire' = wire
    BY <2>1 DEF PongsUpTo, IsPong
  <2>2. CASE Len(wire') = n + 1 /\ DOMAIN wire' = 1 .. n + 1
    <3>1. \A j : j \in 1 .. n + 1 /\ IsPong(j)' <=> j \in 1 .. n /\ IsPong(j)
      BY <1>2, <1>4, <2>2
    <3> QED
      BY <1>1, <2>2, <3>1 DEF PongsUpTo
  <2> QED
    BY <1>3, <2>1, <2>2
<1>6. \A k \in Nat : k <= Len(pings) /\ k >= 1 => k <= Len(pings') /\ pings'[k] = pings[k]
    OBVIOUS
<1>7. ASSUME NEW i \in DOMAIN wire', IsPong(i)'
      PROVE  LET k == Cardinality(PongsUpTo(i)')
             IN  k <= Len(pings') /\ wire'[i].data = pings'[k]
  <2>1. /\ i \in 1 .. n /\ IsPong(i) /\ PongsUpTo(i)' = PongsUpTo(i)
        /\ wire'[i].data = wire[i].data
    BY <1>4, <1>7
  <2>2. PICK k : k = Cardinality(PongsUpTo(i))
    OBVIOUS
  <2>3. k <= Len(pings) /\ wire[i].data = pings[k]
    BY <1>2, <2>1, <2>2 DEF PongsAnswerPings, PongsUpTo
  <2>4. k \in Nat /\ k >= 1
    <3>1. i \in PongsUpTo(i) /\ i \in Nat
      BY <2>1 DEF PongsUpTo
    <3>2. IsFiniteSet(PongsUpTo(i)) /\ k \in Nat
      BY <2>2, <3>1, PongsFinite
    <3>3. k # 0
      BY <2>2, <3>1, <3>2, FS_EmptySet
    <3> QED
      BY <3>2, <3>3
  <2> QED
    BY <1>6, <2>1, <2>2, <2>3, <2>4
<1>8. PongsAnswerPings'
    BY <1>7 DEF PongsAnswerPings, PongsUpTo
<1> QED
    BY <1>5, <1>8

(* The head of the pong that is due.                                       *)
LEMMA PongWritten ==
    ASSUME WriteTyped, pings \in Seq(Data), PongsAnswerPings, UNCHANGED pings,
           NEW p, p.op = "pong", p.part = "head", wire' = Append(wire, p),
           Cardinality(PongsUpTo(Len(wire))) + 1 = Len(pings),
           p.data = pings[Len(pings)]
    PROVE  /\ Cardinality(PongsUpTo(Len(wire)))' = Len(pings)
           /\ PongsAnswerPings'
<1>1. PICK n : n = Len(wire)
    OBVIOUS
<1>2. /\ n \in Nat /\ DOMAIN wire = 1 .. n
      /\ Len(wire') = n + 1 /\ DOMAIN wire' = 1 .. n + 1 /\ wire'[n + 1] = p
      /\ \A i \in 1 .. n : wire'[i] = wire[i]
      /\ \A i \in 1 .. n : IsPong(i)' <=> IsPong(i)
      /\ \A i \in 0 .. n : PongsUpTo(i)' = PongsUpTo(i)
    BY <1>1, Appended, PongsPrefix
<1>3. IsPong(n + 1)'
    BY <1>2 DEF IsPong
<1>4. PongsUpTo(n + 1)' = PongsUpTo(n) \cup {n + 1} /\ n + 1 \notin PongsUpTo(n)
    BY <1>2, <1>3 DEF PongsUpTo
<1>5. Cardinality(PongsUpTo(n + 1)') = Len(pings)
  <2>1. IsFiniteSet(PongsUpTo(n)) /\ Cardinality(PongsUpTo(n)) \in Nat
    BY <1>2, PongsFinite
  <2>2. Cardinality(PongsUpTo(n) \cup {n + 1}) = Cardinality(PongsUpTo(n)) + 1
    BY <1>4, <2>1, FS_AddElement
  <2> QED
    BY <1>1, <1>4, <2>2
<1>6. ASSUME NEW i \in 1 .. n + 1, IsPong(i)'
      PROVE  LET k == Cardinality(PongsUpTo(i)')
             IN  k <= Len(pings) /\ wire'[i].data = pings[k]
  <2>1. CASE i = n + 1
    <3>1. Len(pings) \in Nat
      OBVIOUS
    <3> QED
      BY <1>2, <1>5, <2>1, <3>1
  <2>2. CASE i \in 1 .. n
    <3>1. i \in 0 .. n
      BY <1>2, <2>2
    <3>2. IsPong(i) /\ PongsUpTo(i)' = PongsUpTo(i) /\ wire'[i] = wire[i]
      BY <1>2, <1>6, <2>2, <3>1
    <3> QED
      BY <1>2, <2>2, <3>2 DEF PongsAnswerPings, PongsUpTo
  <2> QED
    BY <1>2, <2>1, <2>2
<1>7. PongsAnswerPings'
    BY <1>2, <1>6 DEF PongsAnswerPings, PongsUpTo
<1>8. Cardinality(PongsUpTo(Len(wire)))' = Len(pings)
    BY <1>2, <1>5 DEF PongsUpTo
<1> QED
    BY <1>7, <1>8

(* A step that adds no pong and no ping, and leaves the read loop where it *)
(* is or ends a write that is no pending pong.                             *)
LEMMA InStepKept ==
    ASSUME PongsInStep, UNCHANGED pings,
           PongsUpTo(Len(wire))' = PongsUpTo(Len(wire)),
           rd' \in {"start", "read", "reply", "notjson"} =>
             \/ rd \in {"start", "read", "reply", "notjson"}
             \/ rd = "pong" /\ w[Reader] = "body",
           rd' = "pong" =>
             /\ rd = "pong" /\ job'[Reader] = job[Reader]
             /\ \/ w'[Reader] = w[Reader]
                \/ w'[Reader] = "head" /\ w[Reader] = "lock"
    PROVE  PongsInStep'
    BY DEF PongsInStep

(* A frame of the peer: an accepted ping makes its pong due.               *)
LEMMA ReadFramePongs ==
    ASSUME WireInv, PongsInStep, PongsAnswerPings, ReadFrame
    PROVE  PongsInStep' /\ PongsAnswerPings'
<1>1. PICK f : \/ ReadMalformed(f) \/ ReadTooBig(f) \/ ReadClose(f)
               \/ ReadPing(f) \/ ReadPong(f)
               \/ WholeMessage(f) \/ FirstFragment(f) \/ NextFragment(f)
               \/ LastFragment(f)
    BY DEF ReadFrame
<1>2. TypeOK /\ WriteTyped /\ Arrives(f)
    BY <1>1, TypeParts DEF WireInv, ReadMalformed, ReadTooBig, ReadClose, ReadPing,
       ReadPong, WholeMessage, FirstFragment, NextFragment, LastFragment
<1>3. /\ rd = "read" /\ f.data \in Data
      /\ pings \in Seq(Data) /\ f.op \in DataOps \cup ControlOps
    BY <1>2, ArrivesTyped DEF TypeOK
<1>4. wire' = wire
    BY <1>1 DEF ReadMalformed, ReadTooBig, ReadClose, ReadPing, ReadPong, WholeMessage,
       FirstFragment, NextFragment, LastFragment, Deliver, ReaderWrites, writeVars
<1>5. pings' = IF f.op = "ping" THEN Append(pings, f.data) ELSE pings
    BY <1>2 DEF Arrives
<1>6. PongsUpTo(Len(wire))' = PongsUpTo(Len(wire)) /\ PongsAnswerPings'
  <2>1. PICK p : p = [op |-> "text", part |-> "head"]
    OBVIOUS
  <2>2. ~(p.op = "pong" /\ p.part = "head")
    BY <2>1
  <2> QED
    BY <1>2, <1>3, <1>4, <1>5, <2>2, PongsKept
<1>7. Cardinality(PongsUpTo(Len(wire))) = Len(pings)
    BY <1>3 DEF PongsInStep
<1>8. Cardinality(PongsUpTo(Len(wire)))' = Len(pings)
    BY <1>6, <1>7
<1>9. CASE f.op = "ping"
  <2>1. /\ Len(pings') = Len(pings) + 1 /\ Len(pings) \in Nat
        /\ pings'[Len(pings')] = f.data
    BY <1>3, <1>5, <1>9
  <2>2. CASE ReadMalformed(f) \/ ReadTooBig(f)
    <3>1. rd' \in {"close", "toobig"}
      BY <2>2 DEF ReadMalformed, ReadTooBig, ReaderWrites
    <3>2. PongsInStep'
      BY <1>8, <2>1, <3>1 DEF PongsInStep
    <3> QED
      BY <1>6, <3>2
  <2>3. CASE ReadPing(f)
    <3>1. /\ rd' = "pong" /\ w'[Reader] = "lock"
          /\ job'[Reader] = [op |-> "pong", data |-> f.data]
      BY <1>2, <2>3 DEF ReadPing, ReaderWrites, TypeOK, Goroutines
    <3>2. PongsInStep'
      BY <1>8, <2>1, <3>1 DEF PongsInStep
    <3> QED
      BY <1>6, <3>2
  <2>4. f.op # "close" /\ f.op # "pong" /\ Control(f)
    BY <1>9 DEF Control, ControlOps
  <2> QED
    BY <1>1, <2>2, <2>3, <2>4 DEF ReadClose, ReadPong, WholeMessage, FirstFragment,
       NextFragment, LastFragment
<1>10. CASE f.op # "ping"
  <2>1. rd' # "pong"
    BY <1>1, <1>3, <1>10 DEF ReadMalformed, ReadTooBig, ReadClose, ReadPing, ReadPong,
       WholeMessage, FirstFragment, NextFragment, LastFragment, Deliver, ReaderWrites,
       readVars
  <2>2. UNCHANGED pings
    BY <1>5, <1>10
  <2> QED
    BY <1>3, <1>6, <2>1, <2>2, InStepKept
<1> QED
    BY <1>9, <1>10

(* The steps that leave the wire as it is: a pong that cannot be written   *)
(* ends the session.                                                       *)
LEMMA QuietStepPongs ==
    ASSUME WireInv, PongsInStep, PongsAnswerPings, [Next]_vars, ~ReadFrame,
           wire' = wire
    PROVE  PongsInStep' /\ PongsAnswerPings'
<1>1. TypeOK /\ WriteTyped /\ InControl /\ pings \in Seq(Data) /\ Reader \in Goroutines
    BY TypeParts DEF WireInv, TypeOK, Goroutines
<1>2. UNCHANGED pings
    BY OtherSteps DEF peerVars
<1>3. PongsUpTo(Len(wire))' = PongsUpTo(Len(wire)) /\ PongsAnswerPings'
  <2>1. PICK p : p = [op |-> "text", part |-> "head"]
    OBVIOUS
  <2>2. ~(p.op = "pong" /\ p.part = "head") /\ <<>> \in Data
    BY <2>1 DEF Data
  <2> QED
    BY <1>1, <1>2, <2>2, PongsKept
<1>4. CASE BeginReading \/ SchemaMissing \/ RefuseMessage \/ ReadFails \/ Abort
  <2>1. /\ rd' # "pong"
        /\ rd' \in {"start", "read", "reply", "notjson"} => rd = "start"
    BY <1>4 DEF BeginReading, SchemaMissing, RefuseMessage, ReaderWrites, ReadFails,
       Abort
  <2> QED
    BY <1>2, <1>3, <2>1, InStepKept
<1>5. CASE \/ \E g \in Writers : StartWrite(g) \/ WriterQuits(g)
           \/ \E g \in Goroutines : Acquire(g)
           \/ PeerWindow
           \/ UNCHANGED vars
  <2>1. rd' = rd
    BY <1>5 DEF StartWrite, WriterQuits, Acquire, PeerWindow, vars, readVars
  <2>2. CASE \E g \in Writers : StartWrite(g) \/ WriterQuits(g)
    <3>1. w'[Reader] = w[Reader] /\ job'[Reader] = job[Reader]
      BY <1>1, <2>2, ConnAssumption DEF StartWrite, WriterQuits, TypeOK
    <3> QED
      BY <1>2, <1>3, <2>1, <3>1, InStepKept
  <2>3. CASE \E g \in Goroutines : Acquire(g)
    <3>1. /\ job'[Reader] = job[Reader]
          /\ \/ w'[Reader] = w[Reader]
             \/ w'[Reader] = "head" /\ w[Reader] = "lock"
      BY <1>1, <2>3 DEF Acquire, TypeOK
    <3> QED
      BY <1>2, <1>3, <2>1, <3>1, InStepKept
  <2>4. CASE PeerWindow \/ UNCHANGED vars
    <3>1. w'[Reader] = w[Reader] /\ job'[Reader] = job[Reader]
      BY <2>4 DEF PeerWindow, vars, writeVars
    <3> QED
      BY <1>2, <1>3, <2>1, <3>1, InStepKept
  <2> QED
    BY <1>5, <2>2, <2>3, <2>4
<1>6. ASSUME NEW g \in Goroutines, WriteRefused(g) \/ WriteTimesOut(g)
      PROVE  PongsInStep'
  <2>1. Finish(g, FALSE) /\ w[g] \in {"head", "body"}
    BY <1>6 DEF WriteRefused, WriteTimesOut
  <2>2. wire' \in Seq(Parts) /\ stalled' \in BOOLEAN
    BY <1>1, <1>6 DEF WriteRefused, WriteTimesOut, TypeOK
  <2>3. CASE g # Reader
    <3>1. rd' = rd /\ w'[Reader] = w[Reader] /\ job'[Reader] = job[Reader]
      BY <1>1, <2>1, <2>3 DEF Finish, TypeOK
    <3> QED
      BY <1>2, <1>3, <3>1, InStepKept
  <2>4. CASE g = Reader
    <3>1. /\ rd \in Busy /\ rd' \notin Busy
          /\ rd = "pong" => rd' = "abort"
          /\ rd = "close" => rd' = "done"
          /\ rd = "toobig" => rd' = "abort"
      <4>1. rd \in Busy
        BY <1>1, <2>1, <2>4 DEF InControl
      <4> QED
        BY <1>1, <2>1, <2>2, <2>4, <4>1, FinishControl
    <3> QED
      BY <1>2, <1>3, <3>1, InStepKept DEF Busy
  <2> QED
    BY <2>3, <2>4
<1>7. CASE \E g \in Goroutines : WriteHead(g) \/ WriteBody(g)
  <2>1. PICK p : wire' = Append(wire, p)
    BY <1>7 DEF WriteHead, WriteBody
  <2>2. Len(wire') = Len(wire) + 1 /\ Len(wire) \in Nat
    BY <1>1, <2>1, Appended
  <2> QED
    BY <2>2
<1> QED
    BY <1>3, <1>4, <1>5, <1>6, <1>7 DEF Next, WriteStep

(* A head: the pong that was due is on the wire, or another frame is.      *)
LEMMA WriteHeadPongs ==
    ASSUME WireInv, PongsInStep, PongsAnswerPings, NEW g \in Goroutines, WriteHead(g)
    PROVE  PongsInStep' /\ PongsAnswerPings'
<1>1. TypeOK /\ WriteTyped /\ InControl /\ pings \in Seq(Data) /\ Reader \in Goroutines
    BY TypeParts DEF WireInv, TypeOK, Goroutines
<1>2. UNCHANGED pings
    BY DEF WriteHead, Finish, peerVars
<1>3. w[g] = "head" /\ Permitted(g, job[g]) /\ job[g] \in Job
    BY <1>1 DEF WriteHead, InControl, Writing, Permitted
<1>4. PICK p : p = Piece(g, "head")
    OBVIOUS
<1>5. /\ wire' = Append(wire, p) /\ p \in Parts
      /\ p.op = job[g].op /\ p.part = "head" /\ p.data = job[g].data
    BY <1>3, <1>4, PieceTyped DEF WriteHead
<1>6. wire' \in Seq(Parts) /\ stalled' \in BOOLEAN
    BY <1>1, <1>5 DEF TypeOK, WriteHead
<1>7. CASE job[g].op = "pong"
  <2>1. g = Reader
    BY <1>3, <1>7 DEF Permitted
  <2>2. rd = "pong"
    BY <1>1, <1>3, <1>7, <2>1 DEF InControl, Writing
  <2>3. /\ Cardinality(PongsUpTo(Len(wire))) + 1 = Len(pings)
        /\ job[Reader].data = pings[Len(pings)]
    BY <1>3, <2>1, <2>2 DEF PongsInStep
  <2>4. Cardinality(PongsUpTo(Len(wire)))' = Len(pings) /\ PongsAnswerPings'
    BY <1>1, <1>2, <1>5, <1>7, <2>1, <2>3, PongWritten
  <2>5. rd' # "pong" \/ w'[Reader] = "body"
    <3>1. CASE job[g].data # <<>>
      BY <1>1, <2>1, <3>1 DEF WriteHead, TypeOK
    <3>2. CASE job[g].data = <<>>
      <4>1. Finish(g, TRUE)
        BY <3>2 DEF WriteHead
      <4> QED
        BY <1>1, <1>3, <1>6, <2>1, <4>1, FinishControl DEF Busy
    <3> QED
      BY <3>1, <3>2
  <2> QED
    BY <1>1, <1>2, <2>4, <2>5 DEF PongsInStep
<1>8. CASE job[g].op # "pong"
  <2>1. PongsUpTo(Len(wire))' = PongsUpTo(Len(wire)) /\ PongsAnswerPings'
    <3>1. <<>> \in Data
      BY DEF Data
    <3> QED
      BY <1>1, <1>2, <1>5, <1>8, <3>1, PongsKept
  <2>2. CASE g # Reader
    <3>1. rd' = rd /\ w'[Reader] = w[Reader] /\ job'[Reader] = job[Reader]
      BY <1>1, <2>2 DEF WriteHead, Finish, TypeOK, readVars
    <3> QED
      BY <1>2, <2>1, <3>1, InStepKept
  <2>3. CASE g = Reader
    <3>1. rd # "pong" /\ rd \in Busy
      BY <1>1, <1>3, <1>8, <2>3 DEF InControl
    <3>2. /\ rd' # "pong"
          /\ rd' \in {"start", "read", "reply", "notjson"} => rd \in {"reply", "notjson"}
      <4>1. CASE job[g].data # <<>>
        BY <3>1, <4>1 DEF WriteHead, readVars, Busy
      <4>2. CASE job[g].data = <<>>
        <5>1. Finish(g, TRUE)
          BY <4>2 DEF WriteHead
        <5> QED
          BY <1>1, <1>3, <1>6, <2>3, <3>1, <5>1, FinishControl DEF Busy
      <4> QED
        BY <4>1, <4>2
    <3> QED
      BY <1>2, <2>1, <3>2, InStepKept
  <2> QED
    BY <2>1, <2>2, <2>3
<1> QED
    BY <1>7, <1>8

(* A body adds no pong, and ends the write of the one it completes.        *)
LEMMA WriteBodyPongs ==
    ASSUME WireInv, PongsInStep, PongsAnswerPings, NEW g \in Goroutines, WriteBody(g)
    PROVE  PongsInStep' /\ PongsAnswerPings'
<1>1. TypeOK /\ WriteTyped /\ InControl /\ pings \in Seq(Data) /\ Reader \in Goroutines
    BY TypeParts DEF WireInv, TypeOK, Goroutines
<1>2. UNCHANGED pings /\ Finish(g, TRUE) /\ w[g] = "body"
    BY DEF WriteBody, Finish, peerVars
<1>3. Permitted(g, job[g]) /\ job[g] \in Job
    BY <1>1, <1>2 DEF InControl, Writing, Permitted
<1>4. PICK p : p = Piece(g, "body")
    OBVIOUS
<1>5. wire' = Append(wire, p) /\ p \in Parts /\ p.part = "body"
    BY <1>3, <1>4, PieceTyped DEF WriteBody
<1>6. wire' \in Seq(Parts) /\ stalled' \in BOOLEAN
    BY <1>1, <1>5 DEF TypeOK, WriteBody
<1>7. PongsUpTo(Len(wire))' = PongsUpTo(Len(wire)) /\ PongsAnswerPings'
  <2>1. <<>> \in Data
    BY DEF Data
  <2> QED
    BY <1>1, <1>2, <1>5, <2>1, PongsKept
<1>8. CASE g # Reader
  <2>1. rd' = rd /\ w'[Reader] = w[Reader] /\ job'[Reader] = job[Reader]
    BY <1>1, <1>2, <1>8 DEF Finish, TypeOK
  <2> QED
    BY <1>2, <1>7, <2>1, InStepKept
<1>9. CASE g = Reader
  <2>1. rd \in Busy
    BY <1>1, <1>2, <1>9 DEF InControl
  <2>2. /\ rd' # "pong"
        /\ rd' \in {"start", "read", "reply", "notjson"} =>
             rd \in {"pong", "reply", "notjson"}
    BY <1>1, <1>2, <1>6, <1>9, <2>1, FinishControl DEF Busy
  <2> QED
    BY <1>2, <1>7, <1>9, <2>2, InStepKept
<1> QED
    BY <1>7, <1>8, <1>9

(* ReadMessage answers each ping before it reads on, so the pongs on the   *)
(* wire carry the payloads of the pings in their order, whatever the other *)
(* goroutines write between them.                                          *)
THEOREM ConnPongsAnswerPings == Spec => []PongsAnswerPings
<1> DEFINE Inv == WireInv /\ PongsInStep /\ PongsAnswerPings
<1>1. Init => Inv
  <2> SUFFICES ASSUME Init PROVE PongsInStep /\ PongsAnswerPings
    BY WireInitInv
  <2>1. wire = <<>> /\ pings = <<>> /\ rd = "start" /\ Len(wire) = 0
    BY DEF Init
  <2>2. PongsUpTo(Len(wire)) = {}
    BY <2>1 DEF PongsUpTo
  <2>3. Cardinality(PongsUpTo(Len(wire))) = 0
    BY <2>2, FS_EmptySet
  <2> QED
    BY <2>1, <2>3 DEF PongsInStep, PongsAnswerPings
<1>2. Inv /\ [Next]_vars => Inv'
  <2> SUFFICES ASSUME Inv, [Next]_vars PROVE PongsInStep' /\ PongsAnswerPings'
    BY WireNextInv
  <2>1. CASE ReadFrame
    BY <2>1, ReadFramePongs
  <2>2. CASE \E g \in Goroutines : WriteHead(g) \/ WriteBody(g)
    BY <2>2, WriteHeadPongs, WriteBodyPongs
  <2>3. CASE ~ReadFrame /\ ~(\E g \in Goroutines : WriteHead(g) \/ WriteBody(g))
    <3>1. wire' = wire
      BY <2>3 DEF Next, WriteStep, BeginReading, SchemaMissing, RefuseMessage,
         ReaderWrites, ReadFails, Abort, StartWrite, WriterQuits, Acquire, WriteRefused,
         WriteTimesOut, PeerWindow, vars, writeVars
    <3> QED
      BY <2>3, <3>1, QuietStepPongs
  <2> QED
    BY <2>1, <2>2, <2>3
<1>3. Inv => PongsAnswerPings
    OBVIOUS
<1> QED
    BY <1>1, <1>2, <1>3, PTL DEF Spec
=============================================================================
