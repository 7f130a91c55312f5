---------------------------- MODULE BrokerProofs ----------------------------
(***************************************************************************)
(* Proofs about Broker: type correctness with the bounds of its queues and *)
(* of the remembered ids, no orphaned subscriptions, delivery at most once *)
(* and in the publishers' order, for any number of publishers, sessions'   *)
(* ids, subscriptions and events, and any capacity and batch size.         *)
(***************************************************************************)
EXTENDS Broker, FiniteSetTheorems, SequenceTheorems, TLAPS

-----------------------------------------------------------------------------
(* The inductive invariants.                                               *)

Enqueuing == {"send", "drop", "resend"}
Visiting == {"remember", "check", "build", "close"} \cup Enqueuing

(* What publishers and writers have at hand where they are.                *)
Control ==
    /\ \A s \in Subs : /\ writer[s] = "write" <=> inHand[s] # None
                       /\ IsFiniteSet(seen[s])
    /\ \A p \in Publishers :
         /\ pc[p] # "idle" => evt[p] # None
         /\ evt[p] # None => evt[p].pub = p
         /\ pc[p] \in Visiting => cur[p] # None /\ cur[p] \notin todo[p]
         /\ pc[p] \in Enqueuing => frame[p] # None

(* A subscription belongs to one id, and only started ones have an id.     *)
SessionInv ==
    /\ session = "install" => want # None /\ active[want] = None
    /\ \A i, j \in SubIds : active[i] = active[j] /\ active[i] # None => i = j
    /\ \A i \in SubIds : active[i] # None => writer[active[i]] # "none"
    /\ NoOrphans

(* The events publisher p holds for s: the one whose id it has remembered, *)
(* then the frame it is about to enqueue.                                  *)
Held(p, s) ==
    IF cur[p] # s THEN <<>>
    ELSE IF pc[p] \in {"check", "build"} THEN <<evt[p]>>
    ELSE IF pc[p] \in Enqueuing THEN frame[p]
    ELSE <<>>

HeldFor(s) == [p \in Publishers |-> Held(p, s)]

(* Event ids: of a frame, distinct in a frame, apart in two frames.        *)
IdsOf(f) == {f[k].id : k \in DOMAIN f}

Distinct(f) == \A k, l \in DOMAIN f : f[k].id = f[l].id => k = l

Apart(f, g) == \A k \in DOMAIN f, l \in DOMAIN g : f[k].id # g[l].id

(* Frames in the pipeline, the batch and what the publishers hold are      *)
(* pairwise apart, and every id in them has been remembered.               *)
Once(line, b, held, ids) ==
    /\ \A i \in DOMAIN line : /\ Distinct(line[i]) /\ IdsOf(line[i]) \subseteq ids
                              /\ Apart(line[i], b)
                              /\ \A j \in DOMAIN line : i # j => Apart(line[i], line[j])
    /\ Distinct(b) /\ IdsOf(b) \subseteq ids
    /\ \A p \in Publishers : /\ Distinct(held[p]) /\ IdsOf(held[p]) \subseteq ids
                             /\ Apart(held[p], b)
                             /\ \A i \in DOMAIN line : Apart(held[p], line[i])
                             /\ \A q \in Publishers : p # q => Apart(held[p], held[q])

OnceInv ==
    \A s \in Subs \ emptied : Once(Pipeline(s), batch[s], HeldFor(s), seen[s])

(* Publisher p has still to enqueue its event for s.                       *)
Owes(p, s) ==
    \/ pc[p] = "snapshot"
    \/ pc[p] # "idle" /\ s \in todo[p]
    \/ pc[p] \in Visiting \ {"close"} /\ cur[p] = s

(* An event of publisher e.pub that is in the pipeline of s.               *)
Past(e, s) ==
    /\ evt[e.pub] # None /\ e.n <= evt[e.pub].n
    /\ Owes(e.pub, s) => e.n < evt[e.pub].n

EventsOf(line) ==
    {e \in Event : \E i \in DOMAIN line : \E k \in DOMAIN line[i] : e = line[i][k]}

(* Without batching, the pipeline is in order and holds nothing newer than *)
(* what its publisher has published to it.                                 *)
InOrder(line) ==
    \A i, j \in DOMAIN line : \A k \in DOMAIN line[i], l \in DOMAIN line[j] :
        i < j /\ line[i][k].pub = line[j][l].pub => line[i][k].n < line[j][l].n

OrderInv ==
    size = 1 =>
        /\ \A s \in Subs : /\ InOrder(Pipeline(s))
                           /\ \A e \in EventsOf(Pipeline(s)) : Past(e, s)
        /\ \A p \in Publishers : pc[p] \in Enqueuing => frame[p] \in {<<>>, <<evt[p]>>}

-----------------------------------------------------------------------------
(* Type correctness.                                                       *)

TypeInv == TypeOK /\ Control

(* Frames do not change: the batch size is fixed.                          *)
LEMMA FramesFixed ==
    ASSUME size' = size
    PROVE  Frames' = Frames
    BY DEF Frames

(* Empty frames, and a batch that grows by an event.                       *)
LEMMA FrameFacts ==
    ASSUME size \in BatchSizes
    PROVE  /\ size \in Nat /\ size >= 1
           /\ <<>> \in Frames /\ Len(<<>>) < size
           /\ \A f \in Frames : f \in Seq(Event) /\ Len(f) \in Nat /\ Len(f) <= size
           /\ \A f \in Frames, e \in Event : Len(f) < size =>
                Append(f, e) \in Frames /\ Len(Append(f, e)) = Len(f) + 1
           /\ None \notin Frames
<1>1. size \in Nat /\ size >= 1
    BY BrokerAssumption
<1>2. <<>> \in Frames /\ Len(<<>>) < size
    BY <1>1 DEF Frames
<1>3. \A f \in Frames : f \in Seq(Event) /\ Len(f) \in Nat /\ Len(f) <= size
    BY DEF Frames
<1>4. ASSUME NEW f \in Frames, NEW e \in Event, Len(f) < size
      PROVE  Append(f, e) \in Frames /\ Len(Append(f, e)) = Len(f) + 1
  <2>1. Append(f, e) \in Seq(Event) /\ Len(Append(f, e)) = Len(f) + 1
    BY <1>3
  <2> QED
    BY <1>1, <1>3, <1>4, <2>1 DEF Frames
<1>5. None \notin Frames
    BY BrokerAssumption DEF Frames
<1> QED
    BY <1>1, <1>2, <1>3, <1>4, <1>5

(* Remember keeps the set finite and within its limit.                     *)
LEMMA RememberedFacts ==
    ASSUME NEW ids \in SUBSET Nat, IsFiniteSet(ids), NEW id \in Nat, id \notin ids
    PROVE  /\ Remembered(ids, id) \in SUBSET Nat
           /\ IsFiniteSet(Remembered(ids, id))
           /\ Cardinality(Remembered(ids, id)) <= SeenLimit + 1
           /\ id \in Remembered(ids, id)
<1>1. SeenLimit \in Nat /\ Cardinality(ids) \in Nat
    BY BrokerAssumption, FS_CardinalityType
<1>2. CASE Cardinality(ids) > SeenLimit
  <2>1. Remembered(ids, id) = {id}
    BY <1>2 DEF Remembered
  <2>2. IsFiniteSet({id}) /\ Cardinality({id}) = 1
    BY FS_Singleton
  <2> QED
    BY <1>1, <2>1, <2>2
<1>3. CASE ~(Cardinality(ids) > SeenLimit)
  <2>1. Remembered(ids, id) = ids \cup {id}
    BY <1>3 DEF Remembered
  <2>2. IsFiniteSet(ids \cup {id}) /\ Cardinality(ids \cup {id}) = Cardinality(ids) + 1
    BY FS_AddElement
  <2> QED
    BY <1>1, <1>3, <2>1, <2>2
<1> QED
    BY <1>2, <1>3

(* The initial states.                                                     *)
LEMMA TypeInit == Init => TypeInv
<1> SUFFICES ASSUME Init PROVE TypeInv
    OBVIOUS
<1>1. size \in BatchSizes
    BY DEF Init
<1>2. <<>> \in Frames /\ Len(<<>>) < size /\ <<>> \in Seq(Frames) /\ Len(<<>>) = 0
    BY <1>1, FrameFacts
<1>3. IsFiniteSet({}) /\ Cardinality({}) = 0
    BY FS_EmptySet
<1>4. QueueCap \in Nat /\ SeenLimit \in Nat
    BY BrokerAssumption
<1>5. \A s \in Subs : Cardinality(seen[s]) <= SeenLimit + 1
    BY <1>3, <1>4 DEF Init
<1>6. TypeOK
    BY <1>1, <1>2, <1>4, <1>5 DEF Init, TypeOK
<1>7. Control
    BY <1>3 DEF Init, Control, Visiting, Enqueuing
<1> QED
    BY <1>6, <1>7 DEF TypeInv

(* PublishEvent and the copy of the registered subscriptions.              *)
LEMMA PublishType ==
    ASSUME TypeInv, NEW p \in Publishers, PublishEvent(p) \/ Snapshot(p) \/ Visit(p) \/ Return(p)
    PROVE  TypeInv'
<1>1. Frames' = Frames
    BY FramesFixed DEF PublishEvent, Snapshot, Visit, Return, sessionVars
<1>2. CASE PublishEvent(p)
  <2>1. PICK id \in ClientIds \cup {eventSeq + 1} :
          /\ evt' = [evt EXCEPT ![p] = [pub |-> p, n |-> Number(p), id |-> id]]
          /\ eventSeq' \in {eventSeq, eventSeq + 1}
    BY <1>2 DEF PublishEvent
  <2>2. [pub |-> p, n |-> Number(p), id |-> id] \in Event
    <3>1. id \in Nat
      BY BrokerAssumption DEF TypeInv, TypeOK
    <3>2. Number(p) \in 1 .. MaxEvents
      <4>1. evt[p] # None => evt[p].n \in 1 .. MaxEvents
        BY DEF TypeInv, TypeOK, Event
      <4> QED
        BY <1>2, <4>1, BrokerAssumption DEF PublishEvent, Number
    <3> QED
      BY <3>1, <3>2 DEF Event
  <2>3. PICK e : e = [pub |-> p, n |-> Number(p), id |-> id]
    OBVIOUS
  <2>4. e \in Event /\ e # None /\ e.pub = p /\ evt' = [evt EXCEPT ![p] = e]
    BY <2>1, <2>2, <2>3, BrokerAssumption
  <2>5. /\ pc' = [pc EXCEPT ![p] = "snapshot"] /\ eventSeq' \in Nat
        /\ UNCHANGED <<registered, closed, queue, seen, emptied, batch, todo, cur, frame,
                       writer, inHand, sent, active, session, want, size, conn, bound>>
    BY <1>2, <2>1 DEF PublishEvent, Goto, seenVars, writerVars, sessionVars, TypeInv, TypeOK
  <2>6. TypeOK'
    BY <1>1, <2>4, <2>5 DEF TypeInv, TypeOK
  <2>7. Control'
    BY <2>4, <2>5 DEF TypeInv, TypeOK, Control, Visiting, Enqueuing
  <2> QED
    BY <2>6, <2>7 DEF TypeInv
<1>3. CASE Snapshot(p) \/ Visit(p) \/ Return(p)
  <2>1. UNCHANGED <<registered, closed, queue, seen, emptied, batch, evt, eventSeq,
                    writer, inHand, sent, active, session, want, size, conn, bound>>
    BY <1>3 DEF Snapshot, Visit, Return, seenVars, writerVars, sessionVars
  <2>2. CASE Snapshot(p)
    <3>1. /\ todo' = [todo EXCEPT ![p] = registered] /\ pc' = [pc EXCEPT ![p] = "loop"]
          /\ UNCHANGED <<cur, frame>> /\ pc[p] = "snapshot"
      BY <2>2 DEF Snapshot, Goto
    <3>2. TypeOK'
      BY <1>1, <2>1, <3>1 DEF TypeInv, TypeOK
    <3>3. Control'
      BY <2>1, <3>1 DEF TypeInv, TypeOK, Control, Visiting, Enqueuing
    <3> QED
      BY <3>2, <3>3 DEF TypeInv
  <2>3. CASE Visit(p)
    <3>1. PICK s \in todo[p] :
            /\ todo' = [todo EXCEPT ![p] = @ \ {s}]
            /\ \/ s \in closed /\ UNCHANGED <<pc, cur>>
               \/ s \notin closed /\ Goto(p, "remember") /\ cur' = [cur EXCEPT ![p] = s]
      BY <2>3 DEF Visit
    <3>2. UNCHANGED frame /\ pc[p] = "loop" /\ s \in Subs /\ s # None
      BY <2>3, BrokerAssumption DEF Visit, TypeInv, TypeOK
    <3>3. todo' = [todo EXCEPT ![p] = @ \ {s}]
      BY <3>1
    <3>4. CASE UNCHANGED <<pc, cur>>
      <4>1. TypeOK'
        BY <1>1, <2>1, <3>2, <3>3, <3>4 DEF TypeInv, TypeOK
      <4>2. Control'
        BY <2>1, <3>2, <3>3, <3>4 DEF TypeInv, TypeOK, Control, Visiting, Enqueuing
      <4> QED
        BY <4>1, <4>2 DEF TypeInv
    <3>5. CASE pc' = [pc EXCEPT ![p] = "remember"] /\ cur' = [cur EXCEPT ![p] = s]
      <4>1. TypeOK'
        BY <1>1, <2>1, <3>2, <3>3, <3>5 DEF TypeInv, TypeOK
      <4>2. Control'
        BY <2>1, <3>2, <3>3, <3>5 DEF TypeInv, TypeOK, Control, Visiting, Enqueuing
      <4> QED
        BY <4>1, <4>2 DEF TypeInv
    <3> QED
      BY <3>1, <3>4, <3>5 DEF Goto
  <2>4. CASE Return(p)
    <3>1. /\ cur' = [cur EXCEPT ![p] = None] /\ frame' = [frame EXCEPT ![p] = None]
          /\ pc' = [pc EXCEPT ![p] = "idle"] /\ UNCHANGED todo
      BY <2>4 DEF Return, Goto
    <3>2. TypeOK'
      BY <1>1, <2>1, <3>1 DEF TypeInv, TypeOK
    <3>3. Control'
      BY <2>1, <3>1 DEF TypeInv, TypeOK, Control, Visiting, Enqueuing
    <3> QED
      BY <3>2, <3>3 DEF TypeInv
  <2> QED
    BY <1>3, <2>2, <2>3, <2>4
<1> QED
    BY <1>2, <1>3

(* What a visit to one subscription leaves alone, and its subscription.    *)
LEMMA VisitFacts ==
    ASSUME TypeInv, NEW p \in Publishers, pc[p] \in Visiting
    PROVE  /\ cur[p] \in Subs /\ evt[p] \in Event
           /\ queue[cur[p]] \in Seq(Frames) /\ Len(queue[cur[p]]) <= QueueCap
           /\ batch[cur[p]] \in Frames /\ Len(batch[cur[p]]) < size
           /\ pc[p] \in Enqueuing => frame[p] \in Frames
           /\ size \in BatchSizes
    BY DEF TypeInv, TypeOK, Control, Visiting, Enqueuing

(* A visit: Remember, schemaStillValid, buildFrame.                        *)
LEMMA BuildType ==
    ASSUME TypeInv, NEW p \in Publishers,
           Remember(p) \/ CheckSchema(p) \/ SkipEvent(p) \/ BuildFrame(p)
    PROVE  TypeInv'
<1>1. Frames' = Frames
    BY FramesFixed DEF Remember, CheckSchema, SkipEvent, BuildFrame, sessionVars
<1>2. /\ UNCHANGED <<registered, closed, queue, evt, todo, cur, eventSeq,
                     writer, inHand, sent, active, session, want, size, conn, bound>>
      /\ pc[p] \in {"remember", "check", "build"} /\ pc[p] \in Visiting
    BY DEF Remember, CheckSchema, SkipEvent, BuildFrame, writerVars, sessionVars, Visiting
<1>3. /\ cur[p] \in Subs /\ evt[p] \in Event
      /\ batch[cur[p]] \in Frames /\ Len(batch[cur[p]]) < size /\ size \in BatchSizes
    BY <1>2, VisitFacts
<1>4. CASE Remember(p)
  <2>1. PICK s \in Subs, id \in Nat : s = cur[p] /\ id = evt[p].id
    BY <1>3 DEF Event
  <2>2. UNCHANGED <<batch, frame>> /\ pc[p] = "remember"
    BY <1>4 DEF Remember
  <2>3. CASE id \in seen[s]
    <3>1. pc' = [pc EXCEPT ![p] = "loop"] /\ UNCHANGED <<seen, emptied>>
      BY <1>4, <2>1, <2>3 DEF Remember, Goto, seenVars
    <3>2. TypeOK'
      BY <1>1, <1>2, <2>2, <3>1 DEF TypeInv, TypeOK
    <3>3. Control'
      BY <1>2, <2>2, <3>1 DEF TypeInv, TypeOK, Control, Visiting, Enqueuing
    <3> QED
      BY <3>2, <3>3 DEF TypeInv
  <2>4. CASE id \notin seen[s]
    <3>1. PICK ids : ids = Remembered(seen[s], id)
      OBVIOUS
    <3>2. /\ pc' = [pc EXCEPT ![p] = "check"] /\ seen' = [seen EXCEPT ![s] = ids]
          /\ emptied' \in {emptied, emptied \cup {s}}
      BY <1>4, <2>1, <2>4, <3>1 DEF Remember, Goto
    <3>3. ids \in SUBSET Nat /\ IsFiniteSet(ids) /\ Cardinality(ids) <= SeenLimit + 1
      <4>1. seen[s] \in SUBSET Nat /\ IsFiniteSet(seen[s])
        BY DEF TypeInv, TypeOK, Control
      <4> QED
        BY <2>4, <3>1, <4>1, RememberedFacts
    <3>4. TypeOK'
      BY <1>1, <1>2, <2>2, <3>2, <3>3 DEF TypeInv, TypeOK
    <3>5. Control'
      BY <1>2, <2>2, <3>2, <3>3 DEF TypeInv, TypeOK, Control, Visiting, Enqueuing
    <3> QED
      BY <3>4, <3>5 DEF TypeInv
  <2> QED
    BY <2>3, <2>4
<1>5. CASE CheckSchema(p) \/ SkipEvent(p)
  <2>1. /\ UNCHANGED <<seen, emptied, batch>>
        /\ \/ pc' = [pc EXCEPT ![p] = "build"] /\ UNCHANGED frame
           \/ pc' = [pc EXCEPT ![p] = "loop"] /\ UNCHANGED frame
           \/ pc' = [pc EXCEPT ![p] = "send"] /\ frame' = [frame EXCEPT ![p] = <<>>]
    BY <1>5 DEF CheckSchema, SkipEvent, Goto, seenVars, ErrorFrame
  <2>2. <<>> \in Frames /\ None \notin Frames
    BY <1>3, FrameFacts
  <2>3. CASE \E l \in {"build", "loop"} : pc' = [pc EXCEPT ![p] = l] /\ UNCHANGED frame
    <3>1. TypeOK'
      BY <1>1, <1>2, <2>1, <2>3 DEF TypeInv, TypeOK
    <3>2. Control'
      BY <1>2, <1>5, <2>1, <2>3
      DEF TypeInv, TypeOK, Control, Visiting, Enqueuing, CheckSchema, SkipEvent
    <3> QED
      BY <3>1, <3>2 DEF TypeInv
  <2>4. CASE pc' = [pc EXCEPT ![p] = "send"] /\ frame' = [frame EXCEPT ![p] = <<>>]
    <3>1. TypeOK'
      BY <1>1, <1>2, <2>1, <2>2, <2>4 DEF TypeInv, TypeOK
    <3>2. Control'
      BY <1>2, <1>5, <2>1, <2>2, <2>4
      DEF TypeInv, TypeOK, Control, Visiting, Enqueuing, CheckSchema, SkipEvent
    <3> QED
      BY <3>1, <3>2 DEF TypeInv
  <2> QED
    BY <2>1, <2>3, <2>4
<1>6. CASE BuildFrame(p)
  <2>1. PICK s \in Subs, b \in Frames, e \in Event : s = cur[p] /\ b = batch[s] /\ e = evt[p]
    BY <1>3
  <2>2. PICK left, out : left = LeftInBatch(b, e) /\ out = Flushed(b, e)
    OBVIOUS
  <2>3. /\ UNCHANGED <<seen, emptied>> /\ batch' = [batch EXCEPT ![s] = left]
        /\ \/ pc' = [pc EXCEPT ![p] = "send"] /\ frame' = [frame EXCEPT ![p] = out]
           \/ pc' = [pc EXCEPT ![p] = "loop"] /\ UNCHANGED frame
    BY <1>6, <2>1, <2>2 DEF BuildFrame, Goto, seenVars
  <2>4. left \in Frames /\ Len(left) < size /\ out \in Frames /\ None \notin Frames
    <3>1. /\ Append(b, e) \in Frames /\ Len(Append(b, e)) = Len(b) + 1 /\ Len(b) \in Nat
          /\ size \in Nat /\ <<>> \in Frames /\ Len(<<>>) < size /\ None \notin Frames
      BY <1>3, <2>1, FrameFacts
    <3> QED
      BY <2>2, <3>1 DEF LeftInBatch, Flushed
  <2>5. pc[p] = "build" /\ UNCHANGED <<seen, emptied>>
        /\ batch' = [batch EXCEPT ![s] = left]
    BY <1>6, <2>3 DEF BuildFrame
  <2>6. CASE pc' = [pc EXCEPT ![p] = "send"] /\ frame' = [frame EXCEPT ![p] = out]
    <3>1. TypeOK'
      BY <1>1, <1>2, <2>4, <2>5, <2>6 DEF TypeInv, TypeOK
    <3>2. Control'
      BY <1>2, <2>4, <2>5, <2>6 DEF TypeInv, TypeOK, Control, Visiting, Enqueuing
    <3> QED
      BY <3>1, <3>2 DEF TypeInv
  <2>7. CASE pc' = [pc EXCEPT ![p] = "loop"] /\ UNCHANGED frame
    <3>1. TypeOK'
      BY <1>1, <1>2, <2>4, <2>5, <2>7 DEF TypeInv, TypeOK
    <3>2. Control'
      BY <1>2, <2>5, <2>7 DEF TypeInv, TypeOK, Control, Visiting, Enqueuing
    <3> QED
      BY <3>1, <3>2 DEF TypeInv
  <2> QED
    BY <2>3, <2>6, <2>7
<1> QED
    BY <1>4, <1>5, <1>6

(* What enqueue does to the queue: never more than its capacity.           *)
LEMMA EnqueueFacts ==
    ASSUME TypeInv, NEW p \in Publishers, Send(p) \/ DropOldest(p) \/ Resend(p)
    PROVE  /\ UNCHANGED <<registered, closed, seen, emptied, batch, evt, todo, cur, frame,
                          eventSeq, writer, inHand, sent, active, session, want, size,
                          conn, bound>>
           /\ pc[p] \in Enqueuing
           /\ \E q \in Seq(Frames), l \in {"drop", "resend", "close", "loop"} :
                /\ queue' = [queue EXCEPT ![cur[p]] = q] /\ Len(q) <= QueueCap
                /\ pc' = [pc EXCEPT ![p] = l]
                /\ \/ q = queue[cur[p]]
                   \/ /\ queue[cur[p]] # <<>> /\ q = Tail(queue[cur[p]])
                      /\ l = "resend"
                   \/ /\ q = Append(queue[cur[p]], frame[p])
                      /\ l = AfterEnqueue(p) /\ l \in {"close", "loop"}
<1>1. /\ UNCHANGED <<registered, closed, seen, emptied, batch, evt, todo, cur, frame,
                     eventSeq, writer, inHand, sent, active, session, want, size,
                     conn, bound>>
      /\ pc[p] \in Enqueuing /\ pc[p] \in Visiting
    BY DEF Send, DropOldest, Resend, seenVars, writerVars, sessionVars, Enqueuing, Visiting
<1>2. PICK c \in Seq(Frames), f \in Frames :
        c = queue[cur[p]] /\ f = frame[p] /\ Len(c) <= QueueCap
    BY <1>1, VisitFacts
<1>3. cur[p] \in Subs /\ queue \in [Subs -> Seq(Frames)] /\ QueueCap \in Nat
    BY <1>1, VisitFacts, BrokerAssumption DEF TypeInv, TypeOK
<1>4. AfterEnqueue(p) \in {"close", "loop"}
    BY DEF AfterEnqueue
<1>5. Append(c, f) \in Seq(Frames) /\ Len(Append(c, f)) = Len(c) + 1 /\ Len(c) \in Nat
    BY <1>2
<1>6. CASE queue' = [queue EXCEPT ![cur[p]] = Append(@, frame[p])]
           /\ Len(c) < QueueCap /\ pc' = [pc EXCEPT ![p] = AfterEnqueue(p)]
  <2>1. Len(Append(c, f)) <= QueueCap
    BY <1>3, <1>5, <1>6
  <2> QED
    BY <1>1, <1>2, <1>4, <1>5, <1>6, <2>1
<1>7. CASE UNCHANGED queue /\ \E l \in {"drop", "resend", "close", "loop"} :
                                  pc' = [pc EXCEPT ![p] = l]
    BY <1>1, <1>2, <1>3, <1>7
<1>8. CASE c # <<>> /\ queue' = [queue EXCEPT ![cur[p]] = Tail(@)]
           /\ pc' = [pc EXCEPT ![p] = "resend"]
  <2>1. Tail(c) \in Seq(Frames) /\ Len(Tail(c)) = Len(c) - 1
    BY <1>2, <1>8
  <2>2. Len(Tail(c)) <= QueueCap
    BY <1>2, <1>3, <1>5, <2>1
  <2> QED
    BY <1>1, <1>2, <1>8, <2>1, <2>2
<1>9. CASE Send(p)
    BY <1>2, <1>6, <1>7, <1>9 DEF Send, Goto
<1>10. CASE DropOldest(p)
  <2>1. c = <<>> => UNCHANGED queue
    BY <1>2, <1>3, <1>10 DEF DropOldest
  <2> QED
    BY <1>2, <1>7, <1>8, <1>10, <2>1 DEF DropOldest, Goto
<1>11. CASE Resend(p)
    BY <1>2, <1>4, <1>6, <1>7, <1>11 DEF Resend, Goto
<1> QED
    BY <1>9, <1>10, <1>11

(* enqueue, and the close of a subscription without its schema.            *)
LEMMA EnqueueType ==
    ASSUME TypeInv, NEW p \in Publishers,
           Send(p) \/ DropOldest(p) \/ Resend(p) \/ CloseMissing(p)
    PROVE  TypeInv'
<1>1. Frames' = Frames
    BY FramesFixed DEF Send, DropOldest, Resend, CloseMissing, sessionVars
<1>2. CASE Send(p) \/ DropOldest(p) \/ Resend(p)
  <2>1. PICK q \in Seq(Frames), l \in {"drop", "resend", "close", "loop"} :
          /\ queue' = [queue EXCEPT ![cur[p]] = q] /\ Len(q) <= QueueCap
          /\ pc' = [pc EXCEPT ![p] = l]
    BY <1>2, EnqueueFacts
  <2>2. /\ UNCHANGED <<registered, closed, seen, emptied, batch, evt, todo, cur, frame,
                       eventSeq, writer, inHand, sent, active, session, want, size,
                       conn, bound>>
        /\ pc[p] \in Enqueuing
    BY <1>2, EnqueueFacts
  <2>3. TypeOK'
    BY <1>1, <2>1, <2>2 DEF TypeInv, TypeOK
  <2>4. Control'
    BY <2>1, <2>2 DEF TypeInv, TypeOK, Control, Visiting, Enqueuing
  <2> QED
    BY <2>3, <2>4 DEF TypeInv
<1>3. CASE CloseMissing(p)
  <2>1. /\ UNCHANGED <<registered, queue, seen, emptied, batch, evt, todo, cur, frame,
                       eventSeq, writer, inHand, sent, active, session, want, size,
                       conn, bound>>
        /\ closed' = closed \cup {cur[p]} /\ pc' = [pc EXCEPT ![p] = "loop"]
        /\ pc[p] = "close"
    BY <1>3 DEF CloseMissing, Goto, seenVars, writerVars, sessionVars
  <2>2. cur[p] \in Subs
    BY <2>1, VisitFacts DEF Visiting
  <2>3. TypeOK'
    BY <1>1, <2>1, <2>2 DEF TypeInv, TypeOK
  <2>4. Control'
    BY <2>1 DEF TypeInv, TypeOK, Control, Visiting, Enqueuing
  <2> QED
    BY <2>3, <2>4 DEF TypeInv
<1> QED
    BY <1>2, <1>3

(* The writer goroutines.                                                  *)
LEMMA WriterType ==
    ASSUME TypeInv, NEW s \in Subs, WriterStep(s)
    PROVE  TypeInv'
<1>1. Frames' = Frames
    BY FramesFixed DEF WriterStep, WriterTake, WriterWrite, WriterStop, sessionVars
<1>2. UNCHANGED <<registered, closed, seen, emptied, batch, pc, evt, todo, cur, frame,
                  eventSeq, active, session, want, size, conn, bound>>
    BY DEF WriterStep, WriterTake, WriterWrite, WriterStop, seenVars, pubVars, sessionVars
<1>3. /\ queue[s] \in Seq(Frames) /\ Len(queue[s]) <= QueueCap
      /\ sent[s] \in Seq(Frames) /\ inHand[s] \in Frames \cup {None}
      /\ None \notin Frames /\ QueueCap \in Nat
    BY FrameFacts, BrokerAssumption DEF TypeInv, TypeOK
<1>4. CASE WriterTake(s)
  <2>1. PICK f, q : f = Head(queue[s]) /\ q = Tail(queue[s])
    OBVIOUS
  <2>2. f \in Frames /\ q \in Seq(Frames) /\ Len(q) <= QueueCap
    BY <1>3, <1>4, <2>1 DEF WriterTake
  <2>3. /\ inHand' = [inHand EXCEPT ![s] = f] /\ queue' = [queue EXCEPT ![s] = q]
        /\ writer' = [writer EXCEPT ![s] = "write"] /\ UNCHANGED sent
    BY <1>4, <2>1 DEF WriterTake
  <2>4. TypeOK'
    BY <1>1, <1>2, <2>2, <2>3 DEF TypeInv, TypeOK
  <2>5. Control'
    BY <1>2, <1>3, <2>2, <2>3 DEF TypeInv, TypeOK, Control
  <2> QED
    BY <2>4, <2>5 DEF TypeInv
<1>5. CASE WriterWrite(s)
  <2>1. inHand[s] \in Frames
    BY <1>3, <1>5 DEF WriterWrite, TypeInv, Control
  <2>2. PICK h : h = Append(sent[s], inHand[s])
    OBVIOUS
  <2>3. h \in Seq(Frames)
    BY <1>3, <2>1, <2>2
  <2>4. /\ inHand' = [inHand EXCEPT ![s] = None] /\ UNCHANGED queue
        /\ \/ sent' = [sent EXCEPT ![s] = h] /\ writer' = [writer EXCEPT ![s] = "select"]
           \/ UNCHANGED sent /\ writer' = [writer EXCEPT ![s] = "stopped"]
    BY <1>5, <2>2 DEF WriterWrite
  <2>5. TypeOK'
    <3>1. CASE sent' = [sent EXCEPT ![s] = h] /\ writer' = [writer EXCEPT ![s] = "select"]
      BY <1>1, <1>2, <2>3, <2>4, <3>1 DEF TypeInv, TypeOK
    <3>2. CASE UNCHANGED sent /\ writer' = [writer EXCEPT ![s] = "stopped"]
      BY <1>1, <1>2, <2>4, <3>2 DEF TypeInv, TypeOK
    <3> QED
      BY <2>4, <3>1, <3>2
  <2>6. Control'
    BY <1>2, <2>4 DEF TypeInv, TypeOK, Control
  <2> QED
    BY <2>5, <2>6 DEF TypeInv
<1>6. CASE WriterStop(s)
  <2>1. /\ writer[s] = "select" /\ writer' = [writer EXCEPT ![s] = "stopped"]
        /\ UNCHANGED <<queue, inHand, sent>>
    BY <1>6 DEF WriterStop
  <2>2. TypeOK'
    BY <1>1, <1>2, <2>1 DEF TypeInv, TypeOK
  <2>3. Control'
    BY <1>2, <2>1 DEF TypeInv, TypeOK, Control
  <2> QED
    BY <2>2, <2>3 DEF TypeInv
<1> QED
    BY <1>4, <1>5, <1>6 DEF WriterStep

(* The steps of the session's read loop and of the surroundings.           *)
SessionStep ==
    \/ \E i \in SubIds : Subscribe(i) \/ Complete(i)
    \/ SubscribeRejected \/ SubscribeAccepted \/ CompleteReply \/ EndSession \/ Unwind
    \/ Disconnect \/ WriteTimesOut \/ SchemaChanges

(* They leave publishers, queues and frames alone.                         *)
LEMMA SessionKeeps ==
    ASSUME SessionStep
    PROVE  UNCHANGED <<queue, seen, emptied, batch, pc, evt, todo, cur, frame, eventSeq,
                       inHand, sent, size>>
<1>1. UNCHANGED <<queue, seenVars, batch, pubVars, inHand, sent, size>>
    BY DEF SessionStep, Subscribe, Complete, SubscribeRejected, SubscribeAccepted,
       CompleteReply, EndSession, Unwind, Disconnect, WriteTimesOut, SchemaChanges,
       sessionVars, writerVars
<1> QED
    BY <1>1 DEF seenVars, pubVars

(* The subscription of an id goes: replaced, completed or unwound.         *)
Removes(i) ==
    /\ i \in SubIds
    /\ RemoveSubscription(active[i])
    /\ active' = [active EXCEPT ![i] = None]
    /\ want' \in {want, i} /\ (session' = "install" => want' = i)
    /\ session' \in {"install", "reply", "unwind"}
    /\ UNCHANGED <<writer, conn, bound>>

(* Nothing of the session but its place changes.                           *)
Moves ==
    /\ UNCHANGED <<registered, closed, active, writer>>
    /\ session' \in {"read", "install", "reply", "unwind", "done"}
    /\ want' \in {want, None}
    /\ session' = "install" => session = "install" /\ want' = want
    /\ conn' \in {"open", "stalled", "closed"} /\ bound' \in BOOLEAN

(* A new subscription.                                                     *)
Installs(s) ==
    /\ session = "install" /\ s \in Subs /\ writer[s] = "none"
    /\ registered' = registered \cup {s} /\ writer' = [writer EXCEPT ![s] = "select"]
    /\ active' = [active EXCEPT ![want] = s]
    /\ session' = "read" /\ want' = None
    /\ UNCHANGED <<closed, conn, bound>>

(* These are all the session does.                                         *)
LEMMA SessionEffect ==
    ASSUME TypeOK, SessionStep
    PROVE  (\E i \in SubIds : Removes(i)) \/ Moves \/ (\E s \in Subs : Installs(s))
<1>1. ASSUME NEW i \in SubIds, Subscribe(i) \/ Complete(i) PROVE Removes(i)
    BY <1>1 DEF Subscribe, Complete, Removes, writerVars
<1>2. CASE SubscribeAccepted
    BY <1>2 DEF SubscribeAccepted, Installs
<1>3. CASE \/ SubscribeRejected \/ CompleteReply \/ EndSession
           \/ Disconnect \/ WriteTimesOut \/ SchemaChanges
    BY <1>3 DEF TypeOK, SubscribeRejected, CompleteReply, EndSession, Disconnect,
       WriteTimesOut, SchemaChanges, Moves, sessionVars, writerVars
<1>4. CASE Unwind
    BY <1>4 DEF TypeOK, Unwind, Removes, Moves, writerVars
<1> QED
    BY <1>1, <1>2, <1>3, <1>4 DEF SessionStep

(* They keep the types.                                                    *)
LEMMA SessionType ==
    ASSUME TypeInv, SessionInv, SessionStep
    PROVE  TypeInv'
<1>1. UNCHANGED <<queue, seen, emptied, batch, pc, evt, todo, cur, frame, eventSeq,
                  inHand, sent, size>>
    BY SessionKeeps
<1>2. Frames' = Frames
    BY <1>1, FramesFixed
<1>3. ASSUME NEW i \in SubIds, Removes(i) PROVE TypeInv'
  <2>1. closed' \subseteq Subs /\ registered' \subseteq Subs
    BY <1>3 DEF TypeInv, TypeOK, Removes, RemoveSubscription
  <2>2. TypeOK'
    BY <1>1, <1>2, <1>3, <2>1 DEF TypeInv, TypeOK, Removes
  <2>3. Control'
    BY <1>1, <1>3 DEF TypeInv, Control, Removes
  <2> QED
    BY <2>2, <2>3 DEF TypeInv
<1>4. CASE Moves
  <2>1. TypeOK'
    BY <1>1, <1>2, <1>4 DEF TypeInv, TypeOK, Moves
  <2>2. Control'
    BY <1>1, <1>4 DEF TypeInv, Control, Moves
  <2> QED
    BY <2>1, <2>2 DEF TypeInv
<1>5. ASSUME NEW s \in Subs, Installs(s) PROVE TypeInv'
  <2>1. TypeOK'
    BY <1>1, <1>2, <1>5 DEF TypeInv, TypeOK, Installs
  <2>2. Control'
    BY <1>1, <1>5 DEF TypeInv, TypeOK, Control, Installs
  <2> QED
    BY <2>1, <2>2 DEF TypeInv
<1> QED
    BY <1>3, <1>4, <1>5, SessionEffect DEF TypeInv

(* They keep each subscription with one id, and no other one registered.   *)
LEMMA SessionKeepsInv ==
    ASSUME TypeInv, SessionInv, SessionStep
    PROVE  SessionInv'
<1>1. /\ active \in [SubIds -> Subs \cup {None}] /\ None \notin Subs
      /\ registered = {active[i] : i \in SubIds} \ {None}
    BY BrokerAssumption DEF TypeInv, TypeOK, SessionInv, NoOrphans
<1>2. ASSUME NEW i \in SubIds, Removes(i) PROVE SessionInv'
  <2>1. /\ active'[i] = None /\ \A j \in SubIds : j # i => active'[j] = active[j]
        /\ writer' = writer /\ (session' = "install" => want' = i)
        /\ registered' = registered \ {active[i]}
        /\ closed' = closed \cup ({active[i]} \ {None})
    BY <1>1, <1>2 DEF Removes, RemoveSubscription
  <2>2. registered' = {active'[j] : j \in SubIds} \ {None}
    <3>1. \A x : x \in registered' <=> x \in {active'[j] : j \in SubIds} \ {None}
      BY <1>1, <2>1 DEF SessionInv
    <3> QED
      BY <3>1
  <2>3. \A s \in Subs \ registered' : writer'[s] # "none" => s \in closed'
    BY <1>1, <2>1 DEF SessionInv, NoOrphans
  <2>4. i # None
    BY BrokerAssumption
  <2> QED
    BY <2>1, <2>2, <2>3, <2>4 DEF SessionInv, NoOrphans
<1>3. CASE Moves
    BY <1>3 DEF Moves, SessionInv, NoOrphans
<1>4. ASSUME NEW s \in Subs, Installs(s) PROVE SessionInv'
  <2>1. want \in SubIds /\ active[want] = None
    BY <1>4 DEF TypeInv, TypeOK, SessionInv, Installs
  <2>2. /\ active'[want] = s /\ \A j \in SubIds : j # want => active'[j] = active[j]
        /\ writer'[s] = "select" /\ writer[s] = "none"
        /\ \A t \in Subs : t # s => writer'[t] = writer[t]
        /\ registered' = registered \cup {s} /\ closed' = closed /\ session' = "read"
    BY <1>1, <1>4, <2>1 DEF Installs, TypeInv, TypeOK
  <2>3. \A j \in SubIds : active[j] # s
    BY <1>1, <2>2 DEF SessionInv
  <2>4. registered' = {active'[j] : j \in SubIds} \ {None}
    <3>1. \A x : x \in registered' <=> x \in {active'[j] : j \in SubIds} \ {None}
      BY <1>1, <2>1, <2>2
    <3> QED
      BY <3>1
  <2>5. \A t \in Subs \ registered' : writer'[t] # "none" => t \in closed'
    BY <2>2 DEF SessionInv, NoOrphans
  <2>6. \A j \in SubIds : active'[j] # None => writer'[active'[j]] # "none"
    BY <1>1, <2>1, <2>2, <2>3 DEF SessionInv
  <2>7. \A j, k \in SubIds : active'[j] = active'[k] /\ active'[j] # None => j = k
    BY <1>1, <2>1, <2>2, <2>3 DEF SessionInv
  <2> QED
    BY <2>2, <2>4, <2>5, <2>6, <2>7 DEF SessionInv, NoOrphans
<1> QED
    BY <1>2, <1>3, <1>4, SessionEffect DEF TypeInv

(* Publishers and writers never touch the registered set.                  *)
LEMMA OthersKeepInv ==
    ASSUME TypeInv, SessionInv,
           \/ \E p \in Publishers : PublishEvent(p) \/ PublisherStep(p)
           \/ \E s \in Subs : WriterStep(s)
           \/ UNCHANGED vars
    PROVE  SessionInv'
<1>1. /\ UNCHANGED <<registered, active, session, want>> /\ closed \subseteq closed'
      /\ \A s \in Subs : writer'[s] = "none" <=> writer[s] = "none"
  <2>1. CASE UNCHANGED vars
    BY <2>1 DEF vars, sessionVars, writerVars
  <2>2. CASE \E s \in Subs : WriterStep(s)
    <3>1. PICK s \in Subs : WriterStep(s)
      BY <2>2
    <3>2. /\ UNCHANGED <<registered, active, session, want, closed>>
          /\ writer[s] # "none"
          /\ \E l \in {"select", "write", "stopped"} : writer' = [writer EXCEPT ![s] = l]
      BY <3>1 DEF WriterStep, WriterTake, WriterWrite, WriterStop, sessionVars
    <3> QED
      BY <3>2 DEF TypeInv, TypeOK
  <2>3. CASE \E p \in Publishers : PublishEvent(p) \/ PublisherStep(p)
    BY <2>3 DEF PublishEvent, PublisherStep, Snapshot, Visit, Return, Remember,
       CheckSchema, SkipEvent, BuildFrame, Send, DropOldest, Resend, CloseMissing,
       sessionVars, writerVars
  <2> QED
    BY <2>1, <2>2, <2>3
<1>2. NoOrphans'
    BY <1>1 DEF SessionInv, NoOrphans
<1>3. \A i \in SubIds : active'[i] # None => writer'[active'[i]] # "none"
    BY <1>1 DEF TypeInv, TypeOK, SessionInv
<1> QED
    BY <1>1, <1>2, <1>3 DEF SessionInv

BaseInv == TypeInv /\ SessionInv

(* The initial states, and every step.                                     *)
LEMMA BaseInit == Init => BaseInv
<1>1. Init => SessionInv
    BY DEF Init, SessionInv, NoOrphans
<1> QED
    BY <1>1, TypeInit DEF BaseInv

(* Every step keeps the types and the session's invariant.                 *)
LEMMA BaseNext == BaseInv /\ [Next]_vars => BaseInv'
<1> SUFFICES ASSUME TypeInv, SessionInv, [Next]_vars PROVE BaseInv'
    BY DEF BaseInv
<1>1. CASE SessionStep
    BY <1>1, SessionType, SessionKeepsInv DEF BaseInv
<1>2. ASSUME NEW p \in Publishers, PublishEvent(p) \/ PublisherStep(p) PROVE BaseInv'
  <2>1. TypeInv'
    BY <1>2, PublishType, BuildType, EnqueueType DEF PublisherStep
  <2> QED
    BY <1>2, <2>1, OthersKeepInv DEF BaseInv
<1>3. ASSUME NEW s \in Subs, WriterStep(s) PROVE BaseInv'
    BY <1>3, WriterType, OthersKeepInv DEF BaseInv
<1>4. CASE UNCHANGED vars
  <2>1. Frames' = Frames
    BY <1>4, FramesFixed DEF vars, sessionVars
  <2>2. TypeInv'
    BY <1>4, <2>1 DEF TypeInv, TypeOK, Control, vars, seenVars, pubVars, writerVars,
       sessionVars
  <2> QED
    BY <1>4, <2>2, OthersKeepInv DEF BaseInv
<1> QED
    BY <1>1, <1>2, <1>3, <1>4 DEF Next, SessionStep

(* Every state has its type: a queue never holds more than its capacity,   *)
(* Seen no more than its limit allows, a batch is flushed in time.         *)
THEOREM BrokerTyped == Spec => []TypeOK
<1>1. BaseInv => TypeOK
    BY DEF BaseInv, TypeInv
<1> QED
    BY <1>1, BaseInit, BaseNext, PTL DEF Spec

(* A subscription is registered exactly while an id of its session stands  *)
(* for it, and is closed once it is not: whatever order replacements,      *)
(* completions, rejected requests and the end of the session come in.      *)
THEOREM BrokerNoOrphans == Spec => []NoOrphans
<1>1. BaseInv => NoOrphans
    BY DEF BaseInv, SessionInv
<1> QED
    BY <1>1, BaseInit, BaseNext, PTL DEF Spec

-----------------------------------------------------------------------------
(* The pipeline of a subscription.                                         *)

(* Sequence a is b with some elements left out.                            *)
Thinner(a, b) ==
    /\ DOMAIN a \subseteq Nat
    /\ \E m \in [DOMAIN a -> DOMAIN b] :
         /\ \A i, j \in DOMAIN a : i < j => m[i] < m[j]
         /\ \A i \in DOMAIN a : a[i] = b[m[i]]

(* A sequence thins to itself, and by the loss of one element.             *)
LEMMA ThinnerFacts ==
    ASSUME NEW S, NEW x \in Seq(S), NEW z \in Seq(S), NEW h \in S
    PROVE  /\ Thinner(x, x)
           /\ Thinner(x \o z, (x \o <<h>>) \o z)
<1>1. Thinner(x, x)
  <2>1. PICK m : m = [i \in DOMAIN x |-> i]
    OBVIOUS
  <2>2. m \in [DOMAIN x -> DOMAIN x]
    BY <2>1
  <2> QED
    BY <2>1, <2>2 DEF Thinner
<1>2. Thinner(x \o z, (x \o <<h>>) \o z)
  <2>1. PICK a, b : a = x \o z /\ b = (x \o <<h>>) \o z
    OBVIOUS
  <2>2. PICK n \in Nat, k \in Nat : n = Len(x) /\ k = Len(z)
    OBVIOUS
  <2>3. /\ DOMAIN a = 1 .. (n + k) /\ DOMAIN b = 1 .. (n + 1 + k)
        /\ \A i \in 1 .. n : a[i] = x[i] /\ b[i] = x[i]
        /\ \A i \in (n + 1) .. (n + k) : a[i] = z[i - n] /\ b[i + 1] = z[i - n]
    <3>1. Len(<<h>>) = 1 /\ <<h>> \in Seq(S)
      OBVIOUS
    <3>2. /\ x \o <<h>> \in Seq(S) /\ Len(x \o <<h>>) = n + 1
          /\ \A i \in 1 .. n : (x \o <<h>>)[i] = x[i]
      BY <2>2, <3>1
    <3>3. PICK y \in Seq(S) : y = x \o <<h>>
      BY <3>2
    <3>4. /\ a \in Seq(S) /\ Len(a) = n + k
          /\ \A i \in 1 .. n : a[i] = x[i]
          /\ \A i \in (n + 1) .. (n + k) : a[i] = z[i - n]
      BY <2>1, <2>2
    <3>5. /\ b \in Seq(S) /\ Len(b) = n + 1 + k
          /\ \A i \in 1 .. (n + 1) : b[i] = y[i]
          /\ \A i \in (n + 2) .. (n + 1 + k) : b[i] = z[i - (n + 1)]
      BY <2>1, <2>2, <3>2, <3>3
    <3>6. \A i \in 1 .. n : b[i] = x[i]
      BY <2>2, <3>2, <3>3, <3>5
    <3>7. ASSUME NEW i \in (n + 1) .. (n + k) PROVE b[i + 1] = z[i - n]
      <4>1. i + 1 \in (n + 2) .. (n + 1 + k) /\ (i + 1) - (n + 1) = i - n
        BY <2>2
      <4>2. b[i + 1] = z[(i + 1) - (n + 1)]
        BY <3>5, <4>1
      <4> QED
        BY <4>1, <4>2
    <3>8. DOMAIN a = 1 .. (n + k) /\ DOMAIN b = 1 .. (n + 1 + k)
      BY <3>4, <3>5
    <3> QED
      BY <3>4, <3>6, <3>7, <3>8
  <2>4. PICK m : m = [i \in 1 .. (n + k) |-> IF i <= n THEN i ELSE i + 1]
    OBVIOUS
  <2>5. m \in [DOMAIN a -> DOMAIN b]
    BY <2>2, <2>3, <2>4
  <2>6. \A i, j \in DOMAIN a : i < j => m[i] < m[j]
    BY <2>2, <2>3, <2>4
  <2>7. ASSUME NEW i \in DOMAIN a PROVE a[i] = b[m[i]]
    <3>1. i \in 1 .. n \/ i \in (n + 1) .. (n + k)
      BY <2>2, <2>3
    <3> QED
      BY <2>2, <2>3, <2>4, <3>1
  <2>8. DOMAIN a \subseteq Nat
    BY <2>2, <2>3
  <2>9. Thinner(a, b)
    BY <2>5, <2>6, <2>7, <2>8 DEF Thinner
  <2> QED
    BY <2>1, <2>9
<1> QED
    BY <1>1, <1>2

(* A frame is taken, written or queued without leaving its place.          *)
LEMMA PlacesFacts ==
    ASSUME NEW S, NEW x \in Seq(S), NEW z \in Seq(S), NEW h \in S
    PROVE  /\ (x \o <<>>) \o z = x \o z
           /\ (Append(x, h) \o <<>>) \o z = (x \o <<h>>) \o z
           /\ z # <<>> => (x \o <<>>) \o z = (x \o <<Head(z)>>) \o Tail(z)
           /\ x \o Append(z, h) = Append(x \o z, h)
<1>1. (x \o <<>>) \o z = x \o z
    BY ConcatEmptySeq
<1>2. (Append(x, h) \o <<>>) \o z = (x \o <<h>>) \o z
  <2>1. Append(x, h) = x \o <<h>> /\ Append(x, h) \in Seq(S)
    BY AppendIsConcat
  <2> QED
    BY <2>1, ConcatEmptySeq
<1>3. ASSUME z # <<>> PROVE (x \o <<>>) \o z = (x \o <<Head(z)>>) \o Tail(z)
  <2>1. Head(z) \in S /\ Tail(z) \in Seq(S)
    BY <1>3
  <2>2. <<Head(z)>> \in Seq(S)
    BY <2>1
  <2>3. PICK y \in Seq(S), t \in Seq(S) : y = <<Head(z)>> /\ t = Tail(z)
    BY <2>1, <2>2
  <2>4. z = y \o t
    BY <1>3, <2>3
  <2>5. (x \o y) \o t = x \o (y \o t)
    BY ConcatAssociative
  <2> QED
    BY <1>1, <2>3, <2>4, <2>5
<1>4. x \o Append(z, h) = Append(x \o z, h)
  <2>1. <<h>> \in Seq(S)
    OBVIOUS
  <2>2. PICK y \in Seq(S) : y = <<h>>
    BY <2>1
  <2>3. Append(z, h) = z \o y /\ x \o z \in Seq(S) /\ Append(x \o z, h) = (x \o z) \o y
    BY <2>2, AppendIsConcat
  <2> QED
    BY <2>3, ConcatAssociative
<1> QED
    BY <1>1, <1>2, <1>3, <1>4

(* The frame in the writer's hand as a sequence.                           *)
InHandOf(s) == IF inHand[s] = None THEN <<>> ELSE <<inHand[s]>>

(* The pipeline and its parts are sequences of frames.                     *)
LEMMA PipelineTyped ==
    ASSUME TypeInv, NEW s \in Subs
    PROVE  /\ sent[s] \in Seq(Frames) /\ queue[s] \in Seq(Frames)
           /\ InHandOf(s) \in Seq(Frames) /\ sent[s] \o InHandOf(s) \in Seq(Frames)
           /\ Pipeline(s) = (sent[s] \o InHandOf(s)) \o queue[s]
           /\ Pipeline(s) \in Seq(Frames)
<1>1. /\ sent[s] \in Seq(Frames) /\ queue[s] \in Seq(Frames)
      /\ inHand[s] \in Frames \cup {None}
    BY DEF TypeInv, TypeOK
<1>2. InHandOf(s) \in Seq(Frames)
  <2>1. CASE inHand[s] = None
    BY <2>1 DEF InHandOf
  <2>2. CASE inHand[s] # None
    <3>1. InHandOf(s) = <<inHand[s]>> /\ inHand[s] \in Frames
      BY <1>1, <2>2 DEF InHandOf
    <3> QED
      BY <3>1
  <2> QED
    BY <2>1, <2>2
<1>3. Pipeline(s) = (sent[s] \o InHandOf(s)) \o queue[s]
    BY DEF Pipeline, InHandOf
<1>4. sent[s] \o InHandOf(s) \in Seq(Frames)
    BY <1>1, <1>2
<1>5. (sent[s] \o InHandOf(s)) \o queue[s] \in Seq(Frames)
    BY <1>1, <1>4
<1> QED
    BY <1>1, <1>2, <1>3, <1>4, <1>5

(* It is a sequence of sequences of events.                                *)
LEMMA PipelineOfEvents ==
    ASSUME TypeInv, NEW s \in Subs
    PROVE  Pipeline(s) \in Seq(Seq(Event))
<1>1. Frames \subseteq Seq(Event)
    BY DEF Frames
<1> QED
    BY <1>1, PipelineTyped, SeqMonotonic

(* What moves no frame of s leaves its pipeline alone.                     *)
LEMMA PipelineKept ==
    ASSUME TypeInv, NEW s \in Subs,
           sent'[s] = sent[s] /\ inHand'[s] = inHand[s] /\ queue'[s] = queue[s]
    PROVE  Pipeline(s)' = Pipeline(s) /\ Thinner(Pipeline(s)', Pipeline(s))
<1>1. Pipeline(s)' = Pipeline(s)
    BY DEF Pipeline
<1>2. PICK c \in Seq(Frames) : c = Pipeline(s)
    BY PipelineTyped
<1>3. <<>> \in Frames
    BY FrameFacts DEF TypeInv, TypeOK
<1>4. Thinner(c, c)
    BY <1>3, ThinnerFacts
<1> QED
    BY <1>1, <1>2, <1>4

(* enqueue loses frames of the pipeline or puts a frame at its end.        *)
LEMMA EnqueuePipeline ==
    ASSUME TypeInv, NEW p \in Publishers, Send(p) \/ DropOldest(p) \/ Resend(p),
           NEW s \in Subs
    PROVE  \/ Thinner(Pipeline(s)', Pipeline(s))
           \/ /\ s = cur[p] /\ Pipeline(s)' = Append(Pipeline(s), frame[p])
              /\ \E l \in {"close", "loop"} : pc' = [pc EXCEPT ![p] = l]
<1>1. UNCHANGED <<sent, inHand>> /\ pc[p] \in Enqueuing
    BY EnqueueFacts
<1>2. PICK q \in Seq(Frames), l \in {"drop", "resend", "close", "loop"} :
        /\ queue' = [queue EXCEPT ![cur[p]] = q]
        /\ pc' = [pc EXCEPT ![p] = l]
        /\ \/ q = queue[cur[p]]
           \/ queue[cur[p]] # <<>> /\ q = Tail(queue[cur[p]])
           \/ q = Append(queue[cur[p]], frame[p]) /\ l \in {"close", "loop"}
    BY EnqueueFacts
<1>3. queue \in [Subs -> Seq(Frames)] /\ cur[p] \in Subs /\ frame[p] \in Frames
    BY <1>1, VisitFacts DEF TypeInv, TypeOK, Visiting
<1>4. CASE s # cur[p] \/ q = queue[cur[p]]
    BY <1>1, <1>2, <1>3, <1>4, PipelineKept
<1>5. CASE s = cur[p] /\ q # queue[s]
  <2>1. PICK x \in Seq(Frames), z \in Seq(Frames), f \in Frames :
          /\ x = sent[s] \o InHandOf(s) /\ z = queue[s] /\ f = frame[p]
          /\ Pipeline(s) = x \o z
    BY <1>3, PipelineTyped
  <2>2. Pipeline(s)' = x \o q
    BY <1>1, <1>2, <1>3, <1>5, <2>1 DEF Pipeline, InHandOf
  <2>3. CASE z # <<>> /\ q = Tail(z)
    <3>1. (x \o <<>>) \o z = x \o z /\ (x \o <<>>) \o z = (x \o <<Head(z)>>) \o Tail(z)
      BY <2>3, PlacesFacts
    <3>2. Head(z) \in Frames
      BY <2>3
    <3>3. Thinner(x \o q, (x \o <<Head(z)>>) \o q)
      BY <3>2, ThinnerFacts
    <3> QED
      BY <2>1, <2>2, <2>3, <3>1, <3>3
  <2>4. CASE q = Append(z, f) /\ l \in {"close", "loop"}
    <3>1. x \o Append(z, f) = Append(x \o z, f)
      BY PlacesFacts
    <3>2. Pipeline(s)' = Append(Pipeline(s), frame[p])
      BY <2>1, <2>2, <2>4, <3>1
    <3> QED
      BY <1>2, <1>5, <2>4, <3>2
  <2> QED
    BY <1>2, <1>5, <2>1, <2>3, <2>4
<1> QED
    BY <1>2, <1>4, <1>5

(* A writer moves frames along the pipeline; only a failed write loses one.*)
LEMMA WriterPipeline ==
    ASSUME TypeInv, NEW t \in Subs, WriterStep(t), NEW s \in Subs
    PROVE  Thinner(Pipeline(s)', Pipeline(s))
<1>1. /\ sent \in [Subs -> Seq(Frames)] /\ queue \in [Subs -> Seq(Frames)]
      /\ inHand \in [Subs -> Frames \cup {None}] /\ None \notin Frames
      /\ writer[s] = "write" <=> inHand[s] # None
    BY FrameFacts DEF TypeInv, TypeOK, Control
<1>2. CASE s # t \/ WriterStop(t)
  <2>1. sent'[s] = sent[s] /\ inHand'[s] = inHand[s] /\ queue'[s] = queue[s]
    BY <1>1, <1>2 DEF WriterStep, WriterTake, WriterWrite, WriterStop
  <2> QED
    BY <2>1, PipelineKept
<1>3. PICK x \in Seq(Frames), z \in Seq(Frames) : x = sent[s] /\ z = queue[s]
    BY <1>1
<1>4. <<>> \in Frames
    BY FrameFacts DEF TypeInv, TypeOK
<1>5. CASE WriterTake(s)
  <2>1. z # <<>>
    BY <1>3, <1>5 DEF WriterTake
  <2>2. Head(z) \in Frames /\ Tail(z) \in Seq(Frames)
    BY <2>1
  <2>3. PICK h \in Frames, y \in Seq(Frames) : h = Head(z) /\ y = Tail(z)
    BY <2>2
  <2>4. inHand[s] = None /\ inHand'[s] = h /\ queue'[s] = y /\ sent'[s] = x /\ h # None
    BY <1>1, <1>3, <1>5, <2>3 DEF WriterTake
  <2>5. Pipeline(s) = (x \o <<>>) \o z /\ Pipeline(s)' = (x \o <<h>>) \o y
    BY <1>3, <2>4 DEF Pipeline
  <2>6. (x \o <<>>) \o z = (x \o <<Head(z)>>) \o Tail(z)
    BY <2>1, <2>2, PlacesFacts
  <2>7. Pipeline(s)' = Pipeline(s) /\ Pipeline(s) \in Seq(Frames)
    BY <2>3, <2>5, <2>6, PipelineTyped
  <2> QED
    BY <1>4, <2>7, ThinnerFacts
<1>6. CASE WriterWrite(s)
  <2>1. PICK h \in Frames : h = inHand[s]
    BY <1>1, <1>6 DEF WriterWrite
  <2>2. inHand[s] # None /\ inHand'[s] = None /\ queue'[s] = z
    BY <1>1, <1>3, <1>6, <2>1 DEF WriterWrite
  <2>3. Pipeline(s) = (x \o <<h>>) \o z
    BY <1>3, <2>1, <2>2 DEF Pipeline
  <2>4. CASE sent'[s] = Append(x, h)
    <3>1. Pipeline(s)' = (Append(x, h) \o <<>>) \o z
      BY <2>2, <2>4 DEF Pipeline
    <3>2. Pipeline(s)' = Pipeline(s) /\ Pipeline(s) \in Seq(Frames)
      BY <2>3, <3>1, PlacesFacts, PipelineTyped
    <3> QED
      BY <1>4, <3>2, ThinnerFacts
  <2>5. CASE sent'[s] = x
    <3>1. Pipeline(s)' = (x \o <<>>) \o z
      BY <2>2, <2>5 DEF Pipeline
    <3>2. Pipeline(s)' = x \o z
      BY <3>1, PlacesFacts
    <3> QED
      BY <2>3, <3>2, ThinnerFacts
  <2> QED
    BY <1>1, <1>3, <1>6, <2>1, <2>4, <2>5 DEF WriterWrite
<1> QED
    BY <1>2, <1>5, <1>6 DEF WriterStep

-----------------------------------------------------------------------------
(* At most once.                                                           *)

(* Nothing is in the empty frame.                                          *)
LEMMA EmptyFrame ==
    /\ Distinct(<<>>) /\ IdsOf(<<>>) = {}
    /\ \A f : Apart(<<>>, f) /\ Apart(f, <<>>)
<1>1. DOMAIN <<>> = {}
    OBVIOUS
<1> QED
    BY <1>1 DEF Distinct, IdsOf, Apart

(* Being apart is symmetric.                                               *)
LEMMA ApartSymmetric ==
    ASSUME NEW f, NEW g, Apart(f, g)
    PROVE  Apart(g, f)
    BY DEF Apart

(* A frame of one event, whose id has not been remembered.                 *)
LEMMA NewEvent ==
    ASSUME NEW e
    PROVE  /\ Distinct(<<e>>) /\ IdsOf(<<e>>) = {e.id}
           /\ \A f, ids : IdsOf(f) \subseteq ids /\ e.id \notin ids
                             => Apart(f, <<e>>) /\ Apart(<<e>>, f)
<1>1. DOMAIN <<e>> = {1} /\ <<e>>[1] = e
    OBVIOUS
<1> QED
    BY <1>1 DEF Distinct, IdsOf, Apart

(* A batch that grows by an event.                                         *)
LEMMA GrownBatch ==
    ASSUME NEW f \in Seq(Event), NEW e \in Event, Distinct(f), Apart(f, <<e>>)
    PROVE  /\ Distinct(Append(f, e)) /\ IdsOf(Append(f, e)) = IdsOf(f) \cup {e.id}
           /\ \A g : Apart(f, g) /\ Apart(<<e>>, g) => Apart(Append(f, e), g)
<1> DEFINE n == Len(f)
           h == Append(f, e)
<1>1. n \in Nat
    OBVIOUS
<1>2. /\ DOMAIN h = 1 .. (n + 1) /\ DOMAIN f = 1 .. n
      /\ h[n + 1] = e /\ \A k \in 1 .. n : h[k] = f[k]
    OBVIOUS
<1> HIDE DEF n, h
<1>3. DOMAIN <<e>> = {1} /\ <<e>>[1] = e
    OBVIOUS
<1>4. \A k \in DOMAIN h : k = n + 1 \/ k \in DOMAIN f
    BY <1>1, <1>2
<1>5. \A k \in DOMAIN f : f[k].id # e.id
    BY <1>3 DEF Apart
<1>6. Distinct(h)
    BY <1>1, <1>2, <1>4, <1>5 DEF Distinct
<1>7. IdsOf(h) = IdsOf(f) \cup {e.id}
  <2>1. n + 1 \in DOMAIN h /\ DOMAIN f \subseteq DOMAIN h
    BY <1>1, <1>2
  <2> QED
    BY <1>2, <1>4, <2>1 DEF IdsOf
<1>8. ASSUME NEW g, Apart(f, g), Apart(<<e>>, g) PROVE Apart(h, g)
    BY <1>2, <1>3, <1>4, <1>8 DEF Apart
<1> QED
    BY <1>6, <1>7, <1>8 DEF h

(* Frames are lost, publishers let go of what they hold, ids are added.    *)
LEMMA OnceThinned ==
    ASSUME NEW a \in Seq(Seq(Event)), NEW b, NEW held, NEW ids,
           NEW c, NEW left, NEW more,
           Once(a, b, held, ids), Thinner(c, a), ids \subseteq more,
           \A q \in Publishers : left[q] = held[q] \/ left[q] = <<>>
    PROVE  Once(c, b, left, more)
<1>1. PICK m \in [DOMAIN c -> DOMAIN a] :
        /\ \A i, j \in DOMAIN c : i < j => m[i] < m[j]
        /\ \A i \in DOMAIN c : c[i] = a[m[i]]
    BY DEF Thinner
<1>2. DOMAIN c \subseteq Nat /\ DOMAIN a \subseteq Nat
    BY DEF Thinner
<1>3. ASSUME NEW i \in DOMAIN c, NEW j \in DOMAIN c, i # j PROVE m[i] # m[j]
  <2>1. m[i] \in Nat /\ m[j] \in Nat /\ i \in Nat /\ j \in Nat
    BY <1>1, <1>2
  <2>2. m[i] < m[j] \/ m[j] < m[i]
    BY <1>1, <1>3, <2>1
  <2> QED
    BY <2>1, <2>2
<1>4. \A i \in DOMAIN c : /\ Distinct(c[i]) /\ IdsOf(c[i]) \subseteq more
                          /\ Apart(c[i], b)
                          /\ \A j \in DOMAIN c : i # j => Apart(c[i], c[j])
    BY <1>1, <1>3 DEF Once
<1>5. Distinct(b) /\ IdsOf(b) \subseteq more
    BY DEF Once
<1>6. ASSUME NEW q \in Publishers
      PROVE  /\ Distinct(left[q]) /\ IdsOf(left[q]) \subseteq more
             /\ Apart(left[q], b)
             /\ \A i \in DOMAIN c : Apart(left[q], c[i])
             /\ \A r \in Publishers : q # r => Apart(left[q], left[r])
    BY <1>1, EmptyFrame DEF Once
<1> QED
    BY <1>4, <1>5, <1>6 DEF Once

(* Remember: publisher p holds an event with a new id.                     *)
LEMMA OnceRemembered ==
    ASSUME NEW a, NEW b, NEW held, NEW ids, NEW left, NEW more,
           Once(a, b, held, ids), NEW p \in Publishers, NEW e,
           e.id \notin ids, ids \subseteq more, e.id \in more,
           left[p] = <<e>>, held[p] = <<>>, \A q \in Publishers \ {p} : left[q] = held[q]
    PROVE  Once(a, b, left, more)
<1>1. /\ Distinct(<<e>>) /\ IdsOf(<<e>>) \subseteq more
      /\ \A f : IdsOf(f) \subseteq ids => Apart(f, <<e>>) /\ Apart(<<e>>, f)
    BY NewEvent
<1>2. \A i \in DOMAIN a : /\ Distinct(a[i]) /\ IdsOf(a[i]) \subseteq more
                          /\ Apart(a[i], b)
                          /\ \A j \in DOMAIN a : i # j => Apart(a[i], a[j])
    BY DEF Once
<1>3. Distinct(b) /\ IdsOf(b) \subseteq more
    BY DEF Once
<1>4. ASSUME NEW q \in Publishers
      PROVE  /\ Distinct(left[q]) /\ IdsOf(left[q]) \subseteq more
             /\ Apart(left[q], b)
             /\ \A i \in DOMAIN a : Apart(left[q], a[i])
             /\ \A r \in Publishers : q # r => Apart(left[q], left[r])
  <2>1. CASE q = p
    BY <1>1, <2>1 DEF Once
  <2>2. CASE q # p
    BY <1>1, <2>2 DEF Once
  <2> QED
    BY <2>1, <2>2
<1> QED
    BY <1>2, <1>3, <1>4 DEF Once

(* buildFrame: the event joins the batch, which is kept, flushed or lost.  *)
LEMMA OnceBatched ==
    ASSUME NEW a, NEW b \in Seq(Event), NEW held, NEW ids, NEW d, NEW left,
           Once(a, b, held, ids), NEW p \in Publishers, NEW e \in Event,
           held[p] = <<e>>, \A q \in Publishers \ {p} : left[q] = held[q],
           \/ d = Append(b, e) /\ left[p] = <<>>
           \/ d = <<>> /\ left[p] \in {<<>>, Append(b, e)}
    PROVE  Once(a, d, left, ids)
<1>1. PICK f : f = Append(b, e)
    OBVIOUS
<1>2. /\ Distinct(<<e>>) /\ e.id \in ids /\ Apart(<<e>>, b)
      /\ \A i \in DOMAIN a : Apart(<<e>>, a[i])
      /\ \A q \in Publishers \ {p} : Apart(<<e>>, held[q])
    BY NewEvent DEF Once
<1>3. /\ Distinct(f) /\ IdsOf(f) \subseteq ids
      /\ \A i \in DOMAIN a : Apart(f, a[i]) /\ Apart(a[i], f)
      /\ \A q \in Publishers \ {p} : Apart(f, held[q]) /\ Apart(held[q], f)
  <2>1. Distinct(b) /\ IdsOf(b) \subseteq ids /\ Apart(b, <<e>>)
    BY <1>2, ApartSymmetric DEF Once
  <2>2. Distinct(f) /\ IdsOf(f) \subseteq ids
    BY <1>1, <1>2, <2>1, GrownBatch
  <2>3. \A g : Apart(b, g) /\ Apart(<<e>>, g) => Apart(f, g)
    BY <1>1, <2>1, GrownBatch
  <2>4. \A i \in DOMAIN a : Apart(b, a[i])
    BY ApartSymmetric DEF Once
  <2>5. \A q \in Publishers : Apart(b, held[q])
    BY ApartSymmetric DEF Once
  <2> QED
    BY <1>2, <2>2, <2>3, <2>4, <2>5, ApartSymmetric
<1>4. d \in {<<>>, f} /\ left[p] \in {<<>>, f} /\ (d = <<>> \/ left[p] = <<>>)
    BY <1>1
<1>5. \A i \in DOMAIN a : /\ Distinct(a[i]) /\ IdsOf(a[i]) \subseteq ids
                          /\ Apart(a[i], d)
                          /\ \A j \in DOMAIN a : i # j => Apart(a[i], a[j])
    BY <1>3, <1>4, EmptyFrame DEF Once
<1>6. Distinct(d) /\ IdsOf(d) \subseteq ids
    BY <1>3, <1>4, EmptyFrame
<1>7. ASSUME NEW q \in Publishers
      PROVE  /\ Distinct(left[q]) /\ IdsOf(left[q]) \subseteq ids
             /\ Apart(left[q], d)
             /\ \A i \in DOMAIN a : Apart(left[q], a[i])
             /\ \A r \in Publishers : q # r => Apart(left[q], left[r])
  <2>1. CASE q = p
    BY <1>3, <1>4, <2>1, EmptyFrame
  <2>2. CASE q # p
    BY <1>3, <1>4, <2>2, EmptyFrame DEF Once
  <2> QED
    BY <2>1, <2>2
<1> QED
    BY <1>5, <1>6, <1>7 DEF Once

(* enqueue: the frame publisher p holds goes to the end of the pipeline.   *)
LEMMA OnceSent ==
    ASSUME NEW a \in Seq(Seq(Event)), NEW b, NEW held, NEW ids, NEW left,
           Once(a, b, held, ids), NEW p \in Publishers, held[p] \in Seq(Event),
           left[p] = <<>>, \A q \in Publishers \ {p} : left[q] = held[q]
    PROVE  Once(Append(a, held[p]), b, left, ids)
<1> DEFINE n == Len(a)
           f == held[p]
           c == Append(a, f)
<1>1. n \in Nat
    OBVIOUS
<1>2. /\ DOMAIN a = 1 .. n /\ DOMAIN c = 1 .. (n + 1)
      /\ c[n + 1] = f /\ \A i \in 1 .. n : c[i] = a[i]
    OBVIOUS
<1> HIDE DEF n, c
<1>3. \A i \in DOMAIN c : i = n + 1 \/ (i \in DOMAIN a /\ c[i] = a[i])
    BY <1>1, <1>2
<1>4. /\ Distinct(f) /\ IdsOf(f) \subseteq ids /\ Apart(f, b)
      /\ \A i \in DOMAIN a : Apart(f, a[i]) /\ Apart(a[i], f)
      /\ \A q \in Publishers \ {p} : Apart(f, held[q]) /\ Apart(held[q], f)
    BY <1>1, ApartSymmetric DEF Once
<1>5. \A i \in DOMAIN c : /\ Distinct(c[i]) /\ IdsOf(c[i]) \subseteq ids
                          /\ Apart(c[i], b)
                          /\ \A j \in DOMAIN c : i # j => Apart(c[i], c[j])
    BY <1>2, <1>3, <1>4 DEF Once
<1>6. Distinct(b) /\ IdsOf(b) \subseteq ids
    BY DEF Once
<1>7. ASSUME NEW q \in Publishers
      PROVE  /\ Distinct(left[q]) /\ IdsOf(left[q]) \subseteq ids
             /\ Apart(left[q], b)
             /\ \A i \in DOMAIN c : Apart(left[q], c[i])
             /\ \A r \in Publishers : q # r => Apart(left[q], left[r])
  <2>1. CASE q = p
    BY <2>1, EmptyFrame
  <2>2. CASE q # p
    BY <1>2, <1>3, <1>4, <2>2, EmptyFrame DEF Once
  <2> QED
    BY <2>1, <2>2
<1> QED
    BY <1>5, <1>6, <1>7 DEF Once, c

(* What a step of publisher p leaves in the others' hands.                 *)
LEMMA OthersHold ==
    ASSUME NEW s, NEW p \in Publishers,
           \A q \in Publishers \ {p} : /\ pc'[q] = pc[q] /\ cur'[q] = cur[q]
                                       /\ evt'[q] = evt[q] /\ frame'[q] = frame[q]
    PROVE  \A q \in Publishers \ {p} : HeldFor(s)'[q] = HeldFor(s)[q]
    BY DEF HeldFor, Held

(* What publisher p holds, before and after a step.                        *)
LEMMA HoldsFacts ==
    ASSUME NEW s, NEW p \in Publishers
    PROVE  /\ HeldFor(s)[p] = Held(p, s)
           /\ HeldFor(s)'[p] =
                IF cur'[p] # s THEN <<>>
                ELSE IF pc'[p] \in {"check", "build"} THEN <<evt'[p]>>
                ELSE IF pc'[p] \in Enqueuing THEN frame'[p]
                ELSE <<>>
    BY DEF HeldFor, Held

(* A publisher that visits another subscription, or is past enqueuing,     *)
(* holds nothing; one that enqueues holds its frame.                       *)
LEMMA LetGo ==
    ASSUME NEW s, NEW p \in Publishers,
           cur'[p] # s \/ pc'[p] \in {"idle", "snapshot", "loop", "remember", "close"}
    PROVE  HeldFor(s)'[p] = <<>>
<1>1. cur'[p] # s \/ pc'[p] \notin {"check", "build"} \cup Enqueuing
    BY DEF Enqueuing
<1> QED
    BY <1>1, HoldsFacts

LEMMA HoldsFrame ==
    ASSUME NEW s, NEW p \in Publishers, cur'[p] = s, pc'[p] \in Enqueuing
    PROVE  HeldFor(s)'[p] = frame'[p]
<1>1. pc'[p] \notin {"check", "build"}
    BY DEF Enqueuing
<1> QED
    BY <1>1, HoldsFacts

(* Frames are lost, or let go of, or nothing happens to s.                 *)
LEMMA OnceKept ==
    ASSUME TypeInv, OnceInv, NEW s \in Subs, s \notin emptied,
           Thinner(Pipeline(s)', Pipeline(s)), batch'[s] = batch[s],
           seen[s] \subseteq seen'[s],
           \A q \in Publishers : HeldFor(s)'[q] \in {HeldFor(s)[q], <<>>}
    PROVE  Once(Pipeline(s)', batch'[s], HeldFor(s)', seen'[s])
<1>1. Once(Pipeline(s), batch[s], HeldFor(s), seen[s])
    BY DEF OnceInv
<1>2. Pipeline(s) \in Seq(Seq(Event))
    BY PipelineOfEvents
<1>3. PICK a, c, b, held, left, ids, more :
        /\ a = Pipeline(s) /\ c = Pipeline(s)' /\ b = batch[s]
        /\ held = HeldFor(s) /\ left = HeldFor(s)' /\ ids = seen[s] /\ more = seen'[s]
    OBVIOUS
<1>4. Once(c, b, left, more)
    BY <1>1, <1>2, <1>3, OnceThinned
<1> QED
    BY <1>3, <1>4

(* Steps that move no event to s.                                          *)
LEMMA OnceQuiet ==
    ASSUME TypeInv, OnceInv, NEW s \in Subs, s \notin emptied', NEW p \in Publishers,
           \/ PublishEvent(p) \/ Snapshot(p) \/ Visit(p) \/ Return(p)
           \/ CheckSchema(p) \/ SkipEvent(p) \/ CloseMissing(p)
    PROVE  Once(Pipeline(s)', batch'[s], HeldFor(s)', seen'[s])
<1>1. UNCHANGED <<queue, inHand, sent, batch, seen, emptied>>
    BY DEF PublishEvent, Snapshot, Visit, Return, CheckSchema, SkipEvent, CloseMissing,
       seenVars, writerVars
<1>2. \A q \in Publishers \ {p} : /\ pc'[q] = pc[q] /\ cur'[q] = cur[q]
                                  /\ evt'[q] = evt[q] /\ frame'[q] = frame[q]
    BY DEF PublishEvent, Snapshot, Visit, Return, CheckSchema, SkipEvent, CloseMissing,
       Goto, TypeInv, TypeOK
<1>3. HeldFor(s)'[p] \in {HeldFor(s)[p], <<>>}
  <2>1. CASE \/ PublishEvent(p) \/ Snapshot(p) \/ Visit(p) \/ Return(p)
             \/ SkipEvent(p) \/ CloseMissing(p)
    <3>1. pc'[p] \in {"idle", "snapshot", "loop", "remember"}
      BY <2>1 DEF PublishEvent, Snapshot, Visit, Return, SkipEvent, CloseMissing, Goto,
         TypeInv, TypeOK
    <3> QED
      BY <3>1, LetGo
  <2>2. CASE CheckSchema(p)
    <3>1. /\ pc[p] = "check" /\ cur'[p] = cur[p] /\ evt'[p] = evt[p]
          /\ pc'[p] = "build" \/ (pc'[p] = "send" /\ frame'[p] = <<>>)
      BY <2>2 DEF CheckSchema, Goto, TypeInv, TypeOK, ErrorFrame
    <3>2. CASE cur[p] # s \/ pc'[p] = "send"
      <4>1. HeldFor(s)'[p] = <<>>
        BY <3>1, <3>2, HoldsFacts DEF Enqueuing
      <4> QED
        BY <4>1
    <3>3. CASE cur[p] = s /\ pc'[p] = "build"
      <4>1. PICK e : e = evt[p]
        OBVIOUS
      <4>2. evt' = evt
        BY <2>2 DEF CheckSchema
      <4>3. HeldFor(s)'[p] = <<e>>
        BY <3>1, <3>3, <4>1, <4>2, HoldsFacts
      <4>4. Held(p, s) = <<e>>
        BY <3>1, <3>3, <4>1 DEF Held
      <4> QED
        BY <4>3, <4>4, HoldsFacts
    <3> QED
      BY <3>1, <3>2, <3>3
  <2> QED
    BY <2>1, <2>2
<1>4. Thinner(Pipeline(s)', Pipeline(s))
    BY <1>1, PipelineKept
<1> QED
    BY <1>1, <1>2, <1>3, <1>4, OnceKept, OthersHold

(* Remember.                                                               *)
LEMMA OnceRemember ==
    ASSUME TypeInv, OnceInv, NEW s \in Subs, s \notin emptied', NEW p \in Publishers,
           Remember(p)
    PROVE  Once(Pipeline(s)', batch'[s], HeldFor(s)', seen'[s])
<1>1. UNCHANGED <<queue, inHand, sent, batch, evt, todo, cur, frame>>
      /\ pc[p] = "remember" /\ s \notin emptied
    BY DEF Remember, writerVars, seenVars
<1>2. \A q \in Publishers \ {p} : HeldFor(s)'[q] = HeldFor(s)[q]
  <2>1. \A q \in Publishers \ {p} : pc'[q] = pc[q]
    BY DEF Remember, Goto, TypeInv, TypeOK
  <2> QED
    BY <1>1, <2>1, OthersHold
<1>3. Pipeline(s)' = Pipeline(s) /\ Thinner(Pipeline(s)', Pipeline(s))
    BY <1>1, PipelineKept
<1>4. HeldFor(s)[p] = <<>>
    BY <1>1, HoldsFacts DEF Held, Enqueuing
<1>5. CASE evt[p].id \in seen[cur[p]] \/ s # cur[p]
  <2>1. seen'[s] = seen[s]
    BY <1>5 DEF Remember, seenVars, TypeInv, TypeOK
  <2>2. pc'[p] = "loop" \/ cur'[p] # s
    BY <1>1, <1>5 DEF Remember, Goto, TypeInv, TypeOK
  <2>3. HeldFor(s)'[p] = <<>>
    BY <2>2, HoldsFacts DEF Enqueuing
  <2> QED
    BY <1>1, <1>2, <1>3, <2>1, <2>3, OnceKept
<1>6. CASE evt[p].id \notin seen[s] /\ s = cur[p]
  <2>1. PICK e : e = evt[p]
    OBVIOUS
  <2>2. seen' = [seen EXCEPT ![s] = Remembered(@, e.id)] /\ pc'[p] = "check"
    BY <1>6, <2>1 DEF Remember, Goto, TypeInv, TypeOK
  <2>3. seen'[s] = Remembered(seen[s], e.id)
    BY <2>2 DEF TypeInv, TypeOK
  <2>4. e.id \in seen'[s] /\ seen[s] \subseteq seen'[s]
    BY <1>6, <2>1, <2>3 DEF Remember, Remembered
  <2>5. HeldFor(s)'[p] = <<e>>
    BY <1>1, <1>6, <2>1, <2>2, HoldsFacts
  <2>6. Once(Pipeline(s), batch[s], HeldFor(s), seen[s])
    BY <1>1 DEF OnceInv
  <2>7. PICK a, b, held, left, ids, more :
          /\ a = Pipeline(s) /\ b = batch[s] /\ held = HeldFor(s)
          /\ left = HeldFor(s)' /\ ids = seen[s] /\ more = seen'[s]
    OBVIOUS
  <2>8. Once(a, b, left, more)
    <3>1. Once(a, b, held, ids) /\ e.id \notin ids /\ ids \subseteq more /\ e.id \in more
      BY <1>6, <2>1, <2>4, <2>6, <2>7
    <3>2. left[p] = <<e>> /\ held[p] = <<>> /\ \A q \in Publishers \ {p} : left[q] = held[q]
      BY <1>2, <1>4, <2>5, <2>7
    <3> QED
      BY <3>1, <3>2, OnceRemembered
  <2> QED
    BY <1>1, <1>3, <2>7, <2>8
<1> QED
    BY <1>5, <1>6

(* buildFrame.                                                             *)
LEMMA OnceBuild ==
    ASSUME TypeInv, OnceInv, NEW s \in Subs, s \notin emptied', NEW p \in Publishers,
           BuildFrame(p)
    PROVE  Once(Pipeline(s)', batch'[s], HeldFor(s)', seen'[s])
<1>1. UNCHANGED <<queue, inHand, sent, seen, emptied, evt, todo, cur>>
      /\ pc[p] = "build" /\ s \notin emptied
    BY DEF BuildFrame, writerVars, seenVars
<1>2. \A q \in Publishers \ {p} : HeldFor(s)'[q] = HeldFor(s)[q]
  <2>1. \A q \in Publishers \ {p} : pc'[q] = pc[q] /\ frame'[q] = frame[q]
    BY DEF BuildFrame, Goto, TypeInv, TypeOK
  <2> QED
    BY <1>1, <2>1, OthersHold
<1>3. Pipeline(s)' = Pipeline(s) /\ Thinner(Pipeline(s)', Pipeline(s))
    BY <1>1, PipelineKept
<1>4. cur[p] \in Subs /\ evt[p] \in Event /\ batch[cur[p]] \in Frames
    BY <1>1, VisitFacts DEF Visiting
<1>5. CASE s # cur[p]
  <2>1. batch'[s] = batch[s]
    BY <1>4, <1>5 DEF BuildFrame, TypeInv, TypeOK
  <2>2. HeldFor(s)'[p] = <<>>
    BY <1>1, <1>5, HoldsFacts
  <2> QED
    BY <1>1, <1>2, <1>3, <2>1, <2>2, OnceKept
<1>6. CASE s = cur[p]
  <2>1. PICK e \in Event, b \in Seq(Event) : e = evt[p] /\ b = batch[s]
    BY <1>4, <1>6 DEF Frames
  <2>2. PICK a, d, held, left, ids :
          /\ a = Pipeline(s) /\ d = batch'[s] /\ held = HeldFor(s)
          /\ left = HeldFor(s)' /\ ids = seen[s]
    OBVIOUS
  <2>3. d = LeftInBatch(b, e)
    BY <1>6, <2>1, <2>2 DEF BuildFrame, TypeInv, TypeOK
  <2>4. held[p] = <<e>>
    BY <1>1, <1>6, <2>1, <2>2, HoldsFacts DEF Held
  <2>5. left[p] = <<>> \/ (left[p] = Flushed(b, e) /\ Flushed(b, e) # <<>>)
    <3>1. PICK out : out = Flushed(b, e)
      OBVIOUS
    <3>2. pc'[p] = "loop" \/ (pc'[p] = "send" /\ frame'[p] = out /\ out # <<>>)
      <4>1. \/ /\ pc' = [pc EXCEPT ![p] = "send"] /\ frame' = [frame EXCEPT ![p] = out]
               /\ out # <<>>
            \/ pc' = [pc EXCEPT ![p] = "loop"]
        BY <1>6, <2>1, <3>1 DEF BuildFrame, Goto
      <4>2. p \in DOMAIN pc /\ p \in DOMAIN frame
        BY DEF TypeInv, TypeOK
      <4> QED
        BY <4>1, <4>2
    <3>3. pc'[p] = "loop" => HeldFor(s)'[p] = <<>>
      BY LetGo
    <3>4. pc'[p] = "send" => HeldFor(s)'[p] = frame'[p]
      <4>1. cur'[p] = s
        BY <1>1, <1>6
      <4>2. "send" \in Enqueuing
        BY DEF Enqueuing
      <4> QED
        BY <4>1, <4>2, HoldsFrame
    <3> QED
      BY <2>2, <3>1, <3>2, <3>3, <3>4
  <2>6. \/ d = Append(b, e) /\ left[p] = <<>>
        \/ d = <<>> /\ left[p] \in {<<>>, Append(b, e)}
    BY <2>3, <2>5 DEF LeftInBatch, Flushed
  <2>7. Once(a, b, held, ids)
    BY <1>1, <2>1, <2>2 DEF OnceInv
  <2>8. \A q \in Publishers \ {p} : left[q] = held[q]
    BY <1>2, <2>2
  <2>9. Once(a, d, left, ids)
    BY <2>4, <2>6, <2>7, <2>8, OnceBatched
  <2> QED
    BY <1>1, <1>3, <2>2, <2>9
<1> QED
    BY <1>5, <1>6

(* enqueue.                                                                *)
LEMMA OnceEnqueue ==
    ASSUME TypeInv, OnceInv, NEW s \in Subs, s \notin emptied', NEW p \in Publishers,
           Send(p) \/ DropOldest(p) \/ Resend(p)
    PROVE  Once(Pipeline(s)', batch'[s], HeldFor(s)', seen'[s])
<1>1. UNCHANGED <<batch, seen, emptied, evt, cur, frame>> /\ pc[p] \in Enqueuing
    BY EnqueueFacts
<1>2. PICK l \in {"drop", "resend", "close", "loop"} : pc' = [pc EXCEPT ![p] = l]
    BY EnqueueFacts
<1>3. pc'[p] = l /\ \A q \in Publishers \ {p} : pc'[q] = pc[q]
    BY <1>2 DEF TypeInv, TypeOK
<1>4. \A q \in Publishers \ {p} : HeldFor(s)'[q] = HeldFor(s)[q]
    BY <1>1, <1>3, OthersHold
<1>5. HeldFor(s)[p] = IF cur[p] = s THEN frame[p] ELSE <<>>
    BY <1>1, HoldsFacts DEF Held, Enqueuing
<1>6. HeldFor(s)'[p] \in {HeldFor(s)[p], <<>>}
  <2>1. CASE cur[p] # s \/ l \in {"close", "loop"}
    <3>1. cur'[p] # s \/ pc'[p] \in {"close", "loop"}
      BY <1>1, <1>3, <2>1
    <3>2. HeldFor(s)'[p] = <<>>
      BY <3>1, LetGo
    <3> QED
      BY <3>2
  <2>2. CASE cur[p] = s /\ l \in {"drop", "resend"}
    <3>1. HeldFor(s)'[p] = frame[p]
      <4>1. cur'[p] = s /\ frame'[p] = frame[p]
        BY <1>1, <2>2
      <4>2. pc'[p] \in Enqueuing
        BY <1>3, <2>2 DEF Enqueuing
      <4> QED
        BY <4>1, <4>2, HoldsFrame
    <3> QED
      BY <1>5, <2>2, <3>1
  <2> QED
    BY <2>1, <2>2
<1>7. CASE Thinner(Pipeline(s)', Pipeline(s))
    BY <1>1, <1>4, <1>6, <1>7, OnceKept
<1>8. CASE /\ s = cur[p] /\ Pipeline(s)' = Append(Pipeline(s), frame[p])
           /\ \E k \in {"close", "loop"} : pc' = [pc EXCEPT ![p] = k]
  <2>1. pc'[p] \in {"close", "loop"}
    BY <1>8 DEF TypeInv, TypeOK
  <2>2. frame[p] \in Seq(Event)
    BY <1>1, VisitFacts DEF Visiting, Frames
  <2>3. Pipeline(s) \in Seq(Seq(Event)) /\ frame[p] \in Seq(Event)
    BY <2>2, PipelineOfEvents
  <2>4. PICK a, f, b, held, left, ids :
          /\ a \in Seq(Seq(Event)) /\ f \in Seq(Event)
          /\ a = Pipeline(s) /\ f = frame[p] /\ b = batch[s] /\ held = HeldFor(s)
          /\ left = HeldFor(s)' /\ ids = seen[s]
    BY <2>3
  <2>5. held[p] = f /\ left[p] = <<>> /\ \A q \in Publishers \ {p} : left[q] = held[q]
    <3>1. HeldFor(s)'[p] = <<>>
      BY <2>1, LetGo
    <3> QED
      BY <1>4, <1>5, <1>8, <2>4, <3>1
  <2>6. Once(a, b, held, ids)
    BY <1>1, <2>4 DEF OnceInv
  <2>7. Once(Append(a, f), b, left, ids)
    BY <2>4, <2>5, <2>6, OnceSent
  <2> QED
    BY <1>1, <1>8, <2>4, <2>7
<1> QED
    BY <1>7, <1>8, EnqueuePipeline

(* Steps of the writers, the session and the surroundings.                 *)
LEMMA OnceOthers ==
    ASSUME TypeInv, OnceInv, NEW s \in Subs, s \notin emptied',
           SessionStep \/ (\E t \in Subs : WriterStep(t)) \/ UNCHANGED vars
    PROVE  Once(Pipeline(s)', batch'[s], HeldFor(s)', seen'[s])
<1>1. UNCHANGED <<batch, seen, emptied, pc, evt, cur, frame>>
  <2>1. CASE UNCHANGED vars
    BY <2>1 DEF vars, seenVars, pubVars
  <2>2. CASE \E t \in Subs : WriterStep(t)
    BY <2>2 DEF WriterStep, WriterTake, WriterWrite, WriterStop, seenVars, pubVars
  <2>3. CASE SessionStep
    BY <2>3, SessionKeeps
  <2> QED
    BY <2>1, <2>2, <2>3
<1>2. HeldFor(s)' = HeldFor(s)
    BY <1>1 DEF HeldFor, Held
<1>3. Thinner(Pipeline(s)', Pipeline(s))
  <2>1. CASE SessionStep \/ UNCHANGED vars
    <3>1. UNCHANGED <<queue, inHand, sent>>
      BY <2>1, SessionKeeps DEF vars, writerVars
    <3> QED
      BY <3>1, PipelineKept
  <2>2. CASE \E t \in Subs : WriterStep(t)
    BY <2>2, WriterPipeline
  <2> QED
    BY <2>1, <2>2
<1> QED
    BY <1>1, <1>2, <1>3, OnceKept

(* The initial states.                                                     *)
LEMMA OnceInit == Init => OnceInv
<1> SUFFICES ASSUME Init, NEW s \in Subs
             PROVE  Once(Pipeline(s), batch[s], HeldFor(s), seen[s])
    BY DEF OnceInv
<1>1. Pipeline(s) = <<>> /\ batch[s] = <<>>
  <2>1. Pipeline(s) = (<<>> \o <<>>) \o <<>>
    BY DEF Init, Pipeline
  <2> QED
    BY <2>1 DEF Init
<1>2. \A p \in Publishers : HeldFor(s)[p] = <<>>
    BY DEF Init, HeldFor, Held, Enqueuing
<1>3. DOMAIN <<>> = {}
    OBVIOUS
<1>4. Once(<<>>, <<>>, HeldFor(s), seen[s])
    BY <1>2, <1>3, EmptyFrame DEF Once
<1> QED
    BY <1>1, <1>4

(* Every step.                                                             *)
LEMMA OnceNext == TypeInv /\ OnceInv /\ [Next]_vars => OnceInv'
<1> SUFFICES ASSUME TypeInv, OnceInv, [Next]_vars, NEW s \in Subs, s \notin emptied'
             PROVE  Once(Pipeline(s)', batch'[s], HeldFor(s)', seen'[s])
    BY DEF OnceInv, Once
<1>1. ASSUME NEW p \in Publishers, PublishEvent(p) \/ PublisherStep(p)
      PROVE  Once(Pipeline(s)', batch'[s], HeldFor(s)', seen'[s])
    BY <1>1, OnceQuiet, OnceRemember, OnceBuild, OnceEnqueue DEF PublisherStep
<1>2. CASE SessionStep \/ (\E t \in Subs : WriterStep(t)) \/ UNCHANGED vars
    BY <1>2, OnceOthers
<1> QED
    BY <1>1, <1>2 DEF Next, SessionStep

(* The frames of a subscription and of its publishers, taken together.     *)
LEMMA OnceMeaning ==
    ASSUME TypeInv, OnceInv
    PROVE  AtMostOnce
<1> SUFFICES ASSUME NEW s \in Subs \ emptied
             PROVE  LET frames == Append(Pipeline(s), batch[s])
                    IN  /\ \A i, j \in DOMAIN frames :
                             \A k \in DOMAIN frames[i], l \in DOMAIN frames[j] :
                                frames[i][k].id = frames[j][l].id => i = j /\ k = l
                        /\ \A p \in PendingIn(s) : \A k \in DOMAIN frame[p] :
                             /\ \A i \in DOMAIN frames : \A l \in DOMAIN frames[i] :
                                   frames[i][l].id # frame[p][k].id
                             /\ \A q \in PendingIn(s) : \A l \in DOMAIN frame[q] :
                                   frame[q][l].id = frame[p][k].id => q = p /\ l = k
    BY DEF AtMostOnce
<1> DEFINE frames == Append(Pipeline(s), batch[s])
<1>1. PICK a, b, held, ids :
        /\ a \in Seq(Seq(Event)) /\ a = Pipeline(s)
        /\ b = batch[s] /\ held = HeldFor(s) /\ ids = seen[s]
    BY PipelineOfEvents
<1>2. Once(a, b, held, ids)
    BY <1>1 DEF OnceInv
<1>3. PICK n \in Nat : n = Len(a)
    BY <1>1
<1>4. /\ DOMAIN a = 1 .. n /\ DOMAIN frames = 1 .. (n + 1)
      /\ frames[n + 1] = b /\ \A i \in 1 .. n : frames[i] = a[i]
    BY <1>1, <1>3
<1> HIDE DEF frames
<1>5. \A i \in DOMAIN frames : /\ i = n + 1 \/ i \in DOMAIN a
                               /\ i \in DOMAIN a => frames[i] = a[i]
    BY <1>3, <1>4
<1>6. \A i \in DOMAIN frames : Distinct(frames[i])
    BY <1>2, <1>4, <1>5 DEF Once
<1>7. \A i, j \in DOMAIN frames : i # j => Apart(frames[i], frames[j])
    BY <1>2, <1>4, <1>5, ApartSymmetric DEF Once
<1>8. \A p \in PendingIn(s) : p \in Publishers /\ held[p] = frame[p]
    BY <1>1, HoldsFacts DEF PendingIn, Held, Enqueuing
<1>9. \A p \in PendingIn(s) : /\ Distinct(frame[p])
                              /\ \A i \in DOMAIN frames : Apart(frame[p], frames[i])
    BY <1>2, <1>4, <1>5, <1>8 DEF Once
<1>10. \A p, q \in PendingIn(s) : p # q => Apart(frame[p], frame[q])
    BY <1>2, <1>8 DEF Once
<1>11. \A i, j \in DOMAIN frames :
          \A k \in DOMAIN frames[i], l \in DOMAIN frames[j] :
              frames[i][k].id = frames[j][l].id => i = j /\ k = l
    BY <1>6, <1>7 DEF Distinct, Apart
<1>12. ASSUME NEW p \in PendingIn(s), NEW k \in DOMAIN frame[p]
       PROVE  /\ \A i \in DOMAIN frames : \A l \in DOMAIN frames[i] :
                    frames[i][l].id # frame[p][k].id
              /\ \A q \in PendingIn(s) : \A l \in DOMAIN frame[q] :
                    frame[q][l].id = frame[p][k].id => q = p /\ l = k
    BY <1>9, <1>10 DEF Distinct, Apart
<1> QED
    BY <1>11, <1>12 DEF frames

(* As long as its remembered set has not been emptied, a subscription has  *)
(* an event id in at most one place, although publishers test and enqueue  *)
(* in separate steps and writers and replacements run between them.        *)
THEOREM BrokerAtMostOnce == Spec => []AtMostOnce
<1>1. BaseInv /\ OnceInv => AtMostOnce
    BY OnceMeaning DEF BaseInv
<1>2. Init => BaseInv /\ OnceInv
    BY BaseInit, OnceInit
<1>3. BaseInv /\ OnceInv /\ [Next]_vars => (BaseInv /\ OnceInv)'
    BY BaseNext, OnceNext DEF BaseInv
<1> QED
    BY <1>1, <1>2, <1>3, PTL DEF Spec

-----------------------------------------------------------------------------
(* The order of a publisher's events.                                      *)

(* A pipeline that loses frames stays in order.                            *)
LEMMA OrderThinned ==
    ASSUME NEW a, NEW c, Thinner(c, a), InOrder(a)
    PROVE  InOrder(c) /\ EventsOf(c) \subseteq EventsOf(a)
<1>1. PICK m \in [DOMAIN c -> DOMAIN a] :
        /\ \A i, j \in DOMAIN c : i < j => m[i] < m[j]
        /\ \A i \in DOMAIN c : c[i] = a[m[i]]
    BY DEF Thinner
<1>2. InOrder(c)
    BY <1>1 DEF InOrder
<1>3. EventsOf(c) \subseteq EventsOf(a)
    BY <1>1 DEF EventsOf
<1> QED
    BY <1>2, <1>3

(* A frame of one event, newer than what its publisher has sent, at the    *)
(* end.                                                                    *)
LEMMA OrderSent ==
    ASSUME NEW a \in Seq(Seq(Event)), NEW e \in Event, NEW f \in {<<>>, <<e>>}, InOrder(a),
           \A d \in EventsOf(a) : d.pub = e.pub => d.n < e.n
    PROVE  /\ InOrder(Append(a, f))
           /\ EventsOf(Append(a, f)) \subseteq EventsOf(a) \cup {e}
<1> DEFINE n == Len(a)
           c == Append(a, f)
<1>1. n \in Nat
    OBVIOUS
<1>2. f \in Seq(Event)
  <2>1. <<e>> \in Seq(Event) /\ <<>> \in Seq(Event)
    OBVIOUS
  <2> QED
    BY <2>1
<1>3. /\ DOMAIN a = 1 .. n /\ DOMAIN c = 1 .. (n + 1)
      /\ c[n + 1] = f /\ \A i \in 1 .. n : c[i] = a[i]
    BY <1>2
<1> HIDE DEF n, c
<1>4. \A i \in DOMAIN c : i = n + 1 \/ (i \in DOMAIN a /\ c[i] = a[i])
    BY <1>1, <1>3
<1>5. \A k \in DOMAIN f : f[k] = e
    OBVIOUS
<1>6. ASSUME NEW i \in DOMAIN a, NEW k \in DOMAIN a[i], a[i][k].pub = e.pub
      PROVE  a[i][k].n < e.n
  <2>1. a[i][k] \in Event
    OBVIOUS
  <2> QED
    BY <1>6, <2>1 DEF EventsOf
<1>7. ASSUME NEW i \in DOMAIN c, NEW j \in DOMAIN c, i < j,
             NEW k \in DOMAIN c[i], NEW l \in DOMAIN c[j], c[i][k].pub = c[j][l].pub
      PROVE  c[i][k].n < c[j][l].n
  <2>1. i \in DOMAIN a /\ c[i] = a[i]
    BY <1>1, <1>3, <1>4, <1>7
  <2>2. CASE j = n + 1
    BY <1>3, <1>5, <1>6, <1>7, <2>1, <2>2
  <2>3. CASE j \in DOMAIN a /\ c[j] = a[j]
    BY <1>7, <2>1, <2>3 DEF InOrder
  <2> QED
    BY <1>4, <2>2, <2>3
<1>8. InOrder(c)
    BY <1>7 DEF InOrder
<1>9. EventsOf(c) \subseteq EventsOf(a) \cup {e}
    BY <1>3, <1>4, <1>5 DEF EventsOf
<1> QED
    BY <1>8, <1>9 DEF c

(* Publishers get ahead of what is in the pipeline, never behind it.       *)
LEMMA PastKept ==
    ASSUME TypeInv, [Next]_vars, NEW e \in Event, NEW s, Past(e, s)
    PROVE  Past(e, s)'
<1>1. PICK q \in Publishers : q = e.pub
    BY DEF Event
<1>2. e.n \in Nat /\ evt[q] \in Event /\ evt[q].n \in Nat
  <2>1. evt[q] \in Event
    BY <1>1 DEF TypeInv, TypeOK, Past
  <2> QED
    BY <2>1 DEF Event
<1>3. ASSUME NEW p \in Publishers, PublishEvent(p) PROVE Past(e, s)'
  <2>1. CASE p = q
    <3>1. evt'[q].n = evt[q].n + 1 /\ evt'[q] # None
      <4>1. PICK id \in ClientIds \cup {eventSeq + 1} :
              evt' = [evt EXCEPT ![p] = [pub |-> p, n |-> Number(p), id |-> id]]
        BY <1>3 DEF PublishEvent
      <4>2. evt'[q] = [pub |-> p, n |-> Number(p), id |-> id]
        BY <2>1, <4>1 DEF TypeInv, TypeOK
      <4>3. Number(p) = evt[q].n + 1 /\ Number(p) <= MaxEvents
        BY <1>1, <1>3, <2>1 DEF Number, PublishEvent, Past
      <4>4. id \in Nat
        BY <4>1, BrokerAssumption DEF TypeInv, TypeOK
      <4>5. evt'[q] \in Event
        BY <1>2, <4>2, <4>3, <4>4, BrokerAssumption DEF Event
      <4> QED
        BY <4>2, <4>3, <4>5, BrokerAssumption
    <3>2. e.n < evt'[q].n
      BY <1>1, <1>2, <3>1 DEF Past
    <3>3. evt'[q].n \in Nat
      BY <1>2, <3>1
    <3> QED
      BY <1>1, <1>2, <3>1, <3>2, <3>3 DEF Past
  <2>2. CASE p # q
    <3>1. evt'[q] = evt[q] /\ pc'[q] = pc[q] /\ todo' = todo /\ cur' = cur
      BY <1>3, <2>2 DEF PublishEvent, Goto, TypeInv, TypeOK
    <3> QED
      BY <1>1, <3>1 DEF Past, Owes
  <2> QED
    BY <2>1, <2>2
<1>4. ASSUME evt'[q] = evt[q], Owes(q, s)' => Owes(q, s) PROVE Past(e, s)'
  <2>1. Owes(e.pub, s)' => Owes(e.pub, s)
    BY <1>1, <1>4
  <2> QED
    BY <1>1, <1>4, <2>1 DEF Past
<1>5. ASSUME NEW p \in Publishers, PublisherStep(p) PROVE Past(e, s)'
  <2>1. evt' = evt
    BY <1>5 DEF PublisherStep, Snapshot, Visit, Return, Remember, CheckSchema, SkipEvent,
       BuildFrame, Send, DropOldest, Resend, CloseMissing
  <2>2. CASE p # q
    <3>1. pc'[q] = pc[q] /\ todo'[q] = todo[q] /\ cur'[q] = cur[q]
      BY <1>5, <2>2 DEF PublisherStep, Snapshot, Visit, Return, Remember, CheckSchema,
         SkipEvent, BuildFrame, Send, DropOldest, Resend, CloseMissing, Goto, TypeInv, TypeOK
    <3>2. Owes(q, s)' => Owes(q, s)
      BY <3>1 DEF Owes
    <3> QED
      BY <1>4, <2>1, <3>2
  <2>3. CASE p = q
    <3>1. ASSUME Snapshot(q) \/ Return(q) PROVE Owes(q, s)' => Owes(q, s)
      BY <3>1 DEF Snapshot, Return, Goto, Owes, TypeInv, TypeOK, Visiting, Enqueuing
    <3>2. ASSUME Visit(q) PROVE Owes(q, s)' => Owes(q, s)
      BY <3>2 DEF Visit, Goto, Owes, TypeInv, TypeOK, Visiting, Enqueuing
    <3>3. ASSUME \/ Remember(q) \/ CheckSchema(q) \/ SkipEvent(q) \/ BuildFrame(q)
                 \/ Send(q) \/ DropOldest(q) \/ Resend(q) \/ CloseMissing(q)
          PROVE  Owes(q, s)' => Owes(q, s)
      <4>1. /\ pc[q] \in Visiting /\ todo' = todo /\ cur' = cur
            /\ pc[q] = "close" => pc'[q] = "loop"
        BY <3>3 DEF Remember, CheckSchema, SkipEvent, BuildFrame, Send, DropOldest, Resend,
           CloseMissing, Goto, TypeInv, TypeOK, Visiting, Enqueuing
      <4>2. pc'[q] # "snapshot"
        BY <3>3 DEF Remember, CheckSchema, SkipEvent, BuildFrame, Send, DropOldest, Resend,
           CloseMissing, Goto, AfterEnqueue, TypeInv, TypeOK
      <4> QED
        BY <4>1, <4>2 DEF Owes, Visiting, Enqueuing
    <3>4. Owes(q, s)' => Owes(q, s)
      BY <1>5, <2>3, <3>1, <3>2, <3>3 DEF PublisherStep
    <3> QED
      BY <1>4, <2>1, <3>4
  <2> QED
    BY <2>2, <2>3
<1>6. CASE SessionStep \/ (\E t \in Subs : WriterStep(t)) \/ UNCHANGED vars
  <2>1. UNCHANGED <<evt, pc, todo, cur>>
    BY <1>6, SessionKeeps DEF WriterStep, WriterTake, WriterWrite, WriterStop, pubVars, vars
  <2>2. Owes(q, s)' => Owes(q, s)
    BY <2>1 DEF Owes
  <2> QED
    BY <1>4, <2>1, <2>2
<1> QED
    BY <1>3, <1>5, <1>6 DEF Next, SessionStep

(* Without batching, the frame to enqueue has the event at hand or none.   *)
SingleFrames ==
    \A p \in Publishers : pc[p] \in Enqueuing => frame[p] \in {<<>>, <<evt[p]>>}

(* Every step keeps it so.                                                 *)
LEMMA SingleFramesKept ==
    ASSUME TypeInv, [Next]_vars, size = 1, SingleFrames
    PROVE  SingleFrames'
<1> SUFFICES ASSUME NEW q \in Publishers, pc'[q] \in Enqueuing
             PROVE  frame'[q] \in {<<>>, <<evt'[q]>>}
    BY DEF SingleFrames
<1>1. ASSUME evt'[q] = evt[q], frame'[q] = frame[q], pc[q] \in Enqueuing
      PROVE  frame'[q] \in {<<>>, <<evt'[q]>>}
    BY <1>1 DEF SingleFrames
<1>2. ASSUME NEW p \in Publishers, PublishEvent(p) \/ PublisherStep(p)
      PROVE  frame'[q] \in {<<>>, <<evt'[q]>>}
  <2>1. CASE p # q
    <3>1. evt'[q] = evt[q] /\ frame'[q] = frame[q] /\ pc'[q] = pc[q]
      BY <1>2, <2>1 DEF PublishEvent, PublisherStep, Snapshot, Visit, Return, Remember,
         CheckSchema, SkipEvent, BuildFrame, Send, DropOldest, Resend, CloseMissing, Goto,
         TypeInv, TypeOK
    <3> QED
      BY <1>1, <3>1
  <2>2. CASE p = q
    <3>1. CASE \/ PublishEvent(q) \/ Snapshot(q) \/ Visit(q) \/ Return(q) \/ Remember(q)
               \/ SkipEvent(q) \/ CloseMissing(q)
      <4>1. pc'[q] \notin Enqueuing
        BY <3>1 DEF PublishEvent, Snapshot, Visit, Return, Remember, SkipEvent, CloseMissing,
           Goto, TypeInv, TypeOK, Enqueuing
      <4> QED
        BY <4>1
    <3>2. CASE CheckSchema(q)
      <4>1. frame'[q] = <<>>
        BY <3>2 DEF CheckSchema, Goto, ErrorFrame, TypeInv, TypeOK, Enqueuing
      <4> QED
        BY <4>1
    <3>3. CASE BuildFrame(q)
      <4>1. PICK e, b : e = evt[q] /\ b = batch[cur[q]]
        OBVIOUS
      <4>2. evt' = evt /\ frame'[q] = Flushed(b, e)
        BY <3>3, <4>1 DEF BuildFrame, Goto, TypeInv, TypeOK, Enqueuing
      <4>3. b \in Seq(Event) /\ Len(b) < 1
        BY <3>3, <4>1, VisitFacts DEF BuildFrame, Visiting, Frames
      <4>4. b = <<>>
        BY <4>3
      <4>5. Flushed(b, e) = <<e>>
        BY <4>4 DEF Flushed
      <4>6. evt'[q] = e
        BY <4>1, <4>2
      <4> QED
        BY <4>2, <4>5, <4>6
    <3>4. CASE Send(q) \/ DropOldest(q) \/ Resend(q)
      BY <1>1, <3>4, EnqueueFacts
    <3> QED
      BY <1>2, <2>2, <3>1, <3>2, <3>3, <3>4 DEF PublisherStep
  <2> QED
    BY <2>1, <2>2
<1>3. CASE SessionStep \/ (\E t \in Subs : WriterStep(t)) \/ UNCHANGED vars
  <2>1. UNCHANGED <<evt, pc, frame>>
    BY <1>3, SessionKeeps DEF WriterStep, WriterTake, WriterWrite, WriterStop, pubVars, vars
  <2> QED
    BY <1>1, <2>1
<1> QED
    BY <1>2, <1>3 DEF Next, SessionStep

(* The pipeline of s after any step: thinner, or longer by a frame of a    *)
(* publisher that has just done its duty to s.                             *)
LEMMA PipelineStep ==
    ASSUME TypeInv, [Next]_vars, NEW s \in Subs
    PROVE  \/ Thinner(Pipeline(s)', Pipeline(s))
           \/ \E p \in Publishers :
                /\ Pipeline(s)' = Append(Pipeline(s), frame[p])
                /\ pc[p] \in Enqueuing /\ cur[p] = s /\ pc'[p] \in {"close", "loop"}
                /\ evt' = evt /\ todo' = todo
<1>1. ASSUME NEW p \in Publishers, Send(p) \/ DropOldest(p) \/ Resend(p)
      PROVE  \/ Thinner(Pipeline(s)', Pipeline(s))
             \/ /\ Pipeline(s)' = Append(Pipeline(s), frame[p])
                /\ pc[p] \in Enqueuing /\ cur[p] = s /\ pc'[p] \in {"close", "loop"}
                /\ evt' = evt /\ todo' = todo
  <2>1. pc[p] \in Enqueuing /\ evt' = evt /\ todo' = todo
    BY <1>1, EnqueueFacts
  <2>2. \/ Thinner(Pipeline(s)', Pipeline(s))
        \/ /\ s = cur[p] /\ Pipeline(s)' = Append(Pipeline(s), frame[p])
           /\ \E l \in {"close", "loop"} : pc' = [pc EXCEPT ![p] = l]
    BY <1>1, EnqueuePipeline
  <2>3. (\E l \in {"close", "loop"} : pc' = [pc EXCEPT ![p] = l])
           => pc'[p] \in {"close", "loop"}
    BY DEF TypeInv, TypeOK
  <2> QED
    BY <2>1, <2>2, <2>3
<1>2. ASSUME NEW t \in Subs, WriterStep(t) PROVE Thinner(Pipeline(s)', Pipeline(s))
    BY <1>2, WriterPipeline
<1>3. ASSUME UNCHANGED <<queue, inHand, sent>> PROVE Thinner(Pipeline(s)', Pipeline(s))
    BY <1>3, PipelineKept
<1>4. CASE SessionStep \/ UNCHANGED vars
    BY <1>3, <1>4, SessionKeeps DEF vars, writerVars
<1>5. ASSUME NEW p \in Publishers,
             \/ PublishEvent(p) \/ Snapshot(p) \/ Visit(p) \/ Return(p) \/ Remember(p)
             \/ CheckSchema(p) \/ SkipEvent(p) \/ BuildFrame(p) \/ CloseMissing(p)
      PROVE  Thinner(Pipeline(s)', Pipeline(s))
  <2>1. UNCHANGED <<queue, inHand, sent>>
    BY <1>5 DEF PublishEvent, Snapshot, Visit, Return, Remember, CheckSchema, SkipEvent,
       BuildFrame, CloseMissing, writerVars
  <2> QED
    BY <1>3, <2>1
<1> QED
    BY <1>1, <1>2, <1>4, <1>5 DEF Next, PublisherStep, SessionStep

(* Every step keeps the order.                                             *)
LEMMA OrderNext == TypeInv /\ OrderInv /\ [Next]_vars => OrderInv'
<1> SUFFICES ASSUME TypeInv, OrderInv, [Next]_vars, size' = 1 PROVE
        /\ \A s \in Subs : /\ InOrder(Pipeline(s)')
                           /\ \A e \in EventsOf(Pipeline(s)') : Past(e, s)'
        /\ SingleFrames'
    BY DEF OrderInv, SingleFrames, InOrder, EventsOf
<1>1. size = 1
    BY SessionKeeps DEF Next, SessionStep, vars, sessionVars, PublishEvent, PublisherStep,
       Snapshot, Visit, Return, Remember, CheckSchema, SkipEvent, BuildFrame, Send,
       DropOldest, Resend, CloseMissing, WriterStep, WriterTake, WriterWrite, WriterStop
<1>2. SingleFrames
    BY <1>1 DEF OrderInv, SingleFrames
<1>3. ASSUME NEW s \in Subs
      PROVE  InOrder(Pipeline(s)') /\ \A e \in EventsOf(Pipeline(s)') : Past(e, s)'
  <2>1. PICK a, c : a \in Seq(Seq(Event)) /\ a = Pipeline(s) /\ c = Pipeline(s)'
    BY PipelineOfEvents
  <2>2. InOrder(a) /\ \A e \in EventsOf(a) : e \in Event /\ Past(e, s)
    BY <1>1, <2>1 DEF OrderInv, EventsOf
  <2>3. ASSUME NEW e \in EventsOf(a) PROVE Past(e, s)'
    BY <2>2, PastKept
  <2>4. CASE Thinner(c, a)
    BY <2>1, <2>2, <2>3, <2>4, OrderThinned
  <2>5. ASSUME NEW p \in Publishers, c = Append(a, frame[p]),
               pc[p] \in Enqueuing, cur[p] = s, pc'[p] \in {"close", "loop"},
               evt' = evt, todo' = todo
        PROVE  InOrder(c) /\ \A e \in EventsOf(c) : Past(e, s)'
    <3>1. PICK d, f : d \in Event /\ d = evt[p] /\ f = frame[p]
      BY <2>5, VisitFacts DEF Visiting
    <3>2. d.pub = p /\ f \in {<<>>, <<d>>} /\ s \notin todo[p]
      BY <1>2, <2>5, <3>1 DEF SingleFrames, TypeInv, Control, Visiting, Enqueuing
    <3>3. Owes(p, s)
      BY <2>5 DEF Owes, Visiting, Enqueuing
    <3>4. \A e \in EventsOf(a) : e.pub = d.pub => e.n < d.n
      BY <2>2, <3>1, <3>2, <3>3 DEF Past
    <3>5. InOrder(c) /\ EventsOf(c) \subseteq EventsOf(a) \cup {d}
      <4>1. a \in Seq(Seq(Event)) /\ d \in Event /\ c = Append(a, f)
        BY <2>1, <2>5, <3>1
      <4> QED
        BY <2>2, <3>2, <3>4, <4>1, OrderSent
    <3>6. Past(d, s)'
      <4>1. ~Owes(p, s)'
        BY <2>5, <3>2 DEF Owes, Visiting, Enqueuing
      <4>2. ~Owes(d.pub, s)'
        BY <3>2, <4>1
      <4>3. evt'[d.pub] = d /\ d # None /\ d.n \in Nat
        BY <2>5, <3>1, <3>2, BrokerAssumption DEF Event
      <4> QED
        BY <4>2, <4>3 DEF Past
    <3> QED
      BY <2>3, <3>5, <3>6
  <2>6. InOrder(c) /\ \A e \in EventsOf(c) : Past(e, s)'
    BY <2>1, <2>4, <2>5, PipelineStep
  <2> QED
    BY <2>1, <2>6
<1> QED
    BY <1>1, <1>2, <1>3, SingleFramesKept

(* The initial states.                                                     *)
LEMMA OrderInit == Init => OrderInv
<1> SUFFICES ASSUME Init PROVE OrderInv
    OBVIOUS
<1>1. ASSUME NEW s \in Subs PROVE Pipeline(s) = <<>>
  <2>1. Pipeline(s) = (<<>> \o <<>>) \o <<>>
    BY DEF Init, Pipeline
  <2> QED
    BY <2>1
<1>2. DOMAIN <<>> = {}
    OBVIOUS
<1>3. InOrder(<<>>) /\ EventsOf(<<>>) = {}
    BY <1>2 DEF InOrder, EventsOf
<1>4. \A p \in Publishers : pc[p] \notin Enqueuing
    BY DEF Init, Enqueuing
<1> QED
    BY <1>1, <1>3, <1>4 DEF OrderInv

(* A frame without batching has at most one event.                         *)
LEMMA OrderMeaning ==
    ASSUME TypeInv, OrderInv
    PROVE  PublisherOrder
<1> SUFFICES ASSUME size = 1, NEW s \in Subs,
                    NEW i \in DOMAIN Pipeline(s), NEW j \in DOMAIN Pipeline(s),
                    NEW k \in DOMAIN Pipeline(s)[i], NEW l \in DOMAIN Pipeline(s)[j],
                    i < j \/ (i = j /\ k < l),
                    Pipeline(s)[i][k].pub = Pipeline(s)[j][l].pub
             PROVE  Pipeline(s)[i][k].n < Pipeline(s)[j][l].n
    BY DEF PublisherOrder
<1>1. PICK c \in Seq(Frames) : c = Pipeline(s)
    BY PipelineTyped
<1>2. c[i] \in Seq(Event) /\ Len(c[i]) <= 1
    BY <1>1 DEF Frames
<1>3. k = 1 /\ (i = j => l = 1)
  <2>1. PICK f \in Seq(Event) : f = c[i] /\ Len(f) <= 1
    BY <1>2
  <2>2. \A m \in DOMAIN f : m = 1
    BY <2>1
  <2> QED
    BY <1>1, <2>1, <2>2
<1>4. i < j
    BY <1>3
<1> QED
    BY <1>4 DEF OrderInv, InOrder

(* Without batching, a subscription has the events of one publisher in the *)
(* order they were published: Send and Resend put a frame behind what the  *)
(* same publisher sent before, whatever was dropped to make room.          *)
THEOREM BrokerPublisherOrder == Spec => []PublisherOrder
<1>1. BaseInv /\ OrderInv => PublisherOrder
    BY OrderMeaning DEF BaseInv
<1>2. Init => BaseInv /\ OrderInv
    BY BaseInit, OrderInit
<1>3. BaseInv /\ OrderInv /\ [Next]_vars => (BaseInv /\ OrderInv)'
    BY BaseNext, OrderNext DEF BaseInv
<1> QED
    BY <1>1, <1>2, <1>3, PTL DEF Spec
=============================================================================
