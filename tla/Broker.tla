------------------------------- MODULE Broker -------------------------------
(***************************************************************************)
(* Event streaming: the broker and its subscriptions (internal/stream),    *)
(* with the goroutines that use them in cmd/server/main.go: publishers     *)
(* (devEventHandler), one WebSocket session (subscriptionHandler) and the  *)
(* writer goroutine of each of its subscriptions.                          *)
(*                                                                         *)
(* A publisher copies the set of subscriptions under the broker's lock and *)
(* then works on them one by one without it; each pc value below is a      *)
(* point where other goroutines may run.  A channel is a sequence, closing *)
(* a channel puts the subscription into "closed".                          *)
(***************************************************************************)
EXTENDS Integers, Sequences, FiniteSets

CONSTANTS
    Subs,        \* Subscription objects a session may create
    SubIds,      \* subscription ids the client uses
    Publishers,  \* goroutines that call PublishEvent
    ClientIds,   \* event ids a caller may supply; the broker numbers the rest
    QueueCap,    \* capacity of Subscription.Queue (100 in the code)
    BatchSizes,  \* values of Subscription.BatchSize; 1 for other than container
                 \* targets
    SeenLimit,   \* size at which Remember starts over (4096 in the code)
    MaxEvents,   \* bound: events per publisher
    Faults,      \* which of the surroundings' events a run includes
    None

Event == [pub : Publishers, n : 1 .. MaxEvents, id : Nat]

ASSUME BrokerAssumption ==
    /\ QueueCap \in Nat \ {0} /\ BatchSizes \subseteq Nat \ {0}
    /\ SeenLimit \in Nat /\ MaxEvents \in Nat
    /\ ClientIds \subseteq Nat
    /\ Faults \subseteq {"delete", "disconnect", "stall"}
    /\ None \notin Subs \cup SubIds /\ None \notin Event /\ None \notin Seq(Event)

VARIABLES
    registered,  \* Broker.subscriptions
    closed,      \* subscriptions whose Closed channel is closed
    queue,       \* Subscription.Queue
    seen,        \* Subscription.Seen
    emptied,     \* history: the subscriptions whose Seen has been emptied
    size,        \* BatchSize, a parameter of the session's request
    batch,       \* Subscription.batchNodes
    eventSeq,    \* Broker.eventSeq
    pc,          \* where each publisher is in PublishEvent
    evt,         \* the event it publishes
    todo,        \* the subscriptions of its copy it has not visited
    cur,         \* the one it visits
    frame,       \* the frame it has to enqueue
    writer,      \* the writer goroutine of each subscription
    inHand,      \* the frame the writer took and has not written
    sent,        \* history: the frames written to the client
    active,      \* activeSubs of the session
    session,     \* where the session's read loop is
    want,        \* the id that the subscribe in progress is about
    conn,        \* "open"; "stalled": a write has failed, so all later ones
                 \* do, but the client's messages still arrive; "closed"
    bound        \* the registry still has the bound schema version

seenVars == <<seen, emptied>>
pubVars == <<pc, evt, todo, cur, frame, eventSeq>>
sessionVars == <<active, session, want, size>>
writerVars == <<writer, inHand, sent>>
vars == <<registered, closed, queue, seenVars, batch, pubVars, writerVars,
          sessionVars, conn, bound>>

(* Frames: a data frame carries the events of one batch, an error frame    *)
(* none.                                                                   *)
ErrorFrame == <<>>

Frames == {f \in Seq(Event) : Len(f) <= size}

TypeOK ==
    /\ registered \subseteq Subs /\ closed \subseteq Subs /\ emptied \subseteq Subs
    /\ queue \in [Subs -> Seq(Frames)] /\ \A s \in Subs : Len(queue[s]) <= QueueCap
    /\ seen \in [Subs -> SUBSET Nat]
    /\ \A s \in Subs : Cardinality(seen[s]) <= SeenLimit + 1
    /\ batch \in [Subs -> Frames] /\ \A s \in Subs : Len(batch[s]) < size
    /\ inHand \in [Subs -> Frames \cup {None}] /\ sent \in [Subs -> Seq(Frames)]
    /\ writer \in [Subs -> {"none", "select", "write", "stopped"}]
    /\ eventSeq \in Nat
    /\ pc \in [Publishers -> {"idle", "snapshot", "loop", "remember", "check",
                              "build", "send", "drop", "resend", "close"}]
    /\ evt \in [Publishers -> Event \cup {None}]
    /\ todo \in [Publishers -> SUBSET Subs]
    /\ cur \in [Publishers -> Subs \cup {None}]
    /\ frame \in [Publishers -> Frames \cup {None}]
    /\ active \in [SubIds -> Subs \cup {None}]
    /\ session \in {"read", "install", "reply", "unwind", "done"}
    /\ want \in SubIds \cup {None} /\ size \in BatchSizes
    /\ conn \in {"open", "stalled", "closed"} /\ bound \in BOOLEAN

Init ==
    /\ registered = {} /\ closed = {}
    /\ queue = [s \in Subs |-> <<>>]
    /\ seen = [s \in Subs |-> {}]
    /\ batch = [s \in Subs |-> <<>>]
    /\ eventSeq = 0
    /\ pc = [p \in Publishers |-> "idle"]
    /\ evt = [p \in Publishers |-> None]
    /\ todo = [p \in Publishers |-> {}]
    /\ cur = [p \in Publishers |-> None]
    /\ frame = [p \in Publishers |-> None]
    /\ writer = [s \in Subs |-> "none"]
    /\ inHand = [s \in Subs |-> None]
    /\ sent = [s \in Subs |-> <<>>]
    /\ active = [i \in SubIds |-> None]
    /\ session = "read"
    /\ want = None
    /\ emptied = {}
    /\ size \in BatchSizes
    /\ conn = "open"
    /\ bound = TRUE

-----------------------------------------------------------------------------
(* PublishEvent.                                                           *)

Goto(p, l) == pc' = [pc EXCEPT ![p] = l]

Number(p) == IF evt[p] = None THEN 1 ELSE evt[p].n + 1

(* The id is the caller's, or the next number of the broker.               *)
PublishEvent(p) ==
    /\ pc[p] = "idle"
    /\ Number(p) <= MaxEvents
    /\ \E id \in ClientIds \cup {eventSeq + 1} :
         /\ evt' = [evt EXCEPT ![p] = [pub |-> p, n |-> Number(p), id |-> id]]
         /\ \/ id \in ClientIds /\ UNCHANGED eventSeq
            \/ id = eventSeq + 1 /\ eventSeq' = eventSeq + 1
    /\ Goto(p, "snapshot")
    /\ UNCHANGED <<registered, closed, queue, seenVars, batch, todo, cur, frame,
                   writerVars, sessionVars, conn, bound>>

Snapshot(p) ==
    /\ pc[p] = "snapshot"
    /\ todo' = [todo EXCEPT ![p] = registered]
    /\ Goto(p, "loop")
    /\ UNCHANGED <<registered, closed, queue, seenVars, batch, evt, cur, frame,
                   eventSeq, writerVars, sessionVars, conn, bound>>

(* The next subscription of the copy, in map order; skipped if closed.     *)
Visit(p) ==
    /\ pc[p] = "loop"
    /\ \E s \in todo[p] :
         /\ todo' = [todo EXCEPT ![p] = @ \ {s}]
         /\ \/ s \in closed /\ UNCHANGED <<pc, cur>>
            \/ s \notin closed /\ Goto(p, "remember") /\ cur' = [cur EXCEPT ![p] = s]
    /\ UNCHANGED <<registered, closed, queue, seenVars, batch, evt, frame,
                   eventSeq, writerVars, sessionVars, conn, bound>>

Return(p) ==
    /\ pc[p] = "loop"
    /\ todo[p] = {}
    /\ Goto(p, "idle")
    /\ cur' = [cur EXCEPT ![p] = None]
    /\ frame' = [frame EXCEPT ![p] = None]
    /\ UNCHANGED <<registered, closed, queue, seenVars, batch, evt, todo,
                   eventSeq, writerVars, sessionVars, conn, bound>>

(* The defect: an id is tested but never stored.                           *)
RememberedNothing(ids, id) == ids

(* The defect: the remembered set is never emptied.                        *)
RememberedAll(ids, id) == ids \cup {id}

(* Remember: a full set is emptied before the id goes in.                  *)
Remembered(ids, id) ==
    (IF Cardinality(ids) > SeenLimit THEN {} ELSE ids) \cup {id}

Remember(p) ==
    LET s == cur[p]
        id == evt[p].id
    IN  /\ pc[p] = "remember"
        /\ IF id \in seen[s]
           THEN Goto(p, "loop") /\ UNCHANGED seenVars
           ELSE /\ Goto(p, "check")
                /\ seen' = [seen EXCEPT ![s] = Remembered(@, id)]
                /\ emptied' = IF seen[s] \subseteq seen'[s]
                              THEN emptied ELSE emptied \cup {s}
        /\ UNCHANGED <<registered, closed, queue, batch, evt, todo, cur, frame,
                       eventSeq, writerVars, sessionVars, conn, bound>>

(* schemaStillValid: without the bound version an error frame is enqueued  *)
(* and the subscription closed.                                            *)
CheckSchema(p) ==
    /\ pc[p] = "check"
    /\ IF bound THEN Goto(p, "build") /\ UNCHANGED frame
                ELSE Goto(p, "send") /\ frame' = [frame EXCEPT ![p] = ErrorFrame]
    /\ UNCHANGED <<registered, closed, queue, seenVars, batch, evt, todo, cur,
                   eventSeq, writerVars, sessionVars, conn, bound>>

(* The event does not decode, is of another type or does not project.      *)
SkipEvent(p) ==
    /\ pc[p] = "build"
    /\ Goto(p, "loop")
    /\ UNCHANGED <<registered, closed, queue, seenVars, batch, evt, todo, cur,
                   frame, eventSeq, writerVars, sessionVars, conn, bound>>

(* appendBatch: what stays buffered, and what is flushed (empty for none). *)
LeftInBatch(b, e) == IF Len(b) + 1 >= size THEN <<>> ELSE Append(b, e)

Flushed(b, e) == IF Len(b) + 1 >= size THEN Append(b, e) ELSE <<>>

(* buildFrame.  Encoding may fail, after the batch has been emptied.       *)
BuildFrame(p) ==
    LET s == cur[p]
        out == Flushed(batch[s], evt[p])
    IN  /\ pc[p] = "build"
        /\ batch' = [batch EXCEPT ![s] = LeftInBatch(@, evt[p])]
        /\ \/ out # <<>> /\ Goto(p, "send") /\ frame' = [frame EXCEPT ![p] = out]
           \/ Goto(p, "loop") /\ UNCHANGED frame
        /\ UNCHANGED <<registered, closed, queue, seenVars, evt, todo, cur,
                       eventSeq, writerVars, sessionVars, conn, bound>>

(* enqueue: three selects with a default, none of them blocking.           *)
AfterEnqueue(p) == IF frame[p] = ErrorFrame THEN "close" ELSE "loop"

(* The defect: a send without a default waits for room.                    *)
SendBlocking(p) ==
    /\ pc[p] = "send"
    /\ Len(queue[cur[p]]) < QueueCap
    /\ queue' = [queue EXCEPT ![cur[p]] = Append(@, frame[p])]
    /\ Goto(p, AfterEnqueue(p))
    /\ UNCHANGED <<registered, closed, seenVars, batch, evt, todo, cur, frame,
                   eventSeq, writerVars, sessionVars, conn, bound>>

Send(p) ==
    LET s == cur[p]
    IN  /\ pc[p] = "send"
        /\ \/ /\ Len(queue[s]) < QueueCap
              /\ queue' = [queue EXCEPT ![s] = Append(@, frame[p])]
              /\ Goto(p, AfterEnqueue(p))
           \/ /\ Len(queue[s]) = QueueCap
              /\ Goto(p, "drop")
              /\ UNCHANGED queue
        /\ UNCHANGED <<registered, closed, seenVars, batch, evt, todo, cur, frame,
                       eventSeq, writerVars, sessionVars, conn, bound>>

DropOldest(p) ==
    LET s == cur[p]
    IN  /\ pc[p] = "drop"
        /\ queue' = [queue EXCEPT ![s] = IF @ = <<>> THEN @ ELSE Tail(@)]
        /\ Goto(p, "resend")
        /\ UNCHANGED <<registered, closed, seenVars, batch, evt, todo, cur, frame,
                       eventSeq, writerVars, sessionVars, conn, bound>>

(* The defect: the frame that made room goes to the front.                 *)
ResendInFront(p) ==
    LET s == cur[p]
    IN  /\ pc[p] = "resend"
        /\ queue' = [queue EXCEPT ![s] = IF Len(@) < QueueCap
                                         THEN <<frame[p]>> \o @ ELSE @]
        /\ Goto(p, AfterEnqueue(p))
        /\ UNCHANGED <<registered, closed, seenVars, batch, evt, todo, cur, frame,
                       eventSeq, writerVars, sessionVars, conn, bound>>

Resend(p) ==
    LET s == cur[p]
    IN  /\ pc[p] = "resend"
        /\ \/ /\ Len(queue[s]) < QueueCap
              /\ queue' = [queue EXCEPT ![s] = Append(@, frame[p])]
           \/ /\ Len(queue[s]) = QueueCap       \* the new frame is dropped
              /\ UNCHANGED queue
        /\ Goto(p, AfterEnqueue(p))
        /\ UNCHANGED <<registered, closed, seenVars, batch, evt, todo, cur, frame,
                       eventSeq, writerVars, sessionVars, conn, bound>>

(* sub.Close() after the error frame; the broker keeps the subscription.   *)
CloseMissing(p) ==
    /\ pc[p] = "close"
    /\ closed' = closed \cup {cur[p]}
    /\ Goto(p, "loop")
    /\ UNCHANGED <<registered, queue, seenVars, batch, evt, todo, cur, frame,
                   eventSeq, writerVars, sessionVars, conn, bound>>

PublisherStep(p) ==
    \/ Snapshot(p)
    \/ Visit(p)
    \/ Return(p)
    \/ Remember(p)
    \/ CheckSchema(p)
    \/ SkipEvent(p)
    \/ BuildFrame(p)
    \/ Send(p)
    \/ DropOldest(p)
    \/ Resend(p)
    \/ CloseMissing(p)

-----------------------------------------------------------------------------
(* The writer goroutine.  Its select takes either ready case.              *)

WriterTake(s) ==
    /\ writer[s] = "select"
    /\ queue[s] # <<>>
    /\ inHand' = [inHand EXCEPT ![s] = Head(queue[s])]
    /\ queue' = [queue EXCEPT ![s] = Tail(@)]
    /\ writer' = [writer EXCEPT ![s] = "write"]
    /\ UNCHANGED <<registered, closed, seenVars, batch, pubVars, sent,
                   sessionVars, conn, bound>>

(* WriteMessage, which fails once the connection is stalled or closed.     *)
WriterWrite(s) ==
    /\ writer[s] = "write"
    /\ inHand' = [inHand EXCEPT ![s] = None]
    /\ IF conn = "open"
       THEN /\ sent' = [sent EXCEPT ![s] = Append(@, inHand[s])]
            /\ writer' = [writer EXCEPT ![s] = "select"]
       ELSE /\ writer' = [writer EXCEPT ![s] = "stopped"]
            /\ UNCHANGED sent
    /\ UNCHANGED <<registered, closed, queue, seenVars, batch, pubVars,
                   sessionVars, conn, bound>>

(* The defect: the writer watches the connection, not its subscription.    *)
WriterStopOnDisconnect(s) ==
    /\ writer[s] = "select"
    /\ conn = "closed"
    /\ writer' = [writer EXCEPT ![s] = "stopped"]
    /\ UNCHANGED <<registered, closed, queue, seenVars, batch, pubVars, inHand,
                   sent, sessionVars, conn, bound>>

WriterStop(s) ==
    /\ writer[s] = "select"
    /\ s \in closed
    /\ writer' = [writer EXCEPT ![s] = "stopped"]
    /\ UNCHANGED <<registered, closed, queue, seenVars, batch, pubVars, inHand,
                   sent, sessionVars, conn, bound>>

WriterStep(s) == WriterTake(s) \/ WriterWrite(s) \/ WriterStop(s)

-----------------------------------------------------------------------------
(* The session's read loop.                                                *)

(* RemoveSubscription, for the subscription an id stands for, if any.      *)
RemoveSubscription(s) ==
    /\ registered' = registered \ {s}
    /\ closed' = closed \cup ({s} \ {None})

(* The defect: the old subscription is only forgotten.                     *)
SubscribeForgets(i) ==
    /\ session = "read" /\ conn # "closed"
    /\ active' = [active EXCEPT ![i] = None]
    /\ want' = i
    /\ session' = "install"
    /\ UNCHANGED <<registered, closed, queue, seenVars, batch, pubVars, writerVars,
                   size, conn, bound>>

(* subscribe / start, up to the removal of the subscription it replaces.   *)
(* A message read after the client went away counts as read before.        *)
Subscribe(i) ==
    /\ session = "read" /\ conn # "closed"
    /\ RemoveSubscription(active[i])
    /\ active' = [active EXCEPT ![i] = None]
    /\ want' = i
    /\ session' = "install"
    /\ UNCHANGED <<queue, seenVars, batch, pubVars, writerVars, size, conn,
                   bound>>

(* No payload, no query, or a query that does not validate: an error reply.*)
SubscribeRejected ==
    /\ session = "install"
    /\ session' = "read"
    /\ want' = None
    /\ UNCHANGED <<registered, closed, queue, seenVars, batch, pubVars, writerVars,
                   active, size, conn, bound>>

(* AddSubscription, the writer goroutine, activeSubs.                      *)
SubscribeAccepted ==
    /\ session = "install"
    /\ \E s \in Subs :
         /\ writer[s] = "none"
         /\ registered' = registered \cup {s}
         /\ writer' = [writer EXCEPT ![s] = "select"]
         /\ active' = [active EXCEPT ![want] = s]
    /\ session' = "read"
    /\ want' = None
    /\ UNCHANGED <<closed, queue, seenVars, batch, pubVars, inHand, sent, size,
                   conn, bound>>

(* complete / stop: remove the subscription, then write the reply.         *)
Complete(i) ==
    /\ session = "read" /\ conn # "closed"
    /\ active[i] # None
    /\ RemoveSubscription(active[i])
    /\ active' = [active EXCEPT ![i] = None]
    /\ session' = "reply"
    /\ UNCHANGED <<queue, seenVars, batch, pubVars, writerVars, want, size, conn,
                   bound>>

CompleteReply ==
    /\ session = "reply"
    /\ session' = "read"
    /\ UNCHANGED <<registered, closed, queue, seenVars, batch, pubVars, writerVars,
                   active, want, size, conn, bound>>

(* ReadMessage returns an error or a close frame, or the text is not JSON: *)
(* the connection is closed and the deferred removals run, one by one.     *)
EndSession ==
    /\ session = "read"
    /\ session' = "unwind"
    /\ conn' = "closed"
    /\ UNCHANGED <<registered, closed, queue, seenVars, batch, pubVars, writerVars,
                   active, want, size, bound>>

(* The defect: the handler returns without the deferred removals.          *)
UnwindSkipped ==
    /\ session = "unwind"
    /\ session' = "done"
    /\ UNCHANGED <<registered, closed, queue, seenVars, batch, pubVars, writerVars,
                   active, want, size, conn, bound>>

Unwind ==
    /\ session = "unwind"
    /\ \/ \E i \in SubIds : /\ active[i] # None
                            /\ RemoveSubscription(active[i])
                            /\ active' = [active EXCEPT ![i] = None]
                            /\ UNCHANGED session
       \/ /\ \A i \in SubIds : active[i] = None
          /\ session' = "done"
          /\ UNCHANGED <<registered, closed, active>>
    /\ UNCHANGED <<queue, seenVars, batch, pubVars, writerVars, want, size,
                   conn, bound>>

-----------------------------------------------------------------------------
(* The surroundings.                                                       *)

(* The client vanishes.                                                    *)
Disconnect ==
    /\ "disconnect" \in Faults
    /\ conn # "closed"
    /\ conn' = "closed"
    /\ UNCHANGED <<registered, closed, queue, seenVars, batch, pubVars, writerVars,
                   sessionVars, bound>>

(* A write passes its deadline.  bufio.Writer keeps the error, so every    *)
(* later write fails too; the read loop does not learn of it.              *)
WriteTimesOut ==
    /\ "stall" \in Faults
    /\ conn = "open"
    /\ conn' = "stalled"
    /\ UNCHANGED <<registered, closed, queue, seenVars, batch, pubVars, writerVars,
                   sessionVars, bound>>

(* DeleteVersion of the bound version, or Register of it again.            *)
SchemaChanges ==
    /\ "delete" \in Faults
    /\ bound' = ~bound
    /\ UNCHANGED <<registered, closed, queue, seenVars, batch, pubVars, writerVars,
                   sessionVars, conn>>

Next ==
    \/ \E p \in Publishers : PublishEvent(p) \/ PublisherStep(p)
    \/ \E s \in Subs : WriterStep(s)
    \/ \E i \in SubIds : Subscribe(i) \/ Complete(i)
    \/ SubscribeRejected
    \/ SubscribeAccepted
    \/ CompleteReply
    \/ EndSession
    \/ Unwind
    \/ Disconnect
    \/ WriteTimesOut
    \/ SchemaChanges

Spec == Init /\ [][Next]_vars

(* A publisher inside PublishEvent keeps running: no step of it waits.     *)
(* Nothing is assumed of clients, sessions or writers, so this is the case *)
(* of a client that reads nothing.                                         *)
PublisherFairness == \A p \in Publishers : WF_vars(PublisherStep(p))

(* A write returns within its deadline and a select with a ready case      *)
(* proceeds; a read on a closed connection returns its error, and the      *)
(* deferred removals run.                                                  *)
SessionFairness ==
    /\ \A s \in Subs : WF_vars(WriterStep(s))
    /\ WF_vars(SubscribeRejected \/ SubscribeAccepted)
    /\ WF_vars(CompleteReply)
    /\ WF_vars(conn = "closed" /\ EndSession)
    /\ WF_vars(Unwind)

FairSpec == Spec /\ PublisherFairness

-----------------------------------------------------------------------------
(* Properties.                                                             *)

(* The frames that have left the publishers for s, oldest first.           *)
Pipeline(s) ==
    sent[s] \o (IF inHand[s] = None THEN <<>> ELSE <<inHand[s]>>) \o queue[s]

PendingIn(s) ==
    {p \in Publishers : cur[p] = s /\ pc[p] \in {"send", "drop", "resend"}}

(* At most once: as long as its remembered set has not been emptied, a     *)
(* subscription has an event id in at most one place (written, taken by    *)
(* the writer, queued, batched or about to be enqueued), although two      *)
(* publishers may publish the same id at the same time.                    *)
AtMostOnce ==
    \A s \in Subs \ emptied :
        LET frames == Append(Pipeline(s), batch[s])
        IN  /\ \A i, j \in DOMAIN frames :
                 \A k \in DOMAIN frames[i], l \in DOMAIN frames[j] :
                    frames[i][k].id = frames[j][l].id => i = j /\ k = l
            /\ \A p \in PendingIn(s) : \A k \in DOMAIN frame[p] :
                 /\ \A i \in DOMAIN frames : \A l \in DOMAIN frames[i] :
                       frames[i][l].id # frame[p][k].id
                 /\ \A q \in PendingIn(s) : \A l \in DOMAIN frame[q] :
                       frame[q][l].id = frame[p][k].id => q = p /\ l = k

(* Without batching, the events of one publisher reach a subscription in   *)
(* the order they were published, whatever is dropped in between.          *)
PublisherOrder ==
    size = 1 => \A s \in Subs :
        \A i, j \in DOMAIN Pipeline(s) :
            \A k \in DOMAIN Pipeline(s)[i], l \in DOMAIN Pipeline(s)[j] :
                LET a == Pipeline(s)[i][k]
                    b == Pipeline(s)[j][l]
                IN  (i < j \/ (i = j /\ k < l)) /\ a.pub = b.pub => a.n < b.n

(* Exactly the subscriptions a session knows by an id are registered with  *)
(* the broker: none is left behind by a replacement, a completion or the   *)
(* end of the connection, and one that was left is closed.                 *)
NoOrphans ==
    /\ registered = {active[i] : i \in SubIds} \ {None}
    /\ \A s \in Subs \ registered : writer[s] # "none" => s \in closed

(* Publishing never waits for a subscriber: a publisher that entered       *)
(* PublishEvent returns even if no client reads anything.                  *)
PublishReturns == \A p \in Publishers : pc[p] # "idle" ~> pc[p] = "idle"

(* A session whose connection has gone ends, and every writer goroutine it *)
(* started stops.                                                          *)
SessionEnds ==
    SessionFairness =>
        (conn = "closed" ~> /\ session = "done"
                            /\ registered = {}
                            /\ \A s \in Subs : writer[s] \in {"none", "stopped"})

(* The writer goroutine of a subscription that has been replaced or        *)
(* completed stops, also while the session goes on, and with frames of     *)
(* publishers that had copied the set before.                              *)
RemovedWritersStop ==
    SessionFairness =>
        \A s \in Subs : writer[s] # "none" /\ s \notin registered
                           ~> writer[s] = "stopped"
=============================================================================
